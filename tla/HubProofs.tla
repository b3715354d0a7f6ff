----------------------------- MODULE HubProofs ------------------------------
(***************************************************************************)
(* Theorems about Hub, for every registry, any layers, releases and number *)
(* of pages, and for versions of up to three components the choice of a    *)
(* release: its types, requests, searches, settings and releases, and what *)
(* UntarLayer and TarLayer make of layers and of a folder.                 *)
(***************************************************************************)
EXTENDS Hub, WellFoundedInduction, FiniteSetTheorems, TLAPS

USE DEF Goto

-----------------------------------------------------------------------------
(* Requests *)

\* An empty token means that none was granted; an answer that has passed
\* TokenTransport is no refusal that would have been followed up, and one that has
\* passed ErrorTransport is good or an error.
TokenInv ==
    /\ RegistryTypeOK
    /\ req.token = "empty" => req.service = "withheld"
    /\ req.at = "back" => req.place \in 1..3
    /\ req.at = "token" => req.place = 3
    /\ req.at = "over" => req.place = 0
    /\ req.at \in {"back", "over"} =>
          /\ req.got = "refused" => req.token # "good"
          /\ req.place = 3 /\ req.err => req.got = "lost"
          /\ req.place < 3 /\ req.got = "refused" /\ req.auth = "bearer" =>
                req.service = "withheld"
          /\ req.place = 0 => req.err \/ req.got = "ok"

LEMMA ChainIs ==
    Len(Chain) = 3 /\ Chain[1] = "error" /\ Chain[2] = "basic" /\ Chain[3] = "token"
BY DEF Chain

\* What a step of the system may do to the request.
LEMMA RequestStep ==
    ASSUME [Next]_vars
    PROVE  req' = req \/ req' = NoRequest \/ Ask \/ Travels
<1>1. CASE StartSearch \/ StartMerge
  BY <1>1 DEF StartSearch, StartMerge
<1>2. CASE Sends \/ Transport \/ CallFails \/ NoHost
  BY <1>2 DEF Sends, Transport, CallFails, NoHost, Fail
<1>3. CASE Pinged \/ Page \/ Manifest \/ Blob
  BY <1>3 DEF Pinged, Page, Manifest, Blob
<1>4. CASE LookForFile \/ Copy \/ UntarNext \/ UntarFails
  BY <1>4 DEF LookForFile, Copy, UntarNext, UntarFails
<1>5. CASE Choose \/ (\E a \in Addresses : Fetch(a)) \/ Tar
  BY <1>5 DEF Choose, Fetch, Tar
<1>6. CASE UNCHANGED vars
  BY <1>6 DEF vars
<1>. QED
  BY <1>1, <1>2, <1>3, <1>4, <1>5, <1>6 DEF Next

LEMMA TokenInit == Init => TokenInv
BY ChainIs DEF Init, TokenInv, RegistryTypeOK, Requests, NoRequest, Auths

LEMMA TokenStep == TokenInv /\ [Next]_vars => TokenInv'
<1>. SUFFICES ASSUME TokenInv, [Next]_vars
              PROVE  TokenInv'
  OBVIOUS
<1>. req \in Requests
  BY DEF TokenInv, RegistryTypeOK
<1>1. CASE req' = req
  BY <1>1 DEF TokenInv, RegistryTypeOK
<1>2. CASE req' = NoRequest \/ Ask
  <2>1. PICK auth \in Auths, at \in {"idle", "sent"} :
           req' = [auth |-> auth, at |-> at, place |-> 0, token |-> "none",
                   service |-> "unasked", got |-> "none", err |-> FALSE]
    BY <1>2 DEF NoRequest, Ask, Auths
  <2>. QED
    BY <2>1, ChainIs DEF TokenInv, RegistryTypeOK, Requests
<1>3. CASE Answered
  <2>1. PICK answer \in RegistryAnswers, e \in BOOLEAN :
          /\ req' = [req EXCEPT !.at = "back", !.place = 3, !.got = answer,
                                !.err = e]
          /\ e => answer = "lost"
    BY <1>3, ChainIs DEF Answered
  <2>2. /\ answer \in {"lost", "fault", "ok", "missing", "refused"}
        /\ answer = "refused" => req.token # "good"
    BY DEF RegistryAnswers, Admits
  <2>3. /\ req' \in Requests
        /\ req'.at = "back" /\ req'.place = 3 /\ req'.got = answer
        /\ req'.token = req.token /\ req'.service = req.service
        /\ req'.err = e
    <3>1. 3 \in 0..Len(Chain)
      BY ChainIs
    <3>2. answer \in {"none", "ok", "missing", "fault", "refused", "lost"}
      BY <2>2
    <3>. HIDE DEF Chain
    <3>. QED  BY <2>1, <3>1, <3>2 DEF Requests
  <2>. QED  BY <2>1, <2>2, <2>3 DEF TokenInv, RegistryTypeOK
<1>4. CASE Demands
  <2>1. /\ req.at = "back" /\ req.place = 3
        /\ req' = [req EXCEPT !.at = "token", !.got = "none"]
    BY <1>4, ChainIs DEF Demands, TokenInv
  <2>. QED  BY <2>1 DEF TokenInv, RegistryTypeOK, Requests
<1>5. CASE HandsOn
  <2>. DEFINE e == req.err \/ (Chain[req.place] = "error" /\ req.got # "ok")
              at == IF req.place = 1 THEN "over" ELSE "back"
  <2>1. /\ req.at = "back" /\ req.place \in 1..3
        /\ ~ (req.place = 3 /\ TokenDemand)
        /\ req' = [req EXCEPT !.err = e, !.place = req.place - 1, !.at = at]
    BY <1>5, ChainIs DEF HandsOn, TokenInv
  <2>2. /\ e \in BOOLEAN
        /\ req.place = 1 => e \/ req.got = "ok"
        /\ req.place = 2 => at = "back"
    BY ChainIs DEF Requests
  <2>3. /\ req' \in Requests
        /\ req'.at = at /\ req'.place = req.place - 1 /\ req'.err = e
        /\ req'.token = req.token /\ req'.service = req.service
        /\ req'.got = req.got /\ req'.auth = req.auth
    <3>. HIDE DEF e
    <3>1. req.place - 1 \in 0..3 /\ at \in {"over", "back"}
      BY <2>1
    <3>. HIDE DEF at
    <3>. QED  BY <2>1, <2>2, <3>1, ChainIs DEF Requests
  <2>4. req.place = 3 /\ req.got = "refused" /\ req.auth = "bearer" =>
           req.service = "withheld"
    BY <2>1 DEF TokenDemand, TokenInv, Requests
  <2>5. req.got = "refused" => req.token # "good"
    BY <2>1 DEF TokenInv
  <2>6. req.place < 3 /\ req.got = "refused" /\ req.auth = "bearer" =>
           req.service = "withheld"
    BY <2>1 DEF TokenInv
  <2>. HIDE DEF e
  <2>. QED  BY <2>1, <2>2, <2>3, <2>4, <2>5, <2>6 DEF TokenInv, RegistryTypeOK
<1>6. CASE TokenAnswered
  <2>1. req.at = "token" /\ req.place = 3
    BY <1>6 DEF TokenAnswered, TokenInv
  <2>2. \/ \E token \in {"good", "empty"}, service \in {"granted", "withheld"} :
              /\ req' = [req EXCEPT !.at = "sent", !.token = token,
                                    !.service = service]
              /\ token = "empty" => service = "withheld"
        \/ req' = [req EXCEPT !.at = "back", !.got = "lost", !.err = TRUE,
                              !.service = "withheld"]
    <3>1. PICK answer \in ServiceAnswers :
             req' = CASE answer = "token" ->
                           [Retry("good") EXCEPT !.service = "granted"]
                      [] answer \in {"bare", "status"} ->
                           [Retry("empty") EXCEPT !.service = "withheld"]
                      [] answer = "lost" ->
                           [req EXCEPT !.at = "back", !.got = "lost",
                                       !.err = TRUE, !.service = "withheld"]
      BY <1>6 DEF TokenAnswered
    <3>2. CASE answer = "token"
      BY <3>1, <3>2 DEF Retry, Requests
    <3>3. CASE answer \in {"bare", "status"}
      BY <3>1, <3>3 DEF Retry, Requests
    <3>4. CASE answer = "lost"
      BY <3>1, <3>4
    <3>. QED  BY <3>2, <3>3, <3>4 DEF ServiceAnswers
  <2>3. CASE req' = [req EXCEPT !.at = "back", !.got = "lost", !.err = TRUE,
                                !.service = "withheld"]
    <3>1. /\ req' \in Requests
          /\ req'.at = "back" /\ req'.place = 3 /\ req'.got = "lost"
          /\ req'.token = req.token /\ req'.service = "withheld"
      BY <2>1, <2>3 DEF Requests
    <3>. QED  BY <3>1 DEF TokenInv, RegistryTypeOK
  <2>4. CASE \E token \in {"good", "empty"},
                service \in {"granted", "withheld"} :
                /\ req' = [req EXCEPT !.at = "sent", !.token = token,
                                      !.service = service]
                /\ token = "empty" => service = "withheld"
    <3>1. PICK token \in {"good", "empty"},
               service \in {"granted", "withheld"} :
             /\ req' = [req EXCEPT !.at = "sent", !.token = token,
                                   !.service = service]
             /\ token = "empty" => service = "withheld"
      BY <2>4
    <3>2. /\ req' \in Requests /\ req'.at = "sent"
          /\ req'.token = token /\ req'.service = service
      BY <3>1 DEF Requests
    <3>. QED  BY <3>1, <3>2 DEF TokenInv, RegistryTypeOK
  <2>. QED  BY <2>2, <2>3, <2>4
<1>. QED
  BY RequestStep, <1>1, <1>2, <1>3, <1>4, <1>5, <1>6 DEF Travels

\* What a caller takes for an answer is one, and what is kept for bearers of a token
\* is refused only after the token service has been asked and has granted none, for
\* every registry and any number of requests (WrapTransport, TokenTransport,
\* ErrorTransport).
THEOREM AnswersGood == Spec => []GoodAnswerOrError
<1>1. TokenInv => GoodAnswerOrError
  BY DEF TokenInv, GoodAnswerOrError, Succeeds
<1>. QED
  BY TokenInit, TokenStep, <1>1, PTL DEF Spec

-----------------------------------------------------------------------------
(* Searches *)

Pages(n) == [i \in 1..n |-> i]

MergeSteps ==
    {"manifest", "blob", "file", "copy", "untar", "setting", "release", "distro",
     "default", "tar"}

\* Tags grow with the pages that come, and only those of a search.
TagsInv ==
    /\ paged.given \in Nat
    /\ pc \in {"start", "ping", "page", "done", "failed"} \cup MergeSteps
    /\ pc \in {"start", "ping", "failed"} \cup MergeSteps => tags = <<>>
    /\ pc \in {"start", "ping"} => paged.given = 0
    /\ pc \in {"start"} \cup MergeSteps => ~search
    /\ pc = "page" => search
    /\ pc = "page" \/ (pc = "done" /\ search) => tags = Pages(paged.given)

LEMMA PagesGrow ==
    ASSUME NEW n \in Nat
    PROVE  Append(Pages(n), n + 1) = Pages(n + 1)
<1>1. Pages(n) \in Seq(Nat) /\ Len(Pages(n)) = n
  BY DEF Pages
<1>2. /\ Append(Pages(n), n + 1) \in Seq(Nat)
      /\ Len(Append(Pages(n), n + 1)) = n + 1
      /\ \A i \in 1..(n + 1) : Append(Pages(n), n + 1)[i] = i
  BY <1>1 DEF Pages
<1>3. Pages(n + 1) \in Seq(Nat) /\ Len(Pages(n + 1)) = n + 1
  BY DEF Pages
<1>. QED
  BY <1>2, <1>3 DEF Pages

LEMMA NoPages == Pages(0) = <<>>
BY DEF Pages

LEMMA TagsStep == TagsInv /\ [Next]_vars => TagsInv'
<1>. SUFFICES ASSUME TagsInv, [Next]_vars
              PROVE  TagsInv'
  OBVIOUS
<1>. USE DEF MergeSteps
<1>1. CASE StartSearch \/ StartMerge
  <2>1. tags' = tags /\ paged' = paged
    BY <1>1 DEF StartSearch, StartMerge
  <2>2. /\ pc = "start"
        /\ pc' = "ping" \/ (pc' = "untar" /\ search' = search)
    BY <1>1 DEF StartSearch, StartMerge
  <2>. QED
    BY <2>1, <2>2 DEF TagsInv
<1>2. CASE Sends \/ Transport
  BY <1>2 DEF Sends, Transport, TagsInv
<1>3. CASE CallFails \/ NoHost
  BY <1>3 DEF CallFails, NoHost, Fail, TagsInv
<1>4. CASE Pinged
  BY <1>4, NoPages DEF Pinged, TagsInv
<1>5. CASE Page
  <2>1. PICK link \in Links :
           /\ tags' = Append(tags, paged.given + 1)
           /\ paged' = [given |-> paged.given + 1, next |-> link]
           /\ pc' = IF link = "none" THEN "done" ELSE "page"
    BY <1>5 DEF Page, Collect
  <2>2. tags' = Pages(paged'.given)
    BY <1>5, <2>1, PagesGrow DEF Page, TagsInv
  <2>. QED
    BY <1>5, <2>1, <2>2 DEF Page, TagsInv
<1>6. CASE Manifest \/ Blob
  BY <1>6 DEF Manifest, Blob, TagsInv
<1>7. CASE LookForFile \/ Copy
  BY <1>7 DEF LookForFile, Copy, Advance, TagsInv
<1>8. CASE UntarNext \/ UntarFails
  BY <1>8 DEF UntarNext, UntarFails, TagsInv
<1>9. ASSUME NEW a \in Addresses, Fetch(a)
      PROVE  TagsInv'
  BY <1>9 DEF Fetch, AfterCut, Fallback, Addresses, TagsInv
<1>10. CASE Choose \/ Tar
  BY <1>10 DEF Choose, Tar, TagsInv
<1>11. CASE UNCHANGED vars
  BY <1>11 DEF vars, TagsInv
<1>. QED
  BY <1>1, <1>2, <1>3, <1>4, <1>5, <1>6, <1>7, <1>8, <1>9, <1>10, <1>11
     DEF Next

\* A search without an error has all pages, each once and in order, however many
\* there are, and a failed one none (Tags).
THEOREM SearchWhole == Spec => []TagsWhole
<1>1. Init => TagsInv
  BY DEF Init, TagsInv, MergeSteps
<1>2. TagsInv => TagsWhole
  BY DEF TagsInv, TagsWhole, Pages
<1>. QED
  BY <1>1, <1>2, TagsStep, PTL DEF Spec

-----------------------------------------------------------------------------
(* Settings *)

\* Nothing has come whole until the settings are had.
SettingInv ==
    /\ pc \notin {"tar", "done"} => gave = {}
    /\ pc \in {"tar", "done"} /\ ~search =>
          gave = {setting.from} /\ ~setting.cut

LEMMA SettingStep == TagsInv /\ SettingInv /\ [Next]_vars => SettingInv'
<1>. SUFFICES ASSUME TagsInv, SettingInv, [Next]_vars
              PROVE  SettingInv'
  OBVIOUS
<1>. USE DEF MergeSteps, merge
<1>1. CASE StartSearch \/ StartMerge
  BY <1>1 DEF StartSearch, StartMerge, SettingInv
<1>2. CASE Sends \/ Transport \/ CallFails \/ NoHost \/ Pinged \/ Blob
  BY <1>2 DEF Sends, Transport, CallFails, NoHost, Fail, Pinged, Blob,
     SettingInv
<1>3. CASE Page
  BY <1>3 DEF Page, SettingInv, TagsInv
<1>4. CASE Manifest \/ LookForFile \/ Copy
  BY <1>4 DEF Manifest, LookForFile, Copy, Advance, SettingInv
<1>5. CASE UntarNext \/ UntarFails \/ Choose
  BY <1>5 DEF UntarNext, UntarFails, Choose, SettingInv
<1>6. ASSUME NEW a \in Addresses, Fetch(a)
      PROVE  SettingInv'
  BY <1>6 DEF Fetch, AfterCut, Fallback, Addresses, SettingInv
<1>7. CASE Tar
  BY <1>7 DEF Tar, SettingInv
<1>8. CASE UNCHANGED vars
  BY <1>8 DEF vars, SettingInv
<1>. QED
  BY <1>1, <1>2, <1>3, <1>4, <1>5, <1>6, <1>7, <1>8 DEF Next

\* A merge goes on only with the whole of the first answer that was whole
\* (DownloadFilefromGithubPlus).
THEOREM SettingsWhole == Spec => []SettingOfFirstAnswer
<1>1. Init => TagsInv /\ SettingInv
  BY DEF Init, TagsInv, SettingInv, MergeSteps
<1>2. SettingInv => SettingOfFirstAnswer
  BY DEF SettingInv, SettingOfFirstAnswer
<1>. QED
  BY <1>1, <1>2, TagsStep, SettingStep, PTL DEF Spec

-----------------------------------------------------------------------------
(* Releases *)

LEMMA Least ==
    ASSUME NEW T \in SUBSET Nat, T # {}
    PROVE  First(T) \in T /\ \A j \in T : First(T) <= j
<1>. DEFINE Less == {q \in Nat \X Nat : q[1] < q[2]}
<1>1. IsWellFoundedOn(Less, Nat)
  <2>1. OpToRel(<, Nat) = Less
    BY DEF OpToRel
  <2>. QED  BY <2>1, NatLessThanWellFounded
<1>2. PICK x \in T : \A y \in T : ~(<<y, x>> \in Less)
  BY <1>1, WFMin
<1>3. ASSUME NEW y \in T PROVE x <= y
  <2>. DEFINE q == <<y, x>>
  <2>1. x \in Nat /\ y \in Nat /\ q \in Nat \X Nat /\ q[1] = y /\ q[2] = x
    OBVIOUS
  <2>2. q \notin Less
    BY <1>2
  <2>. HIDE DEF q
  <2>. QED  BY <2>1, <2>2
<1>. QED  BY <1>3 DEF First

\* Of two numbers in a positional system, the first digit that differs decides.
LEMMA Product ==
    ASSUME NEW m \in Nat, NEW n \in Nat, NEW b \in Nat, m <= n
    PROVE  m * b <= n * b
<1>1. PICK z \in Nat : n = m + z
  <2>1. n - m \in Nat /\ n = m + (n - m)
    OBVIOUS
  <2>. QED  BY <2>1
<1>2. n * b = m * b + z * b
  BY <1>1
<1>3. z * b \in Nat /\ m * b \in Nat
  OBVIOUS
<1>. QED  BY <1>2, <1>3

LEMMA Positional ==
    ASSUME NEW m \in Nat, NEW n \in Nat, NEW b \in Nat \ {0}, m < n,
           NEW c \in 0..(b - 1), NEW d \in 0..(b - 1)
    PROVE  m * b + c < n * b + d
<1>1. (m + 1) * b <= n * b
  BY Product
<1>2. (m + 1) * b = m * b + b
  OBVIOUS
<1>3. m * b \in Nat /\ n * b \in Nat
  OBVIOUS
<1>. QED  BY <1>1, <1>2, <1>3

Short(v) == Len(v) <= 3

Numbers == {v \in Seq(Components) \ {<<>>} : Numeric(v) /\ Short(v)}

LEMMA DigitType ==
    ASSUME NEW v \in Numbers, NEW i \in 1..3
    PROVE  /\ Digit(v, i) \in 0..Limit
           /\ i \in DOMAIN v => v[i] \in 0..(Limit - 1) /\ Digit(v, i) = v[i] + 1
           /\ i \notin DOMAIN v => Digit(v, i) = 0
BY VersionsAssumption DEF Numbers, Numeric, Components, Digit

\* Weight orders versions as their components do, one after the other.
LEMMA WeightOrders ==
    ASSUME NEW v \in Numbers, NEW w \in Numbers, NEW i \in 1..3,
           \A j \in 1..(i - 1) : Digit(v, j) = Digit(w, j),
           Digit(v, i) < Digit(w, i)
    PROVE  Weight(v) < Weight(w)
<1>. DEFINE B == Limit + 1
            V(j) == Digit(v, j)
            W(j) == Digit(w, j)
<1>1. B \in Nat \ {0} /\ \A j \in 1..3 : V(j) \in 0..(B - 1) /\ W(j) \in 0..(B - 1)
  BY DigitType, VersionsAssumption
<1>2. /\ V(1) \in 0..(B - 1) /\ V(2) \in 0..(B - 1) /\ V(3) \in 0..(B - 1)
      /\ W(1) \in 0..(B - 1) /\ W(2) \in 0..(B - 1) /\ W(3) \in 0..(B - 1)
  BY <1>1
<1>3. Weight(v) = V(1) * B * B + V(2) * B + V(3) /\ Weight(w) = W(1) * B * B + W(2) * B + W(3)
  BY DEF Weight
<1>4. ASSUME NEW x \in Nat, NEW y \in Nat, NEW z \in Nat, NEW b \in Nat
      PROVE  x * b * b + y * b + z = (x * b + y) * b + z
  OBVIOUS
<1>. HIDE DEF B, V, W
<1>5. /\ Weight(v) = (V(1) * B + V(2)) * B + V(3)
      /\ Weight(w) = (W(1) * B + W(2)) * B + W(3)
  BY <1>1, <1>2, <1>3, <1>4
<1>6. /\ V(1) * B \in Nat /\ V(1) * B + V(2) \in Nat
      /\ W(1) * B \in Nat /\ W(1) * B + W(2) \in Nat
  BY <1>1, <1>2
<1>7. CASE i = 1
  <2>1. V(1) < W(1)
    BY <1>7 DEF V, W
  <2>2. V(1) * B + V(2) < W(1) * B + W(2)
    BY <1>1, <1>2, <2>1, Positional
  <2>. QED  BY <1>1, <1>2, <1>5, <1>6, <2>2, Positional
<1>8. CASE i = 2
  <2>1. V(1) = W(1) /\ V(2) < W(2)
    BY <1>8 DEF V, W
  <2>2. V(1) * B + V(2) < W(1) * B + W(2)
    BY <1>2, <1>6, <2>1
  <2>. QED  BY <1>1, <1>2, <1>5, <1>6, <2>2, Positional
<1>9. CASE i = 3
  <2>1. V(1) = W(1) /\ V(2) = W(2) /\ V(3) < W(3)
    BY <1>9 DEF V, W
  <2>2. (V(1) * B + V(2)) * B \in Nat
    BY <1>1, <1>6
  <2>. QED  BY <1>2, <1>5, <2>1, <2>2
<1>. QED  BY <1>7, <1>8, <1>9


LEMMA NumberType ==
    ASSUME NEW v \in Numbers
    PROVE  Len(v) \in 1..3 /\ DOMAIN v = 1..Len(v) /\ \A i \in DOMAIN v : v[i] \in 0..(Limit - 1)
<1>1. v \in Seq(Components) /\ v # <<>> /\ Numeric(v) /\ Len(v) <= 3
  BY DEF Numbers, Short
<1>2. DOMAIN v = 1..Len(v) /\ Len(v) \in Nat /\ Len(v) # 0
  BY <1>1
<1>3. ASSUME NEW i \in DOMAIN v PROVE v[i] \in 0..(Limit - 1)
  <2>1. v[i] \in Components /\ v[i] # Word
    BY <1>1, <1>3 DEF Numeric
  <2>. QED  BY <2>1 DEF Components
<1>. QED  BY <1>1, <1>2, <1>3

LEMMA WeightType ==
    ASSUME NEW v \in Numbers
    PROVE  Weight(v) \in Nat
<1>1. /\ Digit(v, 1) \in Nat /\ Digit(v, 2) \in Nat /\ Digit(v, 3) \in Nat
      /\ Limit + 1 \in Nat
  BY DigitType, VersionsAssumption
<1>2. ASSUME NEW x \in Nat, NEW y \in Nat, NEW z \in Nat, NEW b \in Nat
      PROVE  x * b * b + y * b + z \in Nat
  OBVIOUS
<1>. QED  BY <1>1, <1>2 DEF Weight

\* CompareVersion compares what versions of up to three numbers weigh.
LEMMA CompareWeighs ==
    ASSUME NEW v \in Numbers, NEW w \in Numbers
    PROVE  CompareVersion(v, w) = Sign(Weight(v), Weight(w))
<1>1. /\ Len(v) \in 1..3 /\ DOMAIN v = 1..Len(v)
      /\ Len(w) \in 1..3 /\ DOMAIN w = 1..Len(w)
      /\ \A i \in DOMAIN v : v[i] \in 0..(Limit - 1)
      /\ \A i \in DOMAIN w : w[i] \in 0..(Limit - 1)
  BY NumberType
<1>2. Weight(v) \in Nat /\ Weight(w) \in Nat
  BY WeightType
<1>3. \A i \in DOMAIN v \cap DOMAIN w :
         /\ i \in Decisive(v, w) <=> v[i] # w[i]
         /\ Word \notin {v[i], w[i]}
  BY <1>1, VersionsAssumption DEF Decisive
<1>4. /\ Len(v) \in Nat /\ 1 <= Len(v) /\ Len(v) <= 3
      /\ Len(w) \in Nat /\ 1 <= Len(w) /\ Len(w) <= 3
      /\ \A i \in Nat : /\ i \in DOMAIN v <=> 1 <= i /\ i <= Len(v)
                        /\ i \in DOMAIN w <=> 1 <= i /\ i <= Len(w)
  BY <1>1
<1>5. CASE Decisive(v, w) = {}
  <2>1. CompareVersion(v, w) = Sign(Len(v), Len(w))
    BY <1>5 DEF CompareVersion
  <2>2. \A i \in DOMAIN v \cap DOMAIN w : Digit(v, i) = Digit(w, i)
    BY <1>3, <1>5 DEF Digit
  <2>3. CASE Len(v) = Len(w)
    <3>1. Digit(v, 1) = Digit(w, 1) /\ Digit(v, 2) = Digit(w, 2) /\ Digit(v, 3) = Digit(w, 3)
      BY <1>1, <2>2, <2>3 DEF Digit
    <3>. QED  BY <1>2, <2>1, <2>3, <3>1 DEF Weight, Sign
  <2>4. CASE Len(v) < Len(w)
    <3>. DEFINE i == Len(v) + 1
    <3>1. i \in 1..3 /\ i \in DOMAIN w /\ i \notin DOMAIN v
      BY <1>4, <2>4
    <3>2. Digit(v, i) < Digit(w, i)
      BY <1>1, <3>1, VersionsAssumption DEF Digit
    <3>3. \A j \in 1..(i - 1) : Digit(v, j) = Digit(w, j)
      BY <1>1, <2>2, <2>4
    <3>. HIDE DEF i
    <3>4. Weight(v) < Weight(w)
      BY <3>1, <3>2, <3>3, WeightOrders
    <3>. QED  BY <1>2, <2>1, <2>4, <3>4 DEF Sign
  <2>5. CASE Len(v) > Len(w)
    <3>. DEFINE i == Len(w) + 1
    <3>1. i \in 1..3 /\ i \in DOMAIN v /\ i \notin DOMAIN w
      BY <1>4, <2>5
    <3>2. Digit(w, i) < Digit(v, i)
      BY <1>1, <3>1, VersionsAssumption DEF Digit
    <3>3. \A j \in 1..(i - 1) : Digit(w, j) = Digit(v, j)
      BY <1>1, <2>2, <2>5
    <3>. HIDE DEF i
    <3>4. Weight(w) < Weight(v)
      BY <3>1, <3>2, <3>3, WeightOrders
    <3>. QED  BY <1>1, <1>2, <2>1, <2>5, <3>4 DEF Sign
  <2>. QED  BY <1>4, <2>3, <2>4, <2>5
<1>6. CASE Decisive(v, w) # {}
  <2>. DEFINE i == First(Decisive(v, w))
  <2>1. Decisive(v, w) \in SUBSET Nat
    BY <1>1 DEF Decisive
  <2>2. i \in Decisive(v, w) /\ \A j \in Decisive(v, w) : i <= j
    BY <1>6, <2>1, Least
  <2>3. i \in DOMAIN v \cap DOMAIN w /\ i \in 1..3
    BY <1>1, <2>2 DEF Decisive
  <2>4. CompareVersion(v, w) = Sign(v[i], w[i])
    BY <1>3, <1>6, <2>3 DEF CompareVersion
  <2>5. \A j \in 1..(i - 1) : j \in DOMAIN v \cap DOMAIN w /\ j \notin Decisive(v, w)
    BY <1>1, <2>2, <2>3
  <2>. HIDE DEF i
  <2>6. \A j \in 1..(i - 1) : Digit(v, j) = Digit(w, j)
    BY <1>3, <2>5 DEF Digit
  <2>7. /\ v[i] \in Nat /\ w[i] \in Nat /\ v[i] # w[i]
        /\ Digit(v, i) = v[i] + 1 /\ Digit(w, i) = w[i] + 1
    BY <1>1, <1>3, <2>2, <2>3, VersionsAssumption DEF Digit
  <2>8. CASE v[i] < w[i]
    <3>1. Weight(v) < Weight(w)
      BY <2>3, <2>6, <2>7, <2>8, WeightOrders
    <3>. QED  BY <1>2, <2>4, <2>7, <2>8, <3>1 DEF Sign
  <2>9. CASE w[i] < v[i]
    <3>1. \A j \in 1..(i - 1) : Digit(w, j) = Digit(v, j)
      BY <2>6
    <3>2. Weight(w) < Weight(v)
      BY <2>3, <2>7, <2>9, <3>1, WeightOrders
    <3>. QED  BY <1>2, <2>4, <2>7, <2>9, <3>2 DEF Sign
  <2>. QED  BY <2>7, <2>8, <2>9
<1>. QED  BY <1>5, <1>6

Versioned == Seq(Components) \ {<<>>}

LEMMA ReleaseClosest ==
    ASSUME NEW list \in Seq(Versioned), NEW wanted \in Versioned,
           \A i \in DOMAIN list : Short(list[i]), Short(wanted),
           NewestFirst(list), Numeric(wanted) \/ wanted[1] = Word
    PROVE  Closest(list, wanted, Release(list, wanted))
<1>. DEFINE fit == {i \in DOMAIN list : CompareVersion(list[i], wanted) \in {-1, 0}}
            older == {i \in DOMAIN list :
                        Numeric(wanted) => Weight(list[i]) <= Weight(wanted)}
<1>1. \A i \in DOMAIN list : list[i] \in Numbers
  BY DEF Numbers, NewestFirst, Versioned
<1>2. fit = older
  <2>1. CASE Numeric(wanted)
    <3>1. wanted \in Numbers
      BY <2>1 DEF Numbers, Versioned
    <3>2. ASSUME NEW i \in DOMAIN list
          PROVE  CompareVersion(list[i], wanted) \in {-1, 0}
                    <=> Weight(list[i]) <= Weight(wanted)
      <4>1. Weight(list[i]) \in Nat /\ Weight(wanted) \in Nat
        BY <1>1, <3>1, WeightType
      <4>2. CompareVersion(list[i], wanted) = Sign(Weight(list[i]), Weight(wanted))
        BY <1>1, <3>1, CompareWeighs
      <4>. QED  BY <4>1, <4>2 DEF Sign
    <3>. QED  BY <2>1, <3>2
  <2>2. CASE ~Numeric(wanted)
    <3>1. ASSUME NEW i \in DOMAIN list
          PROVE  CompareVersion(list[i], wanted) = 0
      <4>. DEFINE v == list[i]
      <4>1. 1 \in DOMAIN v /\ 1 \in DOMAIN wanted /\ wanted[1] = Word
        BY <1>1, <2>2, NumberType DEF Versioned
      <4>2. 1 \in Decisive(v, wanted) /\ Decisive(v, wanted) \in SUBSET (Nat \ {0})
        <5>1. DOMAIN v \subseteq Nat \ {0}
          BY <1>1, NumberType
        <5>. QED  BY <4>1, <5>1 DEF Decisive
      <4>3. First(Decisive(v, wanted)) = 1
        <5>1. /\ First(Decisive(v, wanted)) \in Decisive(v, wanted)
              /\ First(Decisive(v, wanted)) <= 1
          BY <4>2, Least
        <5>. QED  BY <4>2, <5>1
      <4>. HIDE DEF v
      <4>4. CompareVersion(v, wanted) = 0
        BY <4>1, <4>2, <4>3 DEF CompareVersion
      <4>. QED  BY <4>4 DEF v
    <3>. QED  BY <2>2, <3>1
  <2>. QED  BY <2>1, <2>2
<1>3. CASE fit = {}
  <2>1. Release(list, wanted) = wanted
    BY <1>3 DEF Release
  <2>. QED  BY <1>2, <1>3, <2>1 DEF Closest
<1>4. CASE fit # {}
  <2>. DEFINE f == First(fit)
  <2>1. fit \in SUBSET Nat
    OBVIOUS
  <2>2. f \in fit /\ \A j \in fit : f <= j
    BY <1>4, <2>1, Least
  <2>3. Release(list, wanted) = list[f]
    BY <1>4 DEF Release
  <2>4. ASSUME NEW j \in older
        PROVE  Weight(list[j]) <= Weight(list[f])
    <3>1. f \in DOMAIN list /\ j \in DOMAIN list /\ f \in Nat /\ j \in Nat /\ f <= j
      BY <1>2, <2>2
    <3>2. Weight(list[f]) \in Nat /\ Weight(list[j]) \in Nat
      BY <1>1, <3>1, WeightType
    <3>3. f < j => Weight(list[f]) > Weight(list[j])
      BY <3>1 DEF NewestFirst
    <3>. HIDE DEF f
    <3>. QED  BY <3>1, <3>2, <3>3
  <2>. QED  BY <1>2, <2>2, <2>3, <2>4 DEF Closest
<1>. QED  BY <1>3, <1>4

\* Every release and every version asked for has up to three components.
ThreeParts ==
    /\ \A list \in Lists : \A i \in DOMAIN list : Short(list[i])
    /\ \A wanted \in Wanted : Short(wanted)

\* The release that settings are first looked for at has been chosen for what is
\* asked for.
ReleaseInv ==
    pc = "release" =>
        /\ yaml \in Lists \cup {<<>>}
        /\ want \in Wanted
        /\ tag = Release(yaml, want)

LEMMA ReleaseStep == TagsInv /\ ReleaseInv /\ [Next]_vars => ReleaseInv'
<1>. SUFFICES ASSUME TagsInv, ReleaseInv, [Next]_vars
              PROVE  ReleaseInv'
  OBVIOUS
<1>. USE DEF merge
<1>1. CASE StartSearch \/ StartMerge
  BY <1>1 DEF StartSearch, StartMerge, ReleaseInv
<1>2. CASE Sends \/ Transport \/ CallFails \/ NoHost \/ Pinged \/ Blob
  BY <1>2 DEF Sends, Transport, CallFails, NoHost, Fail, Pinged, Blob,
     ReleaseInv
<1>3. CASE Page \/ Manifest
  BY <1>3 DEF Page, Manifest, ReleaseInv
<1>4. CASE LookForFile \/ Copy
  BY <1>4 DEF LookForFile, Copy, Advance, ReleaseInv
<1>5. CASE UntarNext \/ UntarFails
  BY <1>5 DEF UntarNext, UntarFails, ReleaseInv
<1>6. CASE Choose
  BY <1>6 DEF Choose, ReleaseInv
<1>7. ASSUME NEW a \in Addresses, Fetch(a)
      PROVE  ReleaseInv'
  BY <1>7 DEF Fetch, AfterCut, Fallback, Addresses, ReleaseInv
<1>8. CASE Tar
  BY <1>8 DEF Tar, ReleaseInv
<1>9. CASE UNCHANGED vars
  BY <1>9 DEF vars, ReleaseInv
<1>. QED
  BY <1>1, <1>2, <1>3, <1>4, <1>5, <1>6, <1>7, <1>8, <1>9 DEF Next

\* Of any list of numbers that has the newest first, settings are first looked for
\* at the newest release that is not newer than the one asked for
\* (GenGithubURLfromYaml, CompareVersion), if versions have up to three components.
THEOREM ReleasesClosest ==
    ASSUME ThreeParts
    PROVE  Spec => []ClosestRelease
<1>1. Init => ReleaseInv
  BY DEF Init, ReleaseInv
<1>2. Init => TagsInv
  BY DEF Init, TagsInv, MergeSteps
<1>3. ReleaseInv => ClosestRelease
  <2>. SUFFICES ASSUME ReleaseInv, pc = "release", NewestFirst(yaml),
                       Numeric(want) \/ want[1] = Word
                PROVE  Closest(yaml, want, tag)
    BY DEF ClosestRelease
  <2>1. yaml \in Lists \cup {<<>>} /\ want \in Wanted /\ tag = Release(yaml, want)
    BY DEF ReleaseInv
  <2>2. yaml \in Seq(Versioned) /\ want \in Versioned
    <3>1. <<>> \in Seq(Versioned)
      OBVIOUS
    <3>2. Lists \subseteq Seq(Versioned) /\ Wanted \subseteq Versioned
      BY HubAssumption DEF Versioned
    <3>. QED  BY <2>1, <3>1, <3>2
  <2>3. Short(want) /\ \A i \in DOMAIN yaml : Short(yaml[i])
    BY <2>1 DEF ThreeParts
  <2>. QED  BY <2>1, <2>2, <2>3, ReleaseClosest
<1>. QED
  BY <1>1, <1>2, <1>3, TagsStep, ReleaseStep, PTL DEF Spec

-----------------------------------------------------------------------------
\* Induction over the numbers up to a bound.
LEMMA Induction ==
    ASSUME NEW N \in Nat, NEW P \in SUBSET (0..N), 0 \in P,
           \A n \in 1..N : n - 1 \in P => n \in P
    PROVE  P = 0..N
<1>. DEFINE T == (0..N) \ P
<1>. SUFFICES ASSUME T # {} PROVE FALSE
  OBVIOUS
<1>1. PICK m \in T : \A j \in T : m <= j
  BY Least, T \in SUBSET Nat
<1>2. m \in 1..N /\ m - 1 \in 0..N
  OBVIOUS
<1>3. m - 1 \in P
  BY <1>1, <1>2
<1>. QED  BY <1>2, <1>3

LEMMA Cut ==
    ASSUME NEW S, NEW s \in Seq(S), NEW n \in 0..Len(s)
    PROVE  /\ SubSeq(s, 1, n) \in Seq(S)
           /\ Len(SubSeq(s, 1, n)) = n
           /\ \A i \in 1..n : SubSeq(s, 1, n)[i] = s[i]
OBVIOUS

LEMMA PrefixDef ==
    ASSUME NEW S, NEW s \in Seq(S), NEW t \in Seq(S)
    PROVE  IsPrefix(s, t) <=>
             Len(s) <= Len(t) /\ \A i \in 1..Len(s) : s[i] = t[i]
<1>1. ASSUME Len(s) <= Len(t)
      PROVE  /\ SubSeq(s, 1, Len(s)) \in Seq(S) /\ Len(SubSeq(s, 1, Len(s))) = Len(s)
             /\ \A i \in 1..Len(s) : SubSeq(s, 1, Len(s))[i] = s[i]
             /\ SubSeq(t, 1, Len(s)) \in Seq(S) /\ Len(SubSeq(t, 1, Len(s))) = Len(s)
             /\ \A i \in 1..Len(s) : SubSeq(t, 1, Len(s))[i] = t[i]
  BY <1>1, Cut
<1>. QED  BY <1>1 DEF IsPrefix

LEMMA PrefixSelf ==
    ASSUME NEW S, NEW s \in Seq(S)
    PROVE  IsPrefix(s, s)
<1>1. Len(s) \in Nat
  OBVIOUS
<1>. QED  BY <1>1, PrefixDef

\* f begins with b, and its n-th value is F[n] of the one before.
Iterates(f, N, S, b, F) ==
    f \in [0..N -> S] /\ f[0] = b /\ \A n \in 1..N : f[n] = F[n][f[n - 1]]

LEMMA Recursion ==
    ASSUME NEW N \in Nat, NEW S, NEW b \in S, NEW F \in [1..N -> [S -> S]]
    PROVE  \E f : Iterates(f, N, S, b, F)
<1>. DEFINE Is(f, m) == f[0] = b /\ \A n \in 1..m : f[n] = F[n][f[n - 1]]
            P == {m \in 0..N : \E f \in [0..N -> S] : Is(f, m)}
<1>1. 0 \in P
  <2>1. [n \in 0..N |-> b] \in [0..N -> S] /\ Is([n \in 0..N |-> b], 0)
    OBVIOUS
  <2>. HIDE DEF Is
  <2>. QED  BY <2>1
<1>2. ASSUME NEW m \in 1..N, m - 1 \in P PROVE m \in P
  <2>1. PICK f \in [0..N -> S] : Is(f, m - 1)
    BY <1>2
  <2>. DEFINE g == [f EXCEPT ![m] = F[m][f[m - 1]]]
  <2>2. g \in [0..N -> S] /\ Is(g, m)
    BY <2>1
  <2>. HIDE DEF Is, g
  <2>. QED  BY <2>2
<1>3. P \in SUBSET (0..N)
  OBVIOUS
<1>4. N \in P
  <2>. HIDE DEF P
  <2>. QED  BY <1>1, <1>2, <1>3, Induction
<1>. QED  BY <1>4 DEF Iterates

LEMMA FrontDef ==
    ASSUME NEW S, NEW s \in Seq(S), s # <<>>
    PROVE  /\ Len(s) \in Nat \ {0}
           /\ Front(s) \in Seq(S) /\ Len(Front(s)) = Len(s) - 1
           /\ \A i \in 1..(Len(s) - 1) : Front(s)[i] = s[i]
           /\ Last(s) = s[Len(s)] /\ Last(s) \in S
           /\ s = Append(Front(s), Last(s))
<1>1. Len(s) \in Nat \ {0} /\ Len(s) - 1 \in 0..Len(s)
  OBVIOUS
<1>2. /\ Front(s) \in Seq(S) /\ Len(Front(s)) = Len(s) - 1
      /\ \A i \in 1..(Len(s) - 1) : Front(s)[i] = s[i]
  BY <1>1, Cut DEF Front
<1>3. Last(s) = s[Len(s)] /\ Last(s) \in S
  BY <1>1 DEF Last
<1>. QED  BY <1>1, <1>2, <1>3

LEMMA AppendFacts ==
    ASSUME NEW S, NEW s \in Seq(S), NEW e \in S
    PROVE  /\ Append(s, e) \in Seq(S) /\ Len(Append(s, e)) = Len(s) + 1
           /\ Append(s, e) # <<>>
           /\ \A i \in 1..Len(s) : Append(s, e)[i] = s[i]
           /\ Append(s, e)[Len(s) + 1] = e
           /\ Front(Append(s, e)) = s /\ Last(Append(s, e)) = e
<1>. DEFINE new == Append(s, e)
<1>1. new \in Seq(S) /\ Len(new) = Len(s) + 1 /\ Len(s) \in Nat
  OBVIOUS
<1>2. \A i \in 1..Len(s) : new[i] = s[i]
  OBVIOUS
<1>3. new[Len(s) + 1] = e
  OBVIOUS
<1>4. Len(<<>>) = 0
  OBVIOUS
<1>. HIDE DEF new
<1>5. new # <<>>
  BY <1>1, <1>4
<1>6. Last(new) = e
  BY <1>1, <1>3 DEF Last
<1>7. /\ Front(new) \in Seq(S) /\ Len(Front(new)) = Len(s)
      /\ \A i \in 1..Len(s) : Front(new)[i] = new[i]
  BY <1>1, <1>5, FrontDef
<1>8. Front(new) = s
  BY <1>1, <1>2, <1>7
<1>. QED  BY <1>1, <1>2, <1>3, <1>5, <1>6, <1>8 DEF new

-----------------------------------------------------------------------------
(* Paths *)

\* Where links lead to is a path or the root.
LinksLead(t) == \A p \in DOMAIN t : t[p].kind = "link" => t[p].to \in Seq(Names)

\* The next name of a path, followed.
Follow(t, at, name) ==
    LET next == Append(at, name)
    IN IF next \in DOMAIN t /\ t[next].kind = "link" THEN t[next].to ELSE next

LEMMA RealRec ==
    ASSUME NEW t, NEW path \in Seq(Names), LinksLead(t)
    PROVE  \E at \in [0..Len(path) -> Seq(Names)] :
              /\ at[0] = NoPath
              /\ \A n \in 1..Len(path) : at[n] = Follow(t, at[n - 1], path[n])
              /\ Real(t, path) = at[Len(path)]
<1>. DEFINE N == Len(path)
            S == Seq(Names)
            F == [n \in 1..N |-> [a \in S |-> Follow(t, a, path[n])]]
            Is(at) == at = [n \in 0..N |->
                              IF n = 0 THEN NoPath ELSE Follow(t, at[n - 1], path[n])]
<1>1. N \in Nat /\ NoPath \in S /\ \A n \in 1..N, a \in S : Follow(t, a, path[n]) \in S
  BY DEF NoPath, LinksLead, Follow
<1>2. PICK f : Iterates(f, N, S, NoPath, F)
  <2>1. F \in [1..N -> [S -> S]]
    BY <1>1
  <2>2. N \in Nat /\ NoPath \in S
    BY <1>1
  <2>. HIDE DEF F, S, N
  <2>. QED  BY <2>1, <2>2, Recursion
<1>. USE DEF Iterates
<1>. HIDE DEF S, N
<1>3. Is(f)
  <2>1. ASSUME NEW n \in 1..N
        PROVE  n - 1 \in 0..N /\ f[n] = Follow(t, f[n - 1], path[n])
    <3>1. n - 1 \in 0..N
      BY <1>1
    <3>2. f[n - 1] \in S /\ f[n] = F[n][f[n - 1]]
      <4>. HIDE DEF F
      <4>. QED  BY <1>2, <3>1
    <3>. QED  BY <3>1, <3>2
  <2>2. f \in [0..N -> S] /\ f[0] = NoPath
    BY <1>2
  <2>3. \A n \in 0..N : n = 0 \/ n \in 1..N
    BY <1>1
  <2>. QED  BY <2>1, <2>2, <2>3
<1>. DEFINE g == CHOOSE at : Is(at)
<1>4. Is(g)
  BY <1>3
<1>5. Real(t, path) = g[N]
  BY DEF Real, Follow, N
<1>. HIDE DEF g
<1>6. \A n \in 0..N : g[n] = f[n]
  <2>. DEFINE P == {n \in 0..N : g[n] = f[n]}
  <2>1. 0 \in P /\ P \in SUBSET (0..N)
    BY <1>1, <1>2, <1>4
  <2>2. \A n \in 1..N : n - 1 \in P => n \in P
    BY <1>1, <1>3, <1>4
  <2>3. P = 0..N
    <3>. HIDE DEF P
    <3>. QED  BY <1>1, <2>1, <2>2, Induction
  <2>. QED  BY <2>3
<1>7. g \in [0..N -> S]
  BY <1>2, <1>4, <1>6
<1>8. g[0] = NoPath /\ \A n \in 1..N : g[n] = Follow(t, g[n - 1], path[n])
  BY <1>1, <1>4
<1>. QED  BY <1>5, <1>7, <1>8 DEF S, N

LEMMA RealStep ==
    ASSUME NEW t, NEW path \in Seq(Names), path # <<>>, LinksLead(t)
    PROVE  /\ Real(t, path) = Follow(t, Real(t, Front(path)), Last(path))
           /\ Real(t, path) = IF /\ Place(t, path) \in DOMAIN t
                                 /\ t[Place(t, path)].kind = "link"
                              THEN t[Place(t, path)].to ELSE Place(t, path)
<1>. DEFINE N == Len(path)
            M == N - 1
            front == Front(path)
<1>1. /\ N \in Nat \ {0} /\ M \in Nat /\ M < N
      /\ front \in Seq(Names) /\ Len(front) = M
      /\ \A n \in 1..M : front[n] = path[n]
      /\ Last(path) = path[N]
  <2>1. /\ N \in Nat \ {0} /\ front \in Seq(Names) /\ Len(front) = M
        /\ \A n \in 1..M : front[n] = path[n]
        /\ Last(path) = path[N]
    BY FrontDef
  <2>. HIDE DEF N, front
  <2>2. M \in Nat /\ M < N
    BY <2>1
  <2>. QED  BY <2>1, <2>2
<1>2. PICK f \in [0..N -> Seq(Names)] :
         /\ f[0] = NoPath /\ \A n \in 1..N : f[n] = Follow(t, f[n - 1], path[n])
         /\ Real(t, path) = f[N]
  BY RealRec
<1>5. M \in 0..M /\ M \in 0..N /\ N \in 1..N /\ N - 1 = M
  BY <1>1
<1>. HIDE DEF front, N, M
<1>3. PICK g \in [0..M -> Seq(Names)] :
         /\ g[0] = NoPath /\ \A n \in 1..M : g[n] = Follow(t, g[n - 1], front[n])
         /\ Real(t, front) = g[M]
  BY <1>1, RealRec
<1>4. \A n \in 0..M : g[n] = f[n]
  <2>. DEFINE P == {n \in 0..M : g[n] = f[n]}
  <2>1. 0 \in P /\ P \in SUBSET (0..M)
    BY <1>1, <1>2, <1>3
  <2>2. ASSUME NEW n \in 1..M, n - 1 \in P PROVE n \in P
    <3>1. n \in 1..N /\ n \in 0..M /\ front[n] = path[n]
      BY <1>1, <1>5
    <3>2. g[n] = Follow(t, g[n - 1], front[n]) /\ f[n] = Follow(t, f[n - 1], path[n])
      BY <1>2, <1>3, <3>1
    <3>. QED  BY <2>2, <3>1, <3>2
  <2>3. P = 0..M
    <3>. HIDE DEF P
    <3>. QED  BY <1>1, <2>1, <2>2, Induction
  <2>. QED  BY <2>3
<1>6. f[N] = Follow(t, Real(t, front), Last(path))
  BY <1>1, <1>2, <1>3, <1>4, <1>5
<1>. QED  BY <1>2, <1>6 DEF Follow, Place, front, N

LEMMA RealType ==
    ASSUME NEW t, NEW path \in Seq(Names), LinksLead(t)
    PROVE  Real(t, path) \in Seq(Names)
<1>1. Len(path) \in 0..Len(path)
  OBVIOUS
<1>. QED  BY <1>1, RealRec

\* A path on which nothing is a link is the real one.
LEMMA RealPlain ==
    ASSUME NEW t, NEW path \in Seq(Names), LinksLead(t),
           \A p \in DOMAIN t \cap Paths : IsPrefix(p, path) => t[p].kind # "link"
    PROVE  Real(t, path) = path
<1>. DEFINE N == Len(path)
<1>1. PICK f \in [0..N -> Seq(Names)] :
         /\ f[0] = NoPath /\ \A n \in 1..N : f[n] = Follow(t, f[n - 1], path[n])
         /\ Real(t, path) = f[N]
  BY RealRec
<1>. DEFINE P == {n \in 0..N : f[n] = SubSeq(path, 1, n)}
<1>2. 0 \in P
  BY <1>1 DEF NoPath
<1>3. ASSUME NEW n \in 1..N, n - 1 \in P PROVE n \in P
  <2>. DEFINE head == SubSeq(path, 1, n)
  <2>1. head \in Paths
    BY Cut DEF Paths, NoPath
  <2>2. IsPrefix(head, path)
    BY Cut, PrefixDef
  <2>3. Append(f[n - 1], path[n]) = head
    BY <1>3
  <2>4. f[n] = Follow(t, f[n - 1], path[n])
    BY <1>1
  <2>. HIDE DEF head
  <2>5. f[n] = head
    BY <2>1, <2>2, <2>3, <2>4 DEF Follow
  <2>. QED  BY <2>5 DEF head
<1>4. P = 0..N
  <2>1. N \in Nat /\ P \in SUBSET (0..N)
    OBVIOUS
  <2>. HIDE DEF P, N
  <2>. QED  BY <1>2, <1>3, <2>1, Induction
<1>5. N \in P /\ SubSeq(path, 1, N) = path
  BY <1>4
<1>. QED  BY <1>1, <1>5

-----------------------------------------------------------------------------
(* Trees *)

LEMMA NodeFacts ==
    /\ Dir \in Nodes /\ Dir.kind = "dir"
    /\ \A digest \in Digests : File(digest) \in Nodes /\ File(digest).kind = "file"
    /\ \A to \in Seq(Names) : Link(to) \in Nodes /\ Link(to).kind = "link"
    /\ \A n \in Nodes : \/ n.kind = "dir" /\ n = Dir
                        \/ n.kind = "file" /\ n.data \in Digests /\ n = File(n.data)
                        \/ n.kind = "link" /\ n.to \in Seq(Names) /\ n = Link(n.to)
<1>1. \A n \in Nodes :
         /\ n = [kind |-> n.kind, data |-> n.data, to |-> n.to]
         /\ \/ n.kind = "dir" /\ n.data = NoData /\ n.to = NoPath
            \/ n.kind = "file" /\ n.data \in Digests /\ n.to = NoPath
            \/ n.kind = "link" /\ n.data = NoData /\ n.to \in Seq(Names)
  BY DEF Nodes
<1>. QED  BY <1>1 DEF Nodes, Dir, File, Link, Node

\* Every path is in a folder.
Closed(t) == \A p \in DOMAIN t : IsDir(t, Front(p))

Trees ==
    {t \in UNION {[D -> Nodes] : D \in SUBSET Paths} :
        Closed(t) /\ IsFiniteSet(DOMAIN t)}

LEMMA PathFacts ==
    ASSUME NEW p \in Paths
    PROVE  /\ p \in Seq(Names) /\ p # <<>> /\ p # NoPath
           /\ Front(p) \in Seq(Names) /\ Last(p) \in Names
           /\ Len(p) \in Nat \ {0} /\ Len(Front(p)) = Len(p) - 1
           /\ p = Append(Front(p), Last(p)) /\ Front(p) # p
           /\ Front(p) = <<>> \/ Front(p) \in Paths
BY FrontDef DEF Paths, NoPath

LEMMA TreeFacts ==
    ASSUME NEW t \in Trees
    PROVE  /\ DOMAIN t \subseteq Paths /\ IsFiniteSet(DOMAIN t)
           /\ t \in [DOMAIN t -> Nodes]
           /\ Closed(t) /\ LinksLead(t) /\ IsTree(t)
           /\ t # Bad
<1>1. PICK D \in SUBSET Paths : t \in [D -> Nodes]
  BY DEF Trees
<1>2. DOMAIN t = D
  BY <1>1
<1>3. LinksLead(t)
  BY <1>1, NodeFacts DEF LinksLead
<1>4. DOMAIN Bad = {NoPath} /\ NoPath \notin Paths
  BY DEF Bad, Paths
<1>. QED  BY <1>1, <1>2, <1>3, <1>4 DEF Trees, IsTree

LEMMA TreeIntro ==
    ASSUME NEW D \in SUBSET Paths, NEW t \in [D -> Nodes], Closed(t), IsFiniteSet(D)
    PROVE  t \in Trees
BY DEF Trees

LEMMA WithTree ==
    ASSUME NEW t \in Trees, NEW p \in Paths, NEW node \in Nodes,
           IsDir(t, Front(p)), ~IsDir(t, p)
    PROVE  With(t, p, node) \in Trees
<1>. DEFINE new == With(t, p, node)
            D == DOMAIN t \cup {p}
<1>1. new \in [D -> Nodes] /\ D \in SUBSET Paths
  BY TreeFacts DEF With
<1>2. IsFiniteSet(D)
  BY TreeFacts, FS_AddElement
<1>3. \A q \in DOMAIN t : q # p => new[q] = t[q]
  BY DEF With
<1>4. ASSUME NEW q \in D PROVE IsDir(new, Front(q))
  <2>1. IsDir(t, Front(q))
    BY <1>4, TreeFacts DEF Closed
  <2>2. CASE Front(q) = NoPath
    BY <2>2 DEF IsDir
  <2>3. CASE Front(q) \in DOMAIN t /\ t[Front(q)].kind = "dir"
    <3>1. Front(q) # p
      BY <2>3 DEF IsDir
    <3>. QED  BY <1>1, <1>3, <2>3, <3>1 DEF IsDir
  <2>. QED  BY <2>1, <2>2, <2>3 DEF IsDir
<1>5. Closed(new)
  BY <1>1, <1>4 DEF Closed
<1>. QED  BY <1>1, <1>2, <1>5, TreeIntro

LEMMA PlaceType ==
    ASSUME NEW t, LinksLead(t), NEW p \in Paths
    PROVE  /\ Place(t, p) \in Paths
           /\ Front(Place(t, p)) = Real(t, Front(p))
<1>1. Real(t, Front(p)) \in Seq(Names) /\ Last(p) \in Names
  BY PathFacts, RealType
<1>2. \A s \in Seq(Names), n \in Names : Append(s, n) \in Paths /\ Front(Append(s, n)) = s
  BY AppendFacts DEF Paths, NoPath
<1>. QED  BY <1>1, <1>2 DEF Place

\* What is in a folder below a path is below it.
LEMMA PrefixUp ==
    ASSUME NEW p \in Seq(Names), NEW q \in Paths, IsPrefix(p, Front(q))
    PROVE  IsPrefix(p, q)
<1>1. /\ Front(q) \in Seq(Names) /\ q \in Seq(Names)
      /\ Len(Front(q)) = Len(q) - 1 /\ Len(q) \in Nat \ {0} /\ Len(p) \in Nat
      /\ \A i \in 1..(Len(q) - 1) : Front(q)[i] = q[i]
  BY FrontDef DEF Paths, NoPath
<1>2. Len(p) <= Len(Front(q)) /\ \A i \in 1..Len(p) : p[i] = Front(q)[i]
  BY <1>1, PrefixDef
<1>3. Len(p) <= Len(q) /\ \A i \in 1..Len(p) : p[i] = q[i]
  BY <1>1, <1>2
<1>. QED  BY <1>1, <1>3, PrefixDef

LEMMA RemoveTree ==
    ASSUME NEW t \in Trees, NEW path \in Paths
    PROVE  RemoveAll(t, path) \in Trees
<1>. DEFINE gone == {p \in DOMAIN t : IsPrefix(Place(t, path), p)}
            D == DOMAIN t \ gone
            new == RemoveAll(t, path)
<1>1. D \in SUBSET Paths /\ new \in [D -> Nodes] /\ \A q \in D : new[q] = t[q]
  BY TreeFacts DEF RemoveAll, Restrict
<1>2. IsFiniteSet(D)
  BY TreeFacts, FS_Subset
<1>3. ASSUME NEW q \in D PROVE IsDir(new, Front(q))
  <2>1. IsDir(t, Front(q))
    BY <1>3, TreeFacts DEF Closed
  <2>2. CASE Front(q) = NoPath
    BY <2>2 DEF IsDir
  <2>3. CASE Front(q) \in DOMAIN t /\ t[Front(q)].kind = "dir"
    <3>1. Place(t, path) \in Seq(Names) /\ q \in Paths
      BY <1>1, PlaceType, TreeFacts DEF Paths
    <3>2. ~IsPrefix(Place(t, path), Front(q))
      BY <3>1, PrefixUp
    <3>. QED  BY <1>1, <2>3, <3>2 DEF IsDir
  <2>. QED  BY <2>1, <2>2, <2>3 DEF IsDir
<1>4. Closed(new)
  BY <1>1, <1>3 DEF Closed
<1>. QED  BY <1>1, <1>2, <1>4, TreeIntro

LEMMA RealRoot ==
    ASSUME NEW t, LinksLead(t)
    PROVE  Real(t, NoPath) = NoPath
<1>1. NoPath \in Seq(Names) /\ Len(NoPath) = 0
  BY DEF NoPath
<1>2. PICK at \in [0..Len(NoPath) -> Seq(Names)] :
         at[0] = NoPath /\ Real(t, NoPath) = at[Len(NoPath)]
  BY <1>1, RealRec
<1>. QED  BY <1>1, <1>2

\* The folders that a path goes through, and the path.
Heads(path) == {SubSeq(path, 1, n) : n \in 1..Len(path)}

LEMMA HeadFacts ==
    ASSUME NEW path \in Paths
    PROVE  /\ Heads(path) \subseteq Paths
           /\ \A h \in Heads(path) : Front(h) = NoPath \/ Front(h) \in Heads(path)
           /\ path \in Heads(path)
<1>. DEFINE heads == {SubSeq(path, 1, n) : n \in 1..Len(path)}
<1>1. path \in Seq(Names) /\ Len(path) \in Nat \ {0}
  BY PathFacts
<1>2. ASSUME NEW n \in 1..Len(path)
      PROVE  LET h == SubSeq(path, 1, n)
             IN h \in Paths /\ (Front(h) = NoPath \/ Front(h) \in heads)
  <2>. DEFINE h == SubSeq(path, 1, n)
              m == n - 1
              q == SubSeq(path, 1, m)
  <2>1. n \in 0..Len(path) /\ m \in 0..Len(path) /\ n = m + 1
    BY <1>1
  <2>2. /\ h \in Seq(Names) /\ Len(h) = n /\ \A i \in 1..n : h[i] = path[i]
        /\ q \in Seq(Names) /\ Len(q) = m /\ \A i \in 1..m : q[i] = path[i]
    BY <1>1, <2>1, Cut
  <2>3. m > 0 => q \in heads
    BY <2>1
  <2>. HIDE DEF h, q, heads
  <2>4. h # <<>>
    BY <2>1, <2>2
  <2>5. /\ Front(h) \in Seq(Names) /\ Len(Front(h)) = m
        /\ \A i \in 1..m : Front(h)[i] = h[i]
    BY <2>1, <2>2, <2>4, FrontDef
  <2>6. Front(h) = q
    BY <2>1, <2>2, <2>5
  <2>7. m = 0 => Front(h) = <<>>
    BY <2>5
  <2>. QED  BY <2>1, <2>2, <2>3, <2>4, <2>6, <2>7 DEF Paths, NoPath, h
<1>3. SubSeq(path, 1, Len(path)) = path
  BY <1>1
<1>4. path \in heads
  <2>1. Len(path) \in 1..Len(path)
    BY <1>1
  <2>. QED  BY <1>3, <2>1
<1>. QED  BY <1>2, <1>4 DEF Heads

LEMMA MakeDirsTree ==
    ASSUME NEW t \in Trees, NEW path \in Paths
    PROVE  MakeDirs(t, path) \in Trees \cup {Bad}
<1>. DEFINE heads == Heads(path)
            reals == {Real(t, h) : h \in heads}
            news  == {r \in reals : ~Exists(t, r)}
            D == DOMAIN t \cup news
            new == [p \in D |-> IF p \in news THEN Dir ELSE t[p]]
<1>. SUFFICES ASSUME \A h \in heads : Place(t, h) \in DOMAIN t =>
                                        IsDir(t, Real(t, h))
              PROVE  new \in Trees
  BY DEF MakeDirs, Heads
<1>1. /\ heads \subseteq Paths
      /\ \A h \in heads : Front(h) = NoPath \/ Front(h) \in heads
  BY HeadFacts
<1>2. \A h \in heads : h \in Seq(Names) /\ h # <<>>
  BY <1>1, PathFacts
<1>3. /\ t \in [DOMAIN t -> Nodes] /\ DOMAIN t \in SUBSET Paths /\ LinksLead(t)
      /\ IsFiniteSet(DOMAIN t) /\ Closed(t)
  BY TreeFacts
<1>4. IsFiniteSet(reals)
  <2>. DEFINE f == [n \in 1..Len(path) |-> Real(t, SubSeq(path, 1, n))]
  <2>1. f \in Surjection(1..Len(path), reals)
    BY DEF Surjection, Heads
  <2>2. Len(path) \in Nat /\ IsFiniteSet(1..Len(path))
    BY PathFacts, FS_Interval
  <2>. HIDE DEF f, reals
  <2>. QED  BY <2>1, <2>2, FS_Surjection
<1>5. news \in SUBSET Paths
  BY <1>2, <1>3, RealType DEF Exists, Paths
<1>6. IsFiniteSet(D)
  <2>1. IsFiniteSet(news)
    <3>. HIDE DEF reals
    <3>. QED  BY <1>4, FS_Subset
  <2>. HIDE DEF news
  <2>. QED  BY <1>3, <2>1, FS_Union
<1>7. ASSUME NEW h \in heads
      PROVE  /\ Real(t, h) \in news \/ IsDir(t, Real(t, h))
             /\ Real(t, h) \in news => Real(t, h) = Place(t, h)
  <2>1. CASE Place(t, h) \in DOMAIN t
    BY <2>1 DEF IsDir, Exists
  <2>2. CASE Place(t, h) \notin DOMAIN t
    <3>1. Real(t, h) = Place(t, h)
      BY <1>2, <1>3, <2>2, RealStep
    <3>. QED  BY <2>2, <3>1 DEF IsDir, Exists
  <2>. QED  BY <2>1, <2>2
<1>. HIDE DEF heads
<1>8. \A p : IsDir(t, p) => IsDir(new, p)
  BY DEF IsDir, Exists
<1>9. \A p \in news : IsDir(new, p)
  BY NodeFacts DEF IsDir
<1>10. ASSUME NEW p \in D PROVE IsDir(new, Front(p))
  <2>1. CASE p \in DOMAIN t
    BY <1>3, <1>8, <2>1 DEF Closed
  <2>2. CASE p \in news
    <3>1. PICK h \in heads : p = Real(t, h) /\ p = Place(t, h)
      BY <1>7, <2>2
    <3>2. Front(p) = Real(t, Front(h))
      BY <1>1, <1>3, <3>1, PlaceType
    <3>3. CASE Front(h) = NoPath
      BY <1>3, <3>2, <3>3, RealRoot DEF IsDir
    <3>4. CASE Front(h) \in heads
      BY <1>7, <1>8, <1>9, <3>2, <3>4
    <3>. QED  BY <1>1, <3>3, <3>4
  <2>. QED  BY <2>1, <2>2
<1>11. new \in [D -> Nodes] /\ D \in SUBSET Paths /\ DOMAIN new = D
  BY <1>3, <1>5, NodeFacts
<1>12. Closed(new)
  <2>. HIDE DEF new
  <2>. QED  BY <1>10, <1>11 DEF Closed
<1>. HIDE DEF new, D
<1>. QED  BY <1>6, <1>11, <1>12, TreeIntro

LEMMA WriteFileTree ==
    ASSUME NEW t \in Trees, NEW path \in Paths, NEW digest \in Digests
    PROVE  WriteFile(t, path, digest) \in Trees \cup {Bad}
<1>. DEFINE real == Real(t, path)
<1>. SUFFICES ASSUME ~IsDir(t, real), IsDir(t, Front(real))
              PROVE  With(t, real, File(digest)) \in Trees
  BY DEF WriteFile
<1>1. real \in Paths
  BY TreeFacts, PathFacts, RealType DEF IsDir, Paths
<1>2. File(digest) \in Nodes
  BY NodeFacts
<1>. HIDE DEF real
<1>. QED  BY <1>1, <1>2, WithTree

LEMMA SymlinkTree ==
    ASSUME NEW t \in Trees, NEW path \in Paths, NEW to \in Seq(Names)
    PROVE  Symlink(t, path, to) \in Trees
<1>. DEFINE place == Place(t, path)
<1>. SUFFICES ASSUME place \notin DOMAIN t, IsDir(t, Front(place))
              PROVE  With(t, place, Link(to)) \in Trees
  BY DEF Symlink
<1>1. place \in Paths /\ ~IsDir(t, place)
  BY TreeFacts, PlaceType, PathFacts DEF IsDir
<1>2. Link(to) \in Nodes
  BY NodeFacts
<1>. HIDE DEF place
<1>. QED  BY <1>1, <1>2, WithTree

\* What stands at a place of a layer when its digest is put to it.
Stampeds == {e \in Entries : e.kind = "reg" => e.data \in Digests}

LEMMA EntryFacts ==
    ASSUME NEW e \in Stampeds
    PROVE  /\ e.kind \in {"dir", "reg", "link", "hard"} /\ e.mark \in Marks
           /\ e.path \in Paths /\ e.to \in Seq(Names) /\ e.toMark \in Marks
           /\ e.kind = "reg" => e.data \in Digests
           /\ e.toMark # "plain" => e.to \in Paths
BY DEF Stampeds, Entries, Paths

LEMMA HiddenTree ==
    ASSUME NEW t \in Trees, NEW mark \in Marks, NEW path \in Seq(Names),
           mark # "plain" => path \in Paths
    PROVE  Hidden(t, mark, path) \in Trees
BY RemoveTree DEF Hidden

LEMMA ExtractTree ==
    ASSUME NEW t \in Trees \cup {Bad}, NEW e \in Stampeds
    PROVE  Extract(t, e) \in Trees \cup {Bad}
<1>1. CASE t = Bad
  BY <1>1 DEF Extract
<1>. SUFFICES ASSUME t \in Trees PROVE Extract(t, e) \in Trees \cup {Bad}
  BY <1>1
<1>. t # Bad
  BY TreeFacts
<1>2. CASE e.kind = "dir"
  BY <1>2, EntryFacts, MakeDirsTree DEF Extract
<1>3. CASE e.kind = "reg"
  <2>1. WriteFile(t, e.path, e.data) \in Trees \cup {Bad}
    BY <1>3, EntryFacts, WriteFileTree
  <2>2. Hidden(t, e.mark, e.path) \in Trees
    BY EntryFacts, PathFacts, HiddenTree
  <2>. QED  BY <1>3, <2>1, <2>2 DEF Extract
<1>4. CASE e.kind \in {"link", "hard"} /\ e.mark = "plain"
  <2>1. Leads(t, e) \in Seq(Names)
    <3>1. Front(Place(t, e.path)) \in Seq(Names) /\ e.to \in Seq(Names)
      BY EntryFacts, TreeFacts, PlaceType, PathFacts
    <3>2. \A s, u \in Seq(Names) : s \o u \in Seq(Names)
      OBVIOUS
    <3>. QED  BY <3>1, <3>2 DEF Leads
  <2>2. Symlink(t, e.path, Leads(t, e)) \in Trees
    BY <2>1, EntryFacts, SymlinkTree
  <2>. QED  BY <1>4, <2>2 DEF Extract
<1>5. CASE e.kind \in {"link", "hard"} /\ e.mark # "plain"
  <2>1. Hidden(t, e.toMark, e.to) \in Trees
    BY EntryFacts, HiddenTree
  <2>2. RemoveAll(Hidden(t, e.toMark, e.to), e.path) \in Trees
    BY <2>1, EntryFacts, RemoveTree
  <2>. QED  BY <1>5, <2>1, <2>2 DEF Extract
<1>. QED  BY <1>2, <1>3, <1>4, <1>5, EntryFacts

LEMMA UntarRec ==
    ASSUME NEW t \in Trees \cup {Bad}, NEW layer \in Seq(Stampeds)
    PROVE  \E after \in [0..Len(layer) -> Trees \cup {Bad}] :
              /\ after[0] = t
              /\ \A n \in 1..Len(layer) : after[n] = Extract(after[n - 1], layer[n])
              /\ UntarLayer(t, layer) = after[Len(layer)]
<1>. DEFINE N == Len(layer)
            S == Trees \cup {Bad}
            F == [n \in 1..N |-> [u \in S |-> Extract(u, layer[n])]]
            Is(f) == f = [n \in 0..N |->
                            IF n = 0 THEN t ELSE Extract(f[n - 1], layer[n])]
<1>1. N \in Nat /\ t \in S /\ \A n \in 1..N, u \in S : Extract(u, layer[n]) \in S
  BY ExtractTree
<1>. HIDE DEF S
<1>2. PICK f : Iterates(f, N, S, t, F)
  <2>1. F \in [1..N -> [S -> S]]
    BY <1>1
  <2>. HIDE DEF F, N
  <2>. QED  BY <1>1, <2>1, Recursion
<1>. USE DEF Iterates
<1>. HIDE DEF N
<1>3. Is(f)
  <2>1. ASSUME NEW n \in 1..N
        PROVE  n - 1 \in 0..N /\ f[n] = Extract(f[n - 1], layer[n])
    <3>1. n - 1 \in 0..N
      BY <1>1
    <3>2. f[n - 1] \in S /\ f[n] = F[n][f[n - 1]]
      <4>. HIDE DEF F
      <4>. QED  BY <1>2, <3>1
    <3>. QED  BY <3>1, <3>2
  <2>2. f \in [0..N -> S] /\ f[0] = t
    BY <1>2
  <2>3. \A n \in 0..N : n = 0 \/ n \in 1..N
    BY <1>1
  <2>. QED  BY <2>1, <2>2, <2>3
<1>. DEFINE g == CHOOSE after : Is(after)
<1>4. Is(g)
  BY <1>3
<1>5. UntarLayer(t, layer) = g[N]
  BY DEF UntarLayer, N
<1>. HIDE DEF g
<1>6. \A n \in 0..N : g[n] = f[n]
  <2>. DEFINE P == {n \in 0..N : g[n] = f[n]}
  <2>1. 0 \in P /\ P \in SUBSET (0..N)
    BY <1>1, <1>2, <1>4
  <2>2. \A n \in 1..N : n - 1 \in P => n \in P
    BY <1>1, <1>3, <1>4
  <2>3. P = 0..N
    <3>. HIDE DEF P
    <3>. QED  BY <1>1, <2>1, <2>2, Induction
  <2>. QED  BY <2>3
<1>7. g \in [0..N -> S]
  BY <1>2, <1>4, <1>6
<1>8. g[0] = t /\ \A n \in 1..N : g[n] = Extract(g[n - 1], layer[n])
  BY <1>1, <1>4
<1>. QED  BY <1>5, <1>7, <1>8 DEF S, N

LEMMA UntarTree ==
    ASSUME NEW t \in Trees \cup {Bad}, NEW layer \in Seq(Stampeds)
    PROVE  UntarLayer(t, layer) \in Trees \cup {Bad}
<1>1. Len(layer) \in 0..Len(layer)
  OBVIOUS
<1>. QED  BY <1>1, UntarRec

-----------------------------------------------------------------------------
(* The order of paths *)

LEMMA PathNames ==
    ASSUME NEW p \in Paths
    PROVE  /\ p \in Seq(Names) /\ Len(p) \in Nat /\ DOMAIN p = 1..Len(p)
           /\ \A i \in 1..Len(p) : p[i] \in Nat
<1>1. p \in Seq(Names)
  BY DEF Paths
<1>2. Len(p) \in Nat /\ DOMAIN p = 1..Len(p)
  BY <1>1
<1>3. \A i \in 1..Len(p) : p[i] \in Names
  BY <1>1
<1>4. Names \subseteq Nat
  BY LayersAssumption
<1>. QED  BY <1>1, <1>2, <1>3, <1>4

\* The first place at which two paths differ decides, an end before any name.
LEMMA LowerDef ==
    ASSUME NEW p \in Paths, NEW q \in Paths
    PROVE  Lower(p, q) <=>
             \E i \in 1..Len(q) :
                /\ \A j \in 1..(i - 1) : j <= Len(p) /\ p[j] = q[j]
                /\ i = Len(p) + 1 \/ (i <= Len(p) /\ p[i] < q[i])
<1>1. /\ p \in Seq(Names) /\ q \in Seq(Names) /\ Len(p) \in Nat /\ Len(q) \in Nat
      /\ \A i \in 1..Len(p) : p[i] \in Nat
      /\ \A i \in 1..Len(q) : q[i] \in Nat
      /\ DOMAIN p = 1..Len(p) /\ DOMAIN q = 1..Len(q)
  BY PathNames
<1>2. IsStrictPrefix(p, q) <=>
         Len(p) < Len(q) /\ \A i \in 1..Len(p) : p[i] = q[i]
  <2>1. Len(p) = Len(q) /\ (\A i \in 1..Len(p) : p[i] = q[i]) => p = q
    BY <1>1
  <2>2. IsPrefix(p, q) <=> Len(p) <= Len(q) /\ \A i \in 1..Len(p) : p[i] = q[i]
    BY <1>1, PrefixDef
  <2>3. Len(p) < Len(q) => p # q
    BY <1>1
  <2>4. Len(p) <= Len(q) <=> Len(p) < Len(q) \/ Len(p) = Len(q)
    <3>1. \A a, b \in Nat : a <= b <=> a < b \/ a = b
      OBVIOUS
    <3>. QED  BY <1>1, <3>1, Zenon
  <2>. QED  BY <2>1, <2>2, <2>3, <2>4, Zenon DEF IsStrictPrefix
<1>3. ASSUME IsStrictPrefix(p, q)
      PROVE  LET i == Len(p) + 1
             IN /\ i \in 1..Len(q) /\ i = Len(p) + 1
                /\ \A j \in 1..(i - 1) : j <= Len(p) /\ p[j] = q[j]
  BY <1>1, <1>2, <1>3
<1>4. ASSUME NEW i \in DOMAIN p \cap DOMAIN q, p[i] < q[i],
             \A j \in 1..(i - 1) : p[j] = q[j]
      PROVE  /\ i \in 1..Len(q) /\ i <= Len(p)
             /\ \A j \in 1..(i - 1) : j <= Len(p) /\ p[j] = q[j]
  BY <1>1, <1>4
<1>5. ASSUME NEW i \in 1..Len(q), i = Len(p) + 1,
             \A j \in 1..(i - 1) : j <= Len(p) /\ p[j] = q[j]
      PROVE  IsStrictPrefix(p, q)
  BY <1>1, <1>2, <1>5
<1>6. ASSUME NEW i \in 1..Len(q), i <= Len(p)
      PROVE  i \in DOMAIN p \cap DOMAIN q
  BY <1>1, <1>6
<1>. QED  BY <1>3, <1>4, <1>5, <1>6 DEF Lower

LEMMA LowerTotal ==
    ASSUME NEW p \in Paths, NEW q \in Paths, p # q
    PROVE  Lower(p, q) \/ Lower(q, p)
<1>. DEFINE T == {i \in 1..Len(p) : i <= Len(q) /\ p[i] # q[i]}
<1>1. /\ p \in Seq(Names) /\ q \in Seq(Names) /\ Len(p) \in Nat /\ Len(q) \in Nat
      /\ \A i \in 1..Len(p) : p[i] \in Nat
      /\ \A i \in 1..Len(q) : q[i] \in Nat
  BY PathNames
<1>2. CASE T = {}
  <2>1. \A i \in 1..Len(p) : i <= Len(q) => p[i] = q[i]
    BY <1>2
  <2>2. Len(p) # Len(q)
    BY <1>1, <2>1
  <2>3. CASE Len(p) < Len(q)
    <3>1. Len(p) + 1 \in 1..Len(q)
          /\ \A j \in 1..(Len(p) + 1 - 1) : j <= Len(p) /\ p[j] = q[j]
      BY <1>1, <2>1, <2>3
    <3>. QED  BY <3>1, LowerDef
  <2>4. CASE Len(q) < Len(p)
    <3>1. Len(q) + 1 \in 1..Len(p)
          /\ \A j \in 1..(Len(q) + 1 - 1) : j <= Len(q) /\ q[j] = p[j]
      BY <1>1, <2>1, <2>4
    <3>. QED  BY <3>1, LowerDef
  <2>. QED  BY <1>1, <2>2, <2>3, <2>4
<1>3. CASE T # {}
  <2>1. T \in SUBSET Nat
    BY <1>1
  <2>2. PICK i \in T : \A j \in T : i <= j
    BY <1>3, <2>1, Least
  <2>3. i \in 1..Len(p) /\ i \in 1..Len(q) /\ i <= Len(p) /\ i <= Len(q)
    BY <1>1
  <2>4. \A j \in 1..(i - 1) : j <= Len(p) /\ j <= Len(q) /\ p[j] = q[j]
    BY <1>1, <2>2, <2>3
  <2>5. p[i] < q[i] \/ q[i] < p[i]
    BY <1>1, <2>3
  <2>. QED  BY <2>3, <2>4, <2>5, LowerDef
<1>. QED  BY <1>2, <1>3

LEMMA LowerTransitive ==
    ASSUME NEW p \in Paths, NEW q \in Paths, NEW r \in Paths,
           Lower(p, q), Lower(q, r)
    PROVE  Lower(p, r)
<1>1. /\ Len(p) \in Nat /\ Len(q) \in Nat /\ Len(r) \in Nat
      /\ \A i \in 1..Len(p) : p[i] \in Nat
      /\ \A i \in 1..Len(q) : q[i] \in Nat
      /\ \A i \in 1..Len(r) : r[i] \in Nat
  BY PathNames
<1>2. PICK i \in 1..Len(q) :
         /\ \A j \in 1..(i - 1) : j <= Len(p) /\ p[j] = q[j]
         /\ i = Len(p) + 1 \/ (i <= Len(p) /\ p[i] < q[i])
  BY LowerDef
<1>3. PICK h \in 1..Len(r) :
         /\ \A j \in 1..(h - 1) : j <= Len(q) /\ q[j] = r[j]
         /\ h = Len(q) + 1 \/ (h <= Len(q) /\ q[h] < r[h])
  BY LowerDef
<1>4. CASE i < h
  <2>1. q[i] = r[i] /\ i \in 1..Len(r)
    BY <1>1, <1>3, <1>4
  <2>2. \A j \in 1..(i - 1) : j <= Len(p) /\ p[j] = r[j]
    BY <1>1, <1>2, <1>3, <1>4
  <2>3. i = Len(p) + 1 \/ (i <= Len(p) /\ p[i] < r[i])
    BY <1>2, <2>1
  <2>. QED  BY <2>1, <2>2, <2>3, LowerDef
<1>5. CASE i >= h
  <2>1. \A j \in 1..(h - 1) : j <= Len(p) /\ p[j] = r[j]
    BY <1>1, <1>2, <1>3, <1>5
  <2>2. h <= Len(q) /\ q[h] < r[h]
    BY <1>1, <1>3, <1>5
  <2>3. h = Len(p) + 1 \/ (h <= Len(p) /\ p[h] < r[h])
    <3>1. CASE h = i
      <4>1. i <= Len(p) /\ p[i] < q[i] => p[h] < r[h]
        BY <1>1, <2>2, <3>1
      <4>. QED  BY <1>2, <3>1, <4>1
    <3>2. CASE h < i
      <4>1. h <= Len(p) /\ p[h] = q[h]
        BY <1>1, <1>2, <3>2
      <4>. QED  BY <2>2, <4>1
    <3>. QED  BY <1>1, <1>5, <3>1, <3>2
  <2>. QED  BY <2>1, <2>3, LowerDef
<1>. QED  BY <1>1, <1>4, <1>5

LEMMA LowestExists ==
    ASSUME NEW D \in SUBSET Paths, IsFiniteSet(D), D # {}
    PROVE  Lowest(D) \in D /\ \A q \in D \ {Lowest(D)} : Lower(Lowest(D), q)
<1>. DEFINE Low(Q) == \E p \in Q : \A q \in Q \ {p} : Lower(p, q)
            N == Cardinality(D)
            P == {n \in 0..N : \A Q \in SUBSET D :
                                  Cardinality(Q) = n /\ Q # {} => Low(Q)}
<1>1. N \in Nat /\ \A Q \in SUBSET D : IsFiniteSet(Q)
  BY FS_CardinalityType, FS_Subset
<1>2. 0 \in P
  <2>1. \A Q \in SUBSET D : Cardinality(Q) = 0 => Q = {}
    BY <1>1, FS_EmptySet
  <2>. HIDE DEF Low, N
  <2>. QED  BY <1>1, <2>1
<1>3. ASSUME NEW n \in 1..N, n - 1 \in P, NEW Q \in SUBSET D,
             Cardinality(Q) = n, Q # {}
      PROVE  Low(Q)
  <2>1. PICK x \in Q : TRUE
    BY <1>3
  <2>. DEFINE R == Q \ {x}
  <2>2. R \in SUBSET D /\ Cardinality(R) = n - 1
    BY <1>1, <1>3, FS_RemoveElement
  <2>3. CASE R = {}
    BY <2>3
  <2>4. CASE R # {}
    <3>1. Low(R)
      <4>. HIDE DEF Low, R, N
      <4>. QED  BY <1>3, <2>2, <2>4
    <3>2. PICK p \in R : \A q \in R \ {p} : Lower(p, q)
      BY <3>1
    <3>3. p \in Paths /\ x \in Paths /\ p # x
      BY <2>1
    <3>4. CASE Lower(p, x)
      BY <3>2, <3>4
    <3>5. CASE Lower(x, p)
      <4>1. ASSUME NEW q \in Q \ {x} PROVE Lower(x, q)
        <5>1. q \in Paths /\ (q = p \/ Lower(p, q))
          BY <3>2
        <5>. QED  BY <3>3, <3>5, <5>1, LowerTransitive
      <4>. QED  BY <4>1
    <3>. QED  BY <3>3, <3>4, <3>5, LowerTotal
  <2>. QED  BY <2>3, <2>4
<1>4. P = 0..N
  <2>1. \A n \in 1..N : n - 1 \in P => n \in P
    <3>. HIDE DEF Low
    <3>. QED  BY <1>3
  <2>2. P \in SUBSET (0..N)
    OBVIOUS
  <2>. HIDE DEF P, N
  <2>. QED  BY <1>1, <1>2, <2>1, <2>2, Induction
<1>5. Low(D)
  <2>1. N \in P
    <3>. HIDE DEF P, N
    <3>. QED  BY <1>1, <1>4
  <2>. HIDE DEF Low
  <2>. QED  BY <2>1
<1>. QED  BY <1>5 DEF Lowest

-----------------------------------------------------------------------------
(* Walk and TarLayer *)

LEMMA WalkRec ==
    ASSUME NEW D, IsFiniteSet(D)
    PROVE  \E rest \in [0..Cardinality(D) -> SUBSET D] :
              /\ rest[0] = D
              /\ \A n \in 1..Cardinality(D) :
                    rest[n] = rest[n - 1] \ {Lowest(rest[n - 1])}
              /\ Walk(D) = [n \in 1..Cardinality(D) |-> Lowest(rest[n - 1])]
<1>. DEFINE N == Cardinality(D)
            S == SUBSET D
            Op(u) == u \ {Lowest(u)}
            F == [n \in 1..N |-> [u \in S |-> Op(u)]]
            Is(f) == f = [n \in 0..N |-> IF n = 0 THEN D ELSE Op(f[n - 1])]
<1>1. N \in Nat /\ D \in S /\ \A u \in S : Op(u) \in S
  BY FS_CardinalityType
<1>. HIDE DEF S, Op
<1>2. PICK f : Iterates(f, N, S, D, F)
  <2>1. F \in [1..N -> [S -> S]]
    BY <1>1
  <2>. HIDE DEF F, N
  <2>. QED  BY <1>1, <2>1, Recursion
<1>. USE DEF Iterates
<1>. HIDE DEF N
<1>3. Is(f)
  <2>1. ASSUME NEW n \in 1..N
        PROVE  n - 1 \in 0..N /\ f[n] = Op(f[n - 1])
    <3>1. n - 1 \in 0..N
      BY <1>1
    <3>2. f[n - 1] \in S /\ f[n] = F[n][f[n - 1]]
      <4>. HIDE DEF F
      <4>. QED  BY <1>2, <3>1
    <3>. QED  BY <3>1, <3>2
  <2>2. f \in [0..N -> S] /\ f[0] = D
    BY <1>2
  <2>3. \A n \in 0..N : n = 0 \/ n \in 1..N
    BY <1>1
  <2>. QED  BY <2>1, <2>2, <2>3
<1>. DEFINE g == CHOOSE rest : Is(rest)
<1>4. Is(g)
  BY <1>3
<1>5. Walk(D) = [n \in 1..N |-> Lowest(g[n - 1])]
  BY DEF Walk, N, Op
<1>. HIDE DEF g
<1>6. \A n \in 0..N : g[n] = f[n]
  <2>. DEFINE P == {n \in 0..N : g[n] = f[n]}
  <2>1. 0 \in P /\ P \in SUBSET (0..N)
    BY <1>1, <1>2, <1>4
  <2>2. \A n \in 1..N : n - 1 \in P => n \in P
    BY <1>1, <1>3, <1>4
  <2>3. P = 0..N
    <3>. HIDE DEF P
    <3>. QED  BY <1>1, <2>1, <2>2, Induction
  <2>. QED  BY <2>3
<1>7. g \in [0..N -> S]
  BY <1>2, <1>4, <1>6
<1>8. g[0] = D /\ \A n \in 1..N : g[n] = Op(g[n - 1])
  BY <1>1, <1>4
<1>. QED  BY <1>5, <1>7, <1>8 DEF S, N, Op

\* A walk comes to every path once, and to each before those that are not lower.
LEMMA WalkFacts ==
    ASSUME NEW D \in SUBSET Paths, IsFiniteSet(D)
    PROVE  /\ Walk(D) \in Seq(D) /\ Len(Walk(D)) = Cardinality(D)
           /\ Cardinality(D) \in Nat
           /\ \A i, j \in 1..Cardinality(D) : i < j => Lower(Walk(D)[i], Walk(D)[j])
           /\ \A p \in D : \E i \in 1..Cardinality(D) : Walk(D)[i] = p
<1>. DEFINE N == Cardinality(D)
            walk == Walk(D)
<1>1. N \in Nat
  BY FS_CardinalityType
<1>2. PICK rest \in [0..N -> SUBSET D] :
         /\ rest[0] = D
         /\ \A n \in 1..N : rest[n] = rest[n - 1] \ {Lowest(rest[n - 1])}
         /\ walk = [n \in 1..N |-> Lowest(rest[n - 1])]
  BY WalkRec
<1>3. \A Q \in SUBSET D : IsFiniteSet(Q) /\ (Cardinality(Q) = 0 <=> Q = {})
  BY FS_Subset, FS_EmptySet
<1>4. ASSUME NEW Q \in SUBSET D, Q # {}
      PROVE  /\ Lowest(Q) \in Q /\ \A q \in Q \ {Lowest(Q)} : Lower(Lowest(Q), q)
             /\ Cardinality(Q \ {Lowest(Q)}) = Cardinality(Q) - 1
  BY <1>3, <1>4, LowestExists, FS_RemoveElement
<1>. HIDE DEF N, walk
<1>5. \A n \in 0..N : Cardinality(rest[n]) = N - n
  <2>. DEFINE P == {n \in 0..N : Cardinality(rest[n]) = N - n}
  <2>1. 0 \in P /\ P \in SUBSET (0..N)
    BY <1>1, <1>2 DEF N
  <2>2. ASSUME NEW n \in 1..N, n - 1 \in P PROVE n \in P
    <3>1. n - 1 \in 0..N /\ rest[n - 1] \in SUBSET D
      BY <1>1, <1>2
    <3>2. Cardinality(rest[n - 1]) = N - (n - 1) /\ N - (n - 1) # 0
      BY <1>1, <2>2
    <3>3. rest[n - 1] # {}
      BY <1>3, <3>1, <3>2
    <3>4. Cardinality(rest[n]) = Cardinality(rest[n - 1]) - 1
      BY <1>2, <1>4, <3>1, <3>3
    <3>. QED  BY <1>1, <3>2, <3>4
  <2>3. P = 0..N
    <3>. HIDE DEF P
    <3>. QED  BY <1>1, <2>1, <2>2, Induction
  <2>. QED  BY <2>3
<1>6. ASSUME NEW n \in 1..N
      PROVE  /\ n - 1 \in 0..N /\ rest[n - 1] \in SUBSET D
             /\ walk[n] \in rest[n - 1] /\ walk[n] = Lowest(rest[n - 1])
             /\ rest[n] = rest[n - 1] \ {walk[n]}
             /\ \A q \in rest[n] : Lower(walk[n], q)
  <2>1. n - 1 \in 0..N /\ rest[n - 1] \in SUBSET D
    BY <1>1, <1>2
  <2>2. walk[n] = Lowest(rest[n - 1]) /\ rest[n] = rest[n - 1] \ {walk[n]}
    BY <1>2
  <2>3. Cardinality(rest[n - 1]) # 0
    BY <1>1, <1>5, <2>1
  <2>4. rest[n - 1] # {}
    BY <1>3, <2>1, <2>3
  <2>. DEFINE Q == rest[n - 1]
  <2>5. Q \in SUBSET D /\ Q # {} /\ walk[n] = Lowest(Q) /\ rest[n] = Q \ {walk[n]}
    BY <2>1, <2>2, <2>4
  <2>. HIDE DEF Q
  <2>6. walk[n] \in Q /\ \A q \in rest[n] : Lower(walk[n], q)
    <3>1. Lowest(Q) \in Q /\ \A q \in Q \ {Lowest(Q)} : Lower(Lowest(Q), q)
      BY <1>4, <2>5, Zenon
    <3>. QED  BY <2>5, <3>1, Zenon
  <2>. QED  BY <2>1, <2>5, <2>6 DEF Q
<1>7. walk \in [1..N -> D]
  BY <1>2, <1>6
<1>8. walk \in Seq(D) /\ Len(walk) = N
  BY <1>1, <1>7
<1>9. ASSUME NEW j \in 1..N, NEW i \in 1..N, i < j PROVE walk[j] \in rest[i]
  <2>. DEFINE P == {n \in 0..(j - 1) : n < i \/ rest[n] \subseteq rest[i]}
  <2>1. 0 \in P /\ P \in SUBSET (0..(j - 1)) /\ j - 1 \in Nat
    BY <1>1
  <2>2. ASSUME NEW n \in 1..(j - 1), n - 1 \in P PROVE n \in P
    <3>1. n \in 1..N /\ rest[n] \subseteq rest[n - 1]
      BY <1>1, <1>6
    <3>. QED  BY <2>2, <3>1
  <2>3. P = 0..(j - 1)
    <3>. HIDE DEF P
    <3>. QED  BY <2>1, <2>2, Induction
  <2>4. j - 1 \in 0..(j - 1) /\ ~(j - 1 < i)
    BY <1>1, <1>9
  <2>5. rest[j - 1] \subseteq rest[i]
    BY <2>3, <2>4
  <2>. QED  BY <1>6, <2>5
<1>10. \A i, j \in 1..N : i < j => Lower(walk[i], walk[j])
  BY <1>6, <1>9
<1>11. ASSUME NEW p \in D PROVE \E i \in 1..N : walk[i] = p
  <2>. DEFINE P == {n \in 0..N : p \in rest[n] \/ \E i \in 1..N : walk[i] = p}
  <2>1. 0 \in P /\ P \in SUBSET (0..N)
    BY <1>1, <1>2
  <2>2. \A n \in 1..N : n - 1 \in P => n \in P
    BY <1>6
  <2>3. P = 0..N
    <3>. HIDE DEF P
    <3>. QED  BY <1>1, <2>1, <2>2, Induction
  <2>4. N \in 0..N /\ Cardinality(rest[N]) = 0
    BY <1>1, <1>5
  <2>5. rest[N] = {}
    BY <1>2, <1>3, <2>4
  <2>. QED  BY <2>3, <2>4, <2>5
<1>. QED  BY <1>1, <1>8, <1>10, <1>11 DEF N, walk

LEMMA HeadersType ==
    ASSUME NEW t \in Trees, NEW p \in DOMAIN t
    PROVE  /\ Headers(t, p) \in Seq(Stampeds)
           /\ t[p].kind = "dir" => Headers(t, p) = <<Entry("dir", p, NoPath, NoData)>>
           /\ t[p].kind = "file" => Headers(t, p) = <<Entry("reg", p, NoPath, t[p].data)>>
           /\ t[p].kind = "link" => Headers(t, p) = <<Entry("link", p, t[p].to, NoData),
                                                      Entry("link", p, p, NoData)>>
           /\ t[p].kind \in {"dir", "file", "link"}
<1>1. t[p] \in Nodes /\ p \in Paths /\ p \in Seq(Names)
  BY TreeFacts, PathFacts
<1>2. ASSUME NEW kind \in {"dir", "reg", "link"}, NEW to \in Seq(Names),
             NEW data \in Digests \cup {NoData}, kind = "reg" => data \in Digests
      PROVE  Entry(kind, p, to, data) \in Stampeds
  BY <1>1, <1>2 DEF Entry, Stampeds, Entries, Marks
<1>3. NoPath \in Seq(Names)
  BY DEF NoPath
<1>4. CASE t[p].kind = "dir"
  <2>1. Headers(t, p) = <<Entry("dir", p, NoPath, NoData)>>
    BY <1>4 DEF Headers
  <2>2. Entry("dir", p, NoPath, NoData) \in Stampeds
    BY <1>2, <1>3
  <2>. QED  BY <1>4, <2>1, <2>2
<1>5. CASE t[p].kind = "file"
  <2>1. Headers(t, p) = <<Entry("reg", p, NoPath, t[p].data)>>
    BY <1>5 DEF Headers
  <2>2. t[p].data \in Digests
    BY <1>1, <1>5, NodeFacts
  <2>3. Entry("reg", p, NoPath, t[p].data) \in Stampeds
    BY <1>2, <1>3, <2>2
  <2>. QED  BY <1>5, <2>1, <2>3
<1>6. CASE t[p].kind = "link"
  <2>1. Headers(t, p) = <<Entry("link", p, t[p].to, NoData), Entry("link", p, p, NoData)>>
    BY <1>6 DEF Headers
  <2>2. t[p].to \in Seq(Names)
    BY <1>1, <1>6, NodeFacts
  <2>3. /\ Entry("link", p, t[p].to, NoData) \in Stampeds
        /\ Entry("link", p, p, NoData) \in Stampeds
    BY <1>1, <1>2, <2>2
  <2>. QED  BY <1>6, <2>1, <2>3
<1>. QED  BY <1>1, <1>4, <1>5, <1>6, NodeFacts

LEMMA TarRec ==
    ASSUME NEW t \in Trees
    PROVE  LET walk == Walk(DOMAIN t)
           IN \E made \in [0..Len(walk) -> Seq(Stampeds)] :
                 /\ made[0] = <<>>
                 /\ \A n \in 1..Len(walk) :
                       made[n] = made[n - 1] \o Headers(t, walk[n])
                 /\ TarLayer(t) = made[Len(walk)]
<1>. DEFINE walk == Walk(DOMAIN t)
            N == Len(walk)
            S == Seq(Stampeds)
            Op(u, n) == u \o Headers(t, walk[n])
            F == [n \in 1..N |-> [u \in S |-> Op(u, n)]]
            Is(f) == f = [n \in 0..N |-> IF n = 0 THEN <<>> ELSE Op(f[n - 1], n)]
<1>1. N \in Nat /\ <<>> \in S /\ \A n \in 1..N, u \in S : Op(u, n) \in S
  <2>1. walk \in Seq(DOMAIN t)
    BY TreeFacts, WalkFacts
  <2>2. N \in Nat /\ \A n \in 1..N : walk[n] \in DOMAIN t
    BY <2>1
  <2>3. \A u, v \in S : u \o v \in S
    OBVIOUS
  <2>4. <<>> \in S
    OBVIOUS
  <2>. HIDE DEF S, N, walk
  <2>. QED  BY <2>2, <2>3, <2>4, HeadersType DEF S
<1>. HIDE DEF S, Op
<1>2. PICK f : Iterates(f, N, S, <<>>, F)
  <2>1. F \in [1..N -> [S -> S]]
    BY <1>1
  <2>. HIDE DEF F, N
  <2>. QED  BY <1>1, <2>1, Recursion
<1>. USE DEF Iterates
<1>. HIDE DEF N
<1>3. Is(f)
  <2>1. ASSUME NEW n \in 1..N
        PROVE  n - 1 \in 0..N /\ f[n] = Op(f[n - 1], n)
    <3>1. n - 1 \in 0..N
      BY <1>1
    <3>2. f[n - 1] \in S /\ f[n] = F[n][f[n - 1]]
      <4>. HIDE DEF F
      <4>. QED  BY <1>2, <3>1
    <3>. QED  BY <3>1, <3>2
  <2>2. f \in [0..N -> S] /\ f[0] = <<>>
    BY <1>2
  <2>3. \A n \in 0..N : n = 0 \/ n \in 1..N
    BY <1>1
  <2>. QED  BY <2>1, <2>2, <2>3
<1>. DEFINE g == CHOOSE made : Is(made)
<1>4. Is(g)
  BY <1>3
<1>5. TarLayer(t) = g[N]
  BY DEF TarLayer, N, Op
<1>. HIDE DEF g, walk
<1>6. \A n \in 0..N : g[n] = f[n]
  <2>. DEFINE P == {n \in 0..N : g[n] = f[n]}
  <2>1. 0 \in P /\ P \in SUBSET (0..N)
    BY <1>1, <1>2, <1>4
  <2>2. \A n \in 1..N : n - 1 \in P => n \in P
    BY <1>1, <1>3, <1>4
  <2>3. P = 0..N
    <3>. HIDE DEF P
    <3>. QED  BY <1>1, <2>1, <2>2, Induction
  <2>. QED  BY <2>3
<1>7. g \in [0..N -> S]
  BY <1>2, <1>4, <1>6
<1>8. g[0] = <<>> /\ \A n \in 1..N : g[n] = Op(g[n - 1], n)
  BY <1>1, <1>4
<1>. QED  BY <1>5, <1>7, <1>8 DEF S, N, Op, walk

-----------------------------------------------------------------------------
(* The order of the layers *)

\* o has the first n of m, some that are repeated left out: h[i] of the first i,
\* and its j-th is the g[j]-th of m.
Drops(m, n, o) ==
    \E h \in [0..n -> 0..Len(o)], g \in [1..Len(o) -> 1..n] :
        /\ h[0] = 0 /\ h[n] = Len(o)
        /\ \A i \in 1..n :
              \/ h[i] = h[i - 1] + 1 /\ o[h[i]] = m[i]
              \/ h[i] = h[i - 1] /\ \E j \in 1..(i - 1) : m[j] = m[i]
        /\ \A j \in 1..Len(o) : h[g[j]] = j /\ h[g[j] - 1] = j - 1

LEMMA DropsNone == \A m : Drops(m, 0, <<>>)
<1>. TAKE m
<1>. DEFINE h == [n \in 0..0 |-> 0]
            g == [n \in 1..0 |-> 0]
<1>1. Len(<<>>) = 0
  OBVIOUS
<1>2. h \in [0..0 -> 0..0] /\ g \in [1..0 -> 1..0] /\ h[0] = 0
  OBVIOUS
<1>. HIDE DEF h, g
<1>. QED  BY <1>1, <1>2 DEF Drops

LEMMA DropsAppend ==
    ASSUME NEW m \in Seq(Digests), NEW n \in Nat, n + 1 <= Len(m),
           NEW o \in Seq(Digests), Drops(m, n, o)
    PROVE  Drops(m, n + 1, Append(o, m[n + 1]))
<1>. DEFINE N == n + 1
            L == Len(o)
            e == m[N]
            new == Append(o, e)
<1>1. PICK h \in [0..n -> 0..L], g \in [1..L -> 1..n] :
        /\ h[0] = 0 /\ h[n] = L
        /\ \A i \in 1..n :
              \/ h[i] = h[i - 1] + 1 /\ o[h[i]] = m[i]
              \/ h[i] = h[i - 1] /\ \E j \in 1..(i - 1) : m[j] = m[i]
        /\ \A j \in 1..L : h[g[j]] = j /\ h[g[j] - 1] = j - 1
  BY DEF Drops
<1>2. L \in Nat /\ N \in Nat /\ e \in Digests
  OBVIOUS
<1>3. /\ Len(new) = L + 1 /\ new[L + 1] = e
      /\ \A j \in 1..L : new[j] = o[j]
  BY <1>2, AppendFacts
<1>. HIDE DEF new, e, L
<1>. DEFINE H == [i \in 0..N |-> IF i = N THEN L + 1 ELSE h[i]]
            G == [j \in 1..(L + 1) |-> IF j = L + 1 THEN N ELSE g[j]]
<1>4. /\ H \in [0..N -> 0..(L + 1)] /\ H[0] = 0 /\ H[N] = L + 1
      /\ \A i \in 0..n : H[i] = h[i]
  BY <1>1, <1>2
<1>5. /\ G \in [1..(L + 1) -> 1..N] /\ G[L + 1] = N
      /\ \A j \in 1..L : G[j] = g[j]
  BY <1>1, <1>2
<1>. HIDE DEF H, G
<1>6. ASSUME NEW i \in 1..N
      PROVE  \/ H[i] = H[i - 1] + 1 /\ new[H[i]] = m[i]
             \/ H[i] = H[i - 1] /\ \E j \in 1..(i - 1) : m[j] = m[i]
  <2>1. CASE i = N
    BY <1>1, <1>2, <1>3, <1>4, <2>1 DEF e
  <2>2. CASE i \in 1..n
    <3>1. H[i] = h[i] /\ H[i - 1] = h[i - 1] /\ i - 1 \in 0..n
      BY <1>4, <2>2
    <3>2. h[i] = h[i - 1] + 1 => h[i] \in 1..L
      BY <1>1, <1>2, <2>2, <3>1
    <3>. QED  BY <1>1, <1>3, <2>2, <3>1, <3>2
  <2>. QED  BY <1>2, <2>1, <2>2
<1>7. ASSUME NEW j \in 1..(L + 1)
      PROVE  H[G[j]] = j /\ H[G[j] - 1] = j - 1
  <2>1. CASE j = L + 1
    BY <1>1, <1>2, <1>4, <1>5, <2>1
  <2>2. CASE j \in 1..L
    <3>1. G[j] = g[j] /\ g[j] \in 1..n
      BY <1>1, <1>5, <2>2
    <3>2. g[j] \in 0..n /\ g[j] - 1 \in 0..n
      BY <3>1
    <3>. QED  BY <1>1, <1>4, <2>2, <3>1, <3>2
  <2>. QED  BY <1>2, <2>1, <2>2
<1>8. Drops(m, N, new)
  <2>. HIDE DEF N
  <2>1. /\ H \in [0..N -> 0..Len(new)] /\ H[0] = 0 /\ H[N] = Len(new)
        /\ G \in [1..Len(new) -> 1..N]
        /\ \A j \in 1..Len(new) : H[G[j]] = j /\ H[G[j] - 1] = j - 1
    BY <1>3, <1>4, <1>5, <1>7
  <2>. QED  BY <2>1, <1>6 DEF Drops
<1>. QED  BY <1>8 DEF new, e

LEMMA DropsKept ==
    ASSUME NEW m \in Seq(Digests), NEW n \in Nat, n <= Len(m),
           NEW o \in Seq(Digests), Drops(m, n, o)
    PROVE  /\ \A x \in 1..Len(o) : \E j \in 1..n : m[j] = o[x]
           /\ n > 0 => o # <<>>
<1>1. PICK h \in [0..n -> 0..Len(o)], g \in [1..Len(o) -> 1..n] :
        /\ h[0] = 0 /\ h[n] = Len(o)
        /\ \A i \in 1..n :
              \/ h[i] = h[i - 1] + 1 /\ o[h[i]] = m[i]
              \/ h[i] = h[i - 1] /\ \E j \in 1..(i - 1) : m[j] = m[i]
        /\ \A j \in 1..Len(o) : h[g[j]] = j /\ h[g[j] - 1] = j - 1
  BY DEF Drops
<1>2. ASSUME NEW x \in 1..Len(o)
      PROVE  \E j \in 1..n : m[j] = o[x]
  <2>1. g[x] \in 1..n /\ h[g[x]] = x /\ h[g[x] - 1] = x - 1 /\ x # x - 1
    BY <1>1
  <2>. QED  BY <1>1, <2>1
<1>3. ASSUME n > 0 PROVE o # <<>>
  <2>1. 1 \in 1..n /\ h[1 - 1] = 0 /\ 1..(1 - 1) = {}
    BY <1>1, <1>3
  <2>2. h[1] = h[1 - 1] + 1
    BY <1>1, <2>1
  <2>3. h[1] \in 0..Len(o)
    BY <1>1, <2>1
  <2>. QED  BY <2>1, <2>2, <2>3
<1>. QED  BY <1>2, <1>3

LEMMA DropsSkip ==
    ASSUME NEW m \in Seq(Digests), NEW n \in Nat, n + 1 <= Len(m),
           NEW o \in Seq(Digests), Drops(m, n, o), m[n + 1] \in Range(o)
    PROVE  Drops(m, n + 1, o)
<1>. DEFINE N == n + 1
            L == Len(o)
<1>1. PICK h \in [0..n -> 0..L], g \in [1..L -> 1..n] :
        /\ h[0] = 0 /\ h[n] = L
        /\ \A i \in 1..n :
              \/ h[i] = h[i - 1] + 1 /\ o[h[i]] = m[i]
              \/ h[i] = h[i - 1] /\ \E j \in 1..(i - 1) : m[j] = m[i]
        /\ \A j \in 1..L : h[g[j]] = j /\ h[g[j] - 1] = j - 1
  BY DEF Drops
<1>2. L \in Nat /\ N \in Nat
  OBVIOUS
<1>3. \E j \in 1..n : m[j] = m[N]
  <2>1. PICK x \in 1..L : o[x] = m[N]
    BY DEF Range
  <2>. QED  BY <2>1, DropsKept
<1>. HIDE DEF L
<1>. DEFINE H == [i \in 0..N |-> IF i = N THEN L ELSE h[i]]
<1>4. /\ H \in [0..N -> 0..L] /\ H[0] = 0 /\ H[N] = L
      /\ \A i \in 0..n : H[i] = h[i]
  BY <1>1, <1>2
<1>. HIDE DEF H
<1>5. g \in [1..L -> 1..N]
  BY <1>1, <1>2
<1>6. ASSUME NEW i \in 1..N
      PROVE  \/ H[i] = H[i - 1] + 1 /\ o[H[i]] = m[i]
             \/ H[i] = H[i - 1] /\ \E j \in 1..(i - 1) : m[j] = m[i]
  <2>1. CASE i = N
    BY <1>1, <1>2, <1>3, <1>4, <2>1
  <2>2. CASE i \in 1..n
    <3>1. H[i] = h[i] /\ H[i - 1] = h[i - 1]
      BY <1>4, <2>2
    <3>. QED  BY <1>1, <2>2, <3>1
  <2>. QED  BY <1>2, <2>1, <2>2
<1>7. ASSUME NEW j \in 1..L
      PROVE  H[g[j]] = j /\ H[g[j] - 1] = j - 1
  <2>1. g[j] \in 1..n
    BY <1>1
  <2>2. g[j] \in 0..n /\ g[j] - 1 \in 0..n
    BY <2>1
  <2>. QED  BY <1>1, <1>4, <2>1, <2>2
<1>. QED
  <2>1. H \in [0..N -> 0..Len(o)] /\ H[N] = Len(o) /\ g \in [1..Len(o) -> 1..N]
    BY <1>4, <1>5 DEF L
  <2>2. \A j \in 1..Len(o) : H[g[j]] = j /\ H[g[j] - 1] = j - 1
    BY <1>7 DEF L
  <2>3. \A i \in 1..N :
           \/ H[i] = H[i - 1] + 1 /\ o[H[i]] = m[i]
           \/ H[i] = H[i - 1] /\ \E j \in 1..(i - 1) : m[j] = m[i]
    BY <1>6
  <2>. QED  BY <1>4, <2>1, <2>2, <2>3 DEF Drops

LEMMA FirstsRec ==
    ASSUME NEW m \in Seq(Digests)
    PROVE  Firsts(m) \in Seq(Digests) /\ Drops(m, Len(m), Firsts(m))
<1>. DEFINE N == Len(m)
            S == Seq(Digests)
            Op(u, n) == IF m[n] \in Range(u) THEN u ELSE Append(u, m[n])
            F == [n \in 1..N |-> [u \in S |-> Op(u, n)]]
            Is(f) == f = [n \in 0..N |-> IF n = 0 THEN <<>> ELSE Op(f[n - 1], n)]
<1>1. N \in Nat /\ <<>> \in S /\ \A n \in 1..N, u \in S : Op(u, n) \in S
  OBVIOUS
<1>2. ASSUME NEW n \in 1..N, NEW u \in S, Drops(m, n - 1, u)
      PROVE  Drops(m, n, Op(u, n))
  <2>1. n - 1 \in Nat /\ (n - 1) + 1 = n /\ n <= Len(m)
    OBVIOUS
  <2>2. CASE m[n] \in Range(u)
    BY <1>2, <2>1, <2>2, DropsSkip
  <2>3. CASE m[n] \notin Range(u)
    BY <1>2, <2>1, <2>3, DropsAppend
  <2>. QED  BY <2>2, <2>3
<1>. HIDE DEF S, Op
<1>3. PICK f : Iterates(f, N, S, <<>>, F)
  <2>1. F \in [1..N -> [S -> S]]
    BY <1>1
  <2>. HIDE DEF F, N
  <2>. QED  BY <1>1, <2>1, Recursion
<1>. USE DEF Iterates
<1>. HIDE DEF N
<1>4. Is(f)
  <2>1. ASSUME NEW n \in 1..N
        PROVE  n - 1 \in 0..N /\ f[n] = Op(f[n - 1], n)
    <3>1. n - 1 \in 0..N
      BY <1>1
    <3>2. f[n - 1] \in S /\ f[n] = F[n][f[n - 1]]
      <4>. HIDE DEF F
      <4>. QED  BY <1>3, <3>1
    <3>. QED  BY <3>1, <3>2
  <2>2. f \in [0..N -> S] /\ f[0] = <<>>
    BY <1>3
  <2>3. \A n \in 0..N : n = 0 \/ n \in 1..N
    BY <1>1
  <2>. QED  BY <2>1, <2>2, <2>3
<1>. DEFINE g == CHOOSE listed : Is(listed)
<1>5. Is(g)
  BY <1>4
<1>6. Firsts(m) = g[N]
  BY DEF Firsts, N, Op
<1>. HIDE DEF g
<1>7. g[0] = <<>> /\ \A n \in 1..N : g[n] = Op(g[n - 1], n)
  BY <1>1, <1>5
<1>8. \A n \in 0..N : g[n] \in S /\ Drops(m, n, g[n])
  <2>. DEFINE P == {n \in 0..N : g[n] \in S /\ Drops(m, n, g[n])}
  <2>1. 0 \in P /\ P \in SUBSET (0..N)
    BY <1>1, <1>7, DropsNone
  <2>2. ASSUME NEW n \in 1..N, n - 1 \in P PROVE n \in P
    <3>1. g[n - 1] \in S /\ Drops(m, n - 1, g[n - 1])
      BY <2>2
    <3>. QED  BY <1>1, <1>2, <1>7, <3>1
  <2>3. P = 0..N
    <3>. HIDE DEF P
    <3>. QED  BY <1>1, <2>1, <2>2, Induction
  <2>. QED  BY <2>3
<1>9. N \in 0..N
  BY <1>1
<1>. QED  BY <1>6, <1>8, <1>9 DEF S, N

-----------------------------------------------------------------------------
(* Types *)

LEMMA StampedType ==
    ASSUME NEW layer \in Seq(Entries), NEW d \in Digests
    PROVE  /\ Stamped(layer, d) \in Seq(Stampeds)
           /\ Len(Stamped(layer, d)) = Len(layer)
<1>1. ASSUME NEW i \in 1..Len(layer)
      PROVE  (IF layer[i].kind = "reg" THEN [layer[i] EXCEPT !.data = d]
                                       ELSE layer[i]) \in Stampeds
  <2>1. layer[i] \in Entries
    OBVIOUS
  <2>. QED  BY <2>1 DEF Stampeds, Entries
<1>2. Stamped(layer, d) \in [1..Len(layer) -> Stampeds]
  BY <1>1 DEF Stamped
<1>. QED  BY <1>2

LEMMA ReleaseType ==
    ASSUME NEW list \in Seq(Seq(Components)), NEW wanted \in Seq(Components)
    PROVE  Release(list, wanted) \in Seq(Components)
<1>. DEFINE fit == {i \in DOMAIN list : CompareVersion(list[i], wanted) \in {-1, 0}}
<1>1. fit \in SUBSET Nat /\ fit \subseteq DOMAIN list
  OBVIOUS
<1>2. CASE fit # {}
  <2>1. First(fit) \in fit
    <3>. HIDE DEF fit
    <3>. QED  BY <1>1, <1>2, Least
  <2>2. First(fit) \in DOMAIN list
    BY <1>1, <2>1
  <2>. HIDE DEF fit
  <2>3. list[First(fit)] \in Seq(Components)
    BY <2>2
  <2>. QED  BY <1>2, <2>3 DEF Release, fit
<1>. QED  BY <1>2 DEF Release

\* A search has asked for fewer pages than there can be.
SearchTyped ==
    /\ tags \in Seq(1..MaxPages)
    /\ paged \in [given : 0..MaxPages, next : Links]
    /\ search \in BOOLEAN
    /\ pc \in {"start", "ping", "page"} => paged.given < MaxPages

Untarred == {"untar", "setting", "release", "distro", "default", "tar"}

\* layer_order has the layers that were looked at.
DownloadTyped ==
    /\ man \in Manifests \cup {<<>>}
    /\ order \in Seq(Digests)
    /\ k \in Nat \ {0}
    /\ have \in [Digests -> {"none", "part", "whole"}]
    /\ pc \in {"start", "ping", "page", "manifest"} => k = 1 /\ order = <<>>
    /\ pc \in {"blob", "file", "copy"} =>
          man \in Manifests /\ k \in DOMAIN man /\ Drops(man, k - 1, order)
    /\ pc \in Untarred => man \in Manifests /\ Drops(man, Len(man), order)
    /\ pc = "untar" => k \in DOMAIN order

\* The folder is a tree as long as nothing has failed.
TreeTyped ==
    /\ content \in [Digests -> Contents \cup {Unknown}]
    /\ tree \in Trees \cup {Bad}
    /\ pc # "failed" => tree \in Trees
    /\ tarball \in Seq(Entries)

SettingTyped ==
    /\ yaml \in Lists \cup {<<>>}
    /\ want \in Wanted \cup {<<>>}
    /\ tag \in Seq(Components)
    /\ setting \in Settings
    /\ gave \subseteq Addresses

LEMMA EmptyTrees == EmptyTree \in Trees
<1>1. EmptyTree \in [{} -> Nodes] /\ DOMAIN EmptyTree = {}
  BY DEF EmptyTree
<1>. QED  BY <1>1, FS_EmptySet, TreeIntro DEF Closed

LEMMA TypedInit == Init => SearchTyped /\ DownloadTyped /\ TreeTyped /\ SettingTyped
<1>. SUFFICES ASSUME Init
              PROVE  SearchTyped /\ DownloadTyped /\ TreeTyped /\ SettingTyped
  OBVIOUS
<1>1. SearchTyped
  <2>1. MaxPages \in Nat \ {0} /\ 0 \in 0..MaxPages /\ 0 < MaxPages
    BY HubAssumption
  <2>2. <<>> \in Seq(1..MaxPages)
    OBVIOUS
  <2>. QED  BY <2>1, <2>2 DEF Init, SearchTyped, Links
<1>2. DownloadTyped
  BY DEF Init, DownloadTyped, Untarred
<1>3. TreeTyped
  BY EmptyTrees DEF Init, TreeTyped
<1>4. SettingTyped
  BY DEF Init, SettingTyped, Settings, EmptyFile
<1>. QED  BY <1>1, <1>2, <1>3, <1>4

LEMMA SearchTypedStep == SearchTyped /\ [Next]_vars => SearchTyped'
<1>. SUFFICES ASSUME SearchTyped, [Next]_vars
              PROVE  SearchTyped'
  OBVIOUS
<1>1. CASE StartSearch \/ StartMerge
  BY <1>1 DEF StartSearch, StartMerge, SearchTyped
<1>2. CASE Sends \/ Transport \/ Blob \/ UntarFails
  BY <1>2 DEF Sends, Transport, Blob, UntarFails, SearchTyped
<1>3. CASE CallFails \/ NoHost
  <2>1. tags' = <<>> /\ paged' = paged /\ search' = search /\ pc' = "failed"
    BY <1>3 DEF CallFails, NoHost, Fail
  <2>2. <<>> \in Seq(1..MaxPages)
    OBVIOUS
  <2>. QED  BY <2>1, <2>2 DEF SearchTyped
<1>4. CASE Pinged \/ Manifest
  BY <1>4 DEF Pinged, Manifest, SearchTyped
<1>5. CASE Page
  <2>1. PICK link \in Links :
           /\ paged.given + 1 = MaxPages => link = "none"
           /\ tags' = Append(tags, paged.given + 1)
           /\ paged' = [given |-> paged.given + 1, next |-> link]
           /\ pc' = IF link = "none" THEN "done" ELSE "page"
    BY <1>5 DEF Page, Collect
  <2>2. paged.given + 1 \in 1..MaxPages /\ search' \in BOOLEAN
    BY <1>5, HubAssumption DEF Page, SearchTyped
  <2>3. tags' \in Seq(1..MaxPages)
    BY <2>1, <2>2, AppendFacts DEF SearchTyped
  <2>. QED  BY <2>1, <2>2, <2>3, HubAssumption DEF SearchTyped
<1>6. CASE LookForFile \/ Copy
  BY <1>6 DEF LookForFile, Copy, Advance, SearchTyped
<1>7. CASE UntarNext \/ Choose \/ Tar
  BY <1>7 DEF UntarNext, Choose, Tar, SearchTyped
<1>8. ASSUME NEW a \in Addresses, Fetch(a)
      PROVE  SearchTyped'
  BY <1>8 DEF Fetch, AfterCut, Fallback, Addresses, SearchTyped
<1>9. CASE UNCHANGED vars
  BY <1>9 DEF vars, SearchTyped
<1>. QED
  BY <1>1, <1>2, <1>3, <1>4, <1>5, <1>6, <1>7, <1>8, <1>9 DEF Next

LEMMA ManifestFacts ==
    ASSUME NEW m \in Manifests
    PROVE  m \in Seq(Digests) /\ Len(m) \in Nat \ {0} /\ DOMAIN m = 1..Len(m)
<1>1. m \in Seq(Digests) /\ m # <<>>
  BY HubAssumption
<1>. QED  BY <1>1

\* The next layer, once the file of the last one is there.
LEMMA AdvanceTyped ==
    ASSUME DownloadTyped, pc \in {"file", "copy"}, Advance,
           order' \in Seq(Digests), Drops(man, k, order'),
           have' \in [Digests -> {"none", "part", "whole"}], man' = man
    PROVE  DownloadTyped'
<1>1. /\ man \in Manifests /\ man \in Seq(Digests) /\ k \in 1..Len(man)
      /\ Len(man) \in Nat \ {0} /\ DOMAIN man = 1..Len(man)
  BY ManifestFacts DEF DownloadTyped
<1>2. CASE k < Len(man)
  <2>1. k' = k + 1 /\ pc' = "blob" /\ k' \in 1..Len(man) /\ k' - 1 = k
    BY <1>1, <1>2 DEF Advance
  <2>. QED  BY <1>1, <2>1 DEF DownloadTyped, Untarred
<1>3. CASE ~(k < Len(man))
  <2>1. k' = 1 /\ pc' = "untar" /\ k = Len(man)
    <3>1. \A a, b \in Nat : a \in 1..b /\ ~(a < b) => a = b
      OBVIOUS
    <3>2. k \in Nat /\ Len(man) \in Nat
      BY <1>1
    <3>3. k = Len(man)
      BY <1>1, <1>3, <3>1, <3>2
    <3>. QED  BY <1>3, <3>3 DEF Advance
  <2>2. order' # <<>>
    BY <1>1, <2>1, DropsKept
  <2>3. k' \in DOMAIN order'
    BY <2>1, <2>2
  <2>. QED  BY <1>1, <2>1, <2>3 DEF DownloadTyped, Untarred
<1>. QED  BY <1>2, <1>3

LEMMA DownloadTypedStep == DownloadTyped /\ [Next]_vars => DownloadTyped'
<1>. SUFFICES ASSUME DownloadTyped, [Next]_vars
              PROVE  DownloadTyped'
  OBVIOUS
<1>. USE DEF merge
<1>1. CASE StartSearch
  BY <1>1 DEF StartSearch, DownloadTyped, Untarred
<1>2. CASE StartMerge
  <2>1. CASE pc' = "untar"
    <3>1. /\ man' \in Manifests /\ order' = Firsts(man') /\ k' = k /\ have' = have
          /\ pc = "start"
      BY <1>2, <2>1 DEF StartMerge
    <3>2. /\ order' \in Seq(Digests) /\ Drops(man', Len(man'), order')
          /\ man' \in Seq(Digests) /\ Len(man') \in Nat /\ Len(man') > 0
      BY <3>1, FirstsRec, ManifestFacts
    <3>3. order' # <<>>
      BY <3>2, DropsKept
    <3>4. 1 \in DOMAIN order'
      BY <3>2, <3>3
    <3>. QED  BY <2>1, <3>1, <3>2, <3>4 DEF DownloadTyped, Untarred
  <2>2. CASE pc' # "untar"
    BY <1>2, <2>2 DEF StartMerge, DownloadTyped, Untarred
  <2>. QED  BY <2>1, <2>2
<1>3. CASE Sends \/ Transport
  BY <1>3 DEF Sends, Transport, DownloadTyped
<1>4. CASE CallFails \/ NoHost
  BY <1>4 DEF CallFails, NoHost, Fail, DownloadTyped, Untarred
<1>5. CASE Pinged \/ Page
  BY <1>5 DEF Pinged, Page, DownloadTyped, Untarred
<1>6. CASE Manifest
  <2>1. /\ man' \in Manifests /\ pc' = "blob" /\ k' = 1 /\ order' = <<>> /\ have' = have
        /\ pc = "manifest"
    BY <1>6 DEF Manifest, DownloadTyped
  <2>2. 1 \in DOMAIN man' /\ Drops(man', k' - 1, order')
    BY <2>1, ManifestFacts, DropsNone
  <2>. QED  BY <2>1, <2>2 DEF DownloadTyped, Untarred
<1>7. CASE Blob \/ UntarFails
  BY <1>7 DEF Blob, UntarFails, DownloadTyped, Untarred
<1>8. CASE LookForFile \/ Copy
  <2>1. /\ man \in Manifests /\ k \in DOMAIN man /\ Drops(man, k - 1, order)
        /\ man' = man /\ pc \in {"file", "copy"}
    BY <1>8 DEF LookForFile, Copy, DownloadTyped
  <2>2. /\ man \in Seq(Digests) /\ k - 1 \in Nat /\ (k - 1) + 1 = k /\ k <= Len(man)
        /\ man[k] \in Digests /\ order \in Seq(Digests)
    BY <2>1, ManifestFacts DEF DownloadTyped
  <2>3. have' \in [Digests -> {"none", "part", "whole"}]
    BY <1>8, <2>2 DEF LookForFile, Copy, DownloadTyped
  <2>4. CASE Advance /\ order' = order /\ man[k] \in Range(order)
    <3>1. Drops(man, k, order)
      BY <2>1, <2>2, <2>4, DropsSkip
    <3>. QED  BY <2>1, <2>2, <2>3, <2>4, <3>1, AdvanceTyped
  <2>5. CASE Advance /\ order' = Append(order, man[k])
    <3>1. Drops(man, k, Append(order, man[k])) /\ Append(order, man[k]) \in Seq(Digests)
      BY <2>1, <2>2, DropsAppend, AppendFacts
    <3>. QED  BY <2>1, <2>3, <2>5, <3>1, AdvanceTyped
  <2>6. CASE pc' \in {"copy", "failed"} /\ UNCHANGED <<order, k>>
    BY <2>1, <2>2, <2>3, <2>6 DEF DownloadTyped, Untarred
  <2>. QED  BY <1>8, <2>4, <2>5, <2>6 DEF LookForFile, Copy
<1>9. CASE UntarNext
  <2>1. /\ UNCHANGED <<man, order, have>> /\ pc = "untar"
        /\ \/ k' = k /\ pc' \in {"failed", "setting"}
           \/ k < Len(order) /\ k' = k + 1 /\ pc' = "untar"
    BY <1>9 DEF UntarNext
  <2>2. k < Len(order) => k + 1 \in DOMAIN order /\ k + 1 \in Nat \ {0}
    BY DEF DownloadTyped
  <2>. QED  BY <2>1, <2>2 DEF DownloadTyped, Untarred
<1>10. CASE Choose \/ Tar
  BY <1>10 DEF Choose, Tar, DownloadTyped, Untarred
<1>11. ASSUME NEW a \in Addresses, Fetch(a)
       PROVE  DownloadTyped'
  BY <1>11 DEF Fetch, AfterCut, Fallback, Addresses, DownloadTyped, Untarred
<1>12. CASE UNCHANGED vars
  BY <1>12 DEF vars, DownloadTyped
<1>. QED
  BY <1>1, <1>2, <1>3, <1>4, <1>5, <1>6, <1>7, <1>8, <1>9, <1>10, <1>11, <1>12
     DEF Next

LEMMA TarType ==
    ASSUME NEW t \in Trees
    PROVE  TarLayer(t) \in Seq(Entries)
<1>. DEFINE N == Len(Walk(DOMAIN t))
<1>1. N \in Nat
  BY TreeFacts, WalkFacts
<1>2. TarLayer(t) \in Seq(Stampeds)
  <2>1. N \in 0..N
    BY <1>1
  <2>2. PICK made \in [0..N -> Seq(Stampeds)] : TarLayer(t) = made[N]
    BY TarRec
  <2>. HIDE DEF N
  <2>. QED  BY <2>1, <2>2
<1>3. Stampeds \subseteq Entries
  BY DEF Stampeds
<1>. QED  BY <1>2, <1>3

LEMMA TreeTypedStep == DownloadTyped /\ TreeTyped /\ [Next]_vars => TreeTyped'
<1>. SUFFICES ASSUME DownloadTyped, TreeTyped, [Next]_vars
              PROVE  TreeTyped'
  OBVIOUS
<1>. USE DEF merge
<1>1. CASE StartSearch \/ StartMerge
  BY <1>1 DEF StartSearch, StartMerge, TreeTyped
<1>2. CASE Sends \/ Transport \/ Blob \/ UntarFails \/ CallFails \/ NoHost \/ Pinged
  BY <1>2 DEF Sends, Transport, Blob, UntarFails, CallFails, NoHost, Fail, Pinged,
     TreeTyped
<1>3. CASE Page \/ Manifest
  BY <1>3 DEF Page, Manifest, TreeTyped
<1>4. CASE LookForFile \/ Copy
  BY <1>4 DEF LookForFile, Copy, Advance, TreeTyped
<1>5. CASE UntarNext
  <2>1. order[k] \in Digests
    BY <1>5 DEF UntarNext, DownloadTyped
  <2>2. PICK layer \in Contents :
           /\ content' = [content EXCEPT ![order[k]] = layer]
           /\ tree' = UntarLayer(tree, Stamped(layer, order[k]))
    BY <1>5 DEF UntarNext, NextLayer
  <2>3. Stamped(layer, order[k]) \in Seq(Stampeds)
    BY <2>1, HubAssumption, StampedType
  <2>4. tree' \in Trees \cup {Bad}
    BY <2>2, <2>3, UntarTree DEF TreeTyped
  <2>5. tree' = Bad => pc' = "failed"
    BY <1>5 DEF UntarNext
  <2>6. content' \in [Digests -> Contents \cup {Unknown}] /\ tarball' = tarball
    BY <1>5, <2>2 DEF UntarNext, TreeTyped
  <2>. QED  BY <2>4, <2>5, <2>6 DEF TreeTyped
<1>6. CASE Choose
  BY <1>6 DEF Choose, TreeTyped
<1>7. CASE Tar
  <2>1. tree \in Trees
    BY <1>7 DEF Tar, TreeTyped
  <2>. QED  BY <1>7, <2>1, TarType DEF Tar, TreeTyped
<1>8. ASSUME NEW a \in Addresses, Fetch(a)
      PROVE  TreeTyped'
  BY <1>8 DEF Fetch, Addresses, TreeTyped
<1>9. CASE UNCHANGED vars
  BY <1>9 DEF vars, TreeTyped
<1>. QED
  BY <1>1, <1>2, <1>3, <1>4, <1>5, <1>6, <1>7, <1>8, <1>9 DEF Next

LEMMA SettingTypedStep == SettingTyped /\ [Next]_vars => SettingTyped'
<1>. SUFFICES ASSUME SettingTyped, [Next]_vars
              PROVE  SettingTyped'
  OBVIOUS
<1>. USE DEF merge
<1>1. CASE StartSearch \/ StartMerge \/ Sends \/ Transport \/ CallFails \/ NoHost
  BY <1>1 DEF StartSearch, StartMerge, Sends, Transport, CallFails, NoHost, Fail,
     SettingTyped
<1>2. CASE Pinged \/ Page \/ Manifest \/ Blob
  BY <1>2 DEF Pinged, Page, Manifest, Blob, SettingTyped
<1>3. CASE LookForFile \/ Copy
  BY <1>3 DEF LookForFile, Copy, SettingTyped
<1>4. CASE UntarNext \/ UntarFails \/ Tar
  BY <1>4 DEF UntarNext, UntarFails, Tar, SettingTyped
<1>5. CASE Choose
  <2>1. /\ want' \in Wanted /\ yaml' \in Lists \cup {<<>>} /\ gave' = gave
        /\ tag' = Release(yaml', want') /\ setting' = EmptyFile
    BY <1>5 DEF Choose
  <2>2. yaml' \in Seq(Seq(Components)) /\ want' \in Seq(Components)
    <3>1. /\ Seq(Seq(Components) \ {<<>>}) \subseteq Seq(Seq(Components))
          /\ <<>> \in Seq(Seq(Components))
      OBVIOUS
    <3>. QED  BY <2>1, <3>1, HubAssumption
  <2>3. tag' \in Seq(Components)
    BY <2>1, <2>2, ReleaseType
  <2>. QED  BY <2>1, <2>3 DEF SettingTyped, Settings, EmptyFile
<1>6. ASSUME NEW a \in Addresses, Fetch(a)
      PROVE  SettingTyped'
  <2>1. \A cut \in BOOLEAN : [from |-> a, cut |-> cut] \in Settings
    BY DEF Settings
  <2>. QED  BY <1>6, <2>1 DEF Fetch, SettingTyped
<1>7. CASE UNCHANGED vars
  BY <1>7 DEF vars, SettingTyped
<1>. QED
  BY <1>1, <1>2, <1>3, <1>4, <1>5, <1>6, <1>7 DEF Next

\* Every state has its type: the folder is a tree or stands for an extraction that
\* failed, whatever layers are extracted over each other, and whatever is fetched,
\* listed and chosen (DownloadLayers, UntarLayer, TarLayer, Tags,
\* DownloadFilefromGithubPlus).
THEOREM HubTypes == Spec => []TypeOK
<1>1. Init => TokenInv /\ TagsInv /\ SearchTyped /\ DownloadTyped /\ TreeTyped
              /\ SettingTyped
  BY TokenInit, TypedInit DEF Init, TagsInv, MergeSteps
<1>2. TokenInv /\ TagsInv /\ SearchTyped /\ DownloadTyped /\ TreeTyped /\ SettingTyped
        => TypeOK
  <2>. SUFFICES ASSUME TokenInv, TagsInv, SearchTyped, DownloadTyped, TreeTyped,
                       SettingTyped
                PROVE  TypeOK
    OBVIOUS
  <2>1. RegistryTypeOK
    BY DEF TokenInv
  <2>2. pc \in {"start", "ping", "page", "manifest", "blob", "file", "copy",
                "untar", "setting", "release", "distro", "default", "tar",
                "done", "failed"}
    BY DEF TagsInv, MergeSteps
  <2>3. tree = Bad \/ IsTree(tree)
    BY TreeFacts DEF TreeTyped
  <2>. QED
    BY <2>1, <2>2, <2>3
       DEF TypeOK, SearchTyped, DownloadTyped, TreeTyped, SettingTyped
<1>. QED
  BY <1>1, <1>2, TokenStep, TagsStep, SearchTypedStep, DownloadTypedStep,
     TreeTypedStep, SettingTypedStep, PTL DEF Spec

-----------------------------------------------------------------------------
(* Extracting where the folders are plain *)

\* Above a folder there are folders only.
LEMMA FoldersUp ==
    ASSUME NEW t \in Trees, NEW d \in Seq(Names), IsDir(t, d),
           NEW p \in Paths, IsPrefix(p, d)
    PROVE  IsDir(t, p)
<1>. DEFINE N == Len(d)
            Above(n) == SubSeq(d, 1, N - n)
            P == {n \in 0..N : IsDir(t, Above(n))}
<1>1. N \in Nat /\ p \in Seq(Names) /\ Len(p) \in 1..N /\ N - Len(p) \in 0..N
  <2>1. p \in Seq(Names) /\ Len(p) \in Nat \ {0}
    BY PathFacts
  <2>. QED  BY <2>1, PrefixDef
<1>2. 0 \in P /\ P \in SUBSET (0..N)
  <2>1. N - 0 = N /\ SubSeq(d, 1, N) = d
    BY <1>1
  <2>2. IsDir(t, Above(0))
    BY <2>1
  <2>. QED  BY <1>1, <2>2
<1>3. ASSUME NEW n \in 1..N, n - 1 \in P PROVE n \in P
  <2>. DEFINE q == Above(n - 1)
  <2>1. IsDir(t, q) /\ N - (n - 1) \in 1..N /\ N - (n - 1) \in 0..N /\ N - n \in 0..N
    BY <1>1, <1>3
  <2>2. /\ q \in Seq(Names) /\ Len(q) = N - (n - 1)
        /\ \A i \in 1..(N - (n - 1)) : q[i] = d[i]
    BY <2>1, Cut
  <2>3. q # <<>>
    <3>1. Len(q) # 0
      <4>. HIDE DEF q, N
      <4>. QED  BY <2>1, <2>2
    <3>. HIDE DEF q
    <3>. QED  BY <3>1
  <2>4. q \in DOMAIN t
    BY <2>1, <2>3 DEF IsDir, NoPath
  <2>5. IsDir(t, Front(q))
    BY <2>4, TreeFacts DEF Closed
  <2>6. Front(q) = Above(n)
    <3>. HIDE DEF q, N
    <3>0. N - (n - 1) - 1 = N - n
      BY <1>1
    <3>1. /\ Front(q) \in Seq(Names) /\ Len(Front(q)) = N - n
          /\ \A i \in 1..(N - n) : Front(q)[i] = q[i]
      <4>1. /\ Front(q) \in Seq(Names) /\ Len(Front(q)) = Len(q) - 1
            /\ \A i \in 1..(Len(q) - 1) : Front(q)[i] = q[i]
        BY <2>2, <2>3, FrontDef
      <4>2. Len(q) - 1 = N - n
        BY <2>2, <3>0
      <4>. QED  BY <4>1, <4>2
    <3>2. /\ Above(n) \in Seq(Names) /\ Len(Above(n)) = N - n
          /\ \A i \in 1..(N - n) : Above(n)[i] = d[i]
      BY <2>1, Cut DEF N
    <3>3. \A i \in 1..(N - n) : i \in 1..(N - (n - 1))
      BY <1>1, <2>1
    <3>. QED  BY <2>2, <3>1, <3>2, <3>3
  <2>7. n \in 0..N
    BY <1>1
  <2>8. IsDir(t, Above(n))
    <3>. HIDE DEF Above, q
    <3>. QED  BY <2>5, <2>6
  <2>. HIDE DEF Above
  <2>. QED  BY <2>7, <2>8
<1>4. P = 0..N
  <2>. HIDE DEF P, N
  <2>. QED  BY <1>1, <1>2, <1>3, Induction
<1>5. IsDir(t, Above(N - Len(p)))
  BY <1>1, <1>4
<1>6. Above(N - Len(p)) = p
  <2>1. N - (N - Len(p)) = Len(p) /\ Len(p) \in 0..N
    BY <1>1
  <2>2. /\ SubSeq(d, 1, Len(p)) \in Seq(Names) /\ Len(SubSeq(d, 1, Len(p))) = Len(p)
        /\ \A i \in 1..Len(p) : SubSeq(d, 1, Len(p))[i] = d[i]
    BY <2>1, Cut
  <2>3. \A i \in 1..Len(p) : p[i] = d[i]
    BY <1>1, PrefixDef
  <2>4. SubSeq(d, 1, Len(p)) = p
    BY <1>1, <2>2, <2>3
  <2>. QED  BY <2>1, <2>4
<1>. QED  BY <1>5, <1>6

\* A path in a plain folder is the real one, but for a link at its end.
LEMMA PlainPlace ==
    ASSUME NEW t \in Trees, NEW p \in Paths, IsDir(t, Front(p))
    PROVE  /\ Place(t, p) = p
           /\ (p \in DOMAIN t /\ t[p].kind = "link") \/ Real(t, p) = p
           /\ \A h \in Heads(p) : /\ h = p \/ IsDir(t, h)
                                  /\ h # p => Real(t, h) = h
                                  /\ Place(t, h) = h
<1>1. p \in Seq(Names) /\ p # <<>> /\ Front(p) \in Seq(Names) /\ LinksLead(t)
  BY PathFacts, TreeFacts
<1>2. \A q \in Paths : IsPrefix(q, Front(p)) => IsDir(t, q)
  BY <1>1, FoldersUp
<1>3. ASSUME NEW d \in Seq(Names), IsPrefix(d, Front(p))
      PROVE  Real(t, d) = d
  <2>1. ASSUME NEW q \in DOMAIN t \cap Paths, IsPrefix(q, d)
        PROVE  t[q].kind # "link"
    <3>1. IsPrefix(q, Front(p))
      <4>1. q \in Seq(Names)
        BY PathFacts
      <4>2. Len(q) \in Nat /\ Len(d) \in Nat /\ Len(Front(p)) \in Nat
        BY <1>1, <4>1
      <4>3. Len(q) <= Len(d) /\ \A i \in 1..Len(q) : q[i] = d[i]
        BY <2>1, <4>1, PrefixDef
      <4>4. Len(d) <= Len(Front(p)) /\ \A i \in 1..Len(d) : d[i] = Front(p)[i]
        BY <1>1, <1>3, PrefixDef
      <4>5. Len(q) <= Len(Front(p)) /\ \A i \in 1..Len(q) : q[i] = Front(p)[i]
        BY <4>2, <4>3, <4>4
      <4>. QED  BY <1>1, <4>1, <4>5, PrefixDef
    <3>2. IsDir(t, q) /\ q # NoPath
      BY <1>2, <3>1, PathFacts
    <3>. QED  BY <3>2 DEF IsDir
  <2>. QED  BY <1>1, <2>1, RealPlain
<1>4. IsPrefix(Front(p), Front(p))
  BY <1>1, PrefixSelf
<1>5. Real(t, Front(p)) = Front(p)
  BY <1>1, <1>3, <1>4
<1>6. Place(t, p) = p
  BY <1>5, PathFacts DEF Place
<1>7. (p \in DOMAIN t /\ t[p].kind = "link") \/ Real(t, p) = p
  BY <1>1, <1>6, RealStep
<1>8. ASSUME NEW h \in Heads(p), h # p
      PROVE  h \in Paths /\ IsPrefix(h, Front(p)) /\ IsPrefix(Front(h), Front(p))
  <2>1. PICK n \in 1..Len(p) : h = SubSeq(p, 1, n)
    BY DEF Heads
  <2>2. h \in Paths
    BY HeadFacts
  <2>3. n \in 0..Len(p) /\ Len(p) \in Nat \ {0} /\ SubSeq(p, 1, Len(p)) = p
    BY <1>1, PathFacts
  <2>4. n \in 1..(Len(p) - 1)
    <3>1. n # Len(p)
      BY <1>8, <2>1, <2>3
    <3>2. \A a, b \in Nat : a \in 1..b /\ a # b => a \in 1..(b - 1)
      OBVIOUS
    <3>3. n \in Nat /\ Len(p) \in Nat /\ n \in 1..Len(p)
      BY <2>3
    <3>. QED  BY <3>1, <3>2, <3>3, Zenon
  <2>5. h \in Seq(Names) /\ Len(h) = n /\ \A i \in 1..n : h[i] = p[i]
    BY <1>1, <2>1, <2>3, Cut
  <2>6. Len(Front(p)) = Len(p) - 1 /\ \A i \in 1..(Len(p) - 1) : Front(p)[i] = p[i]
    BY <1>1, FrontDef
  <2>7. Len(h) <= Len(Front(p)) /\ \A i \in 1..Len(h) : h[i] = Front(p)[i]
    BY <2>4, <2>5, <2>6
  <2>8. IsPrefix(h, Front(p))
    BY <1>1, <2>5, <2>7, PrefixDef
  <2>9. /\ Front(h) \in Seq(Names) /\ Len(Front(h)) = n - 1 /\ h # <<>>
        /\ \A i \in 1..(n - 1) : Front(h)[i] = h[i]
    BY <2>2, <2>5, PathFacts, FrontDef
  <2>10. Len(Front(h)) <= Len(Front(p)) /\ \A i \in 1..Len(Front(h)) : Front(h)[i] = Front(p)[i]
    BY <2>4, <2>5, <2>6, <2>9
  <2>. QED  BY <1>1, <2>2, <2>8, <2>9, <2>10, PrefixDef
<1>9. ASSUME NEW h \in Heads(p), h # p
      PROVE  IsDir(t, h) /\ Real(t, h) = h /\ Place(t, h) = h
  <2>1. h \in Paths /\ IsPrefix(h, Front(p)) /\ IsPrefix(Front(h), Front(p))
    BY <1>8, <1>9
  <2>2. Real(t, Front(h)) = Front(h) /\ Real(t, h) = h
    BY <1>3, <2>1, PathFacts
  <2>. QED  BY <1>2, <2>1, <2>2, PathFacts DEF Place
<1>. QED  BY <1>6, <1>7, <1>9

LEMMA WithSame ==
    ASSUME NEW t \in Trees, NEW p \in DOMAIN t
    PROVE  With(t, p, t[p]) = t
<1>1. t = [q \in DOMAIN t |-> t[q]] /\ DOMAIN t \cup {p} = DOMAIN t
  BY TreeFacts
<1>2. With(t, p, t[p]) = [q \in DOMAIN t |-> t[q]]
  BY <1>1 DEF With
<1>. QED  BY <1>1, <1>2

LEMMA PlainDir ==
    ASSUME NEW t \in Trees, NEW p \in Paths, IsDir(t, Front(p)),
           p \in DOMAIN t => t[p].kind = "dir"
    PROVE  /\ Exists(t, Real(t, p)) => With(t, p, Dir) = t
           /\ ~Exists(t, Real(t, p)) => MakeDirs(t, p) = With(t, p, Dir)
<1>. DEFINE heads == Heads(p)
            news == {r \in {Real(t, h) : h \in heads} : ~Exists(t, r)}
<1>1. /\ Real(t, p) = p /\ p \in heads /\ p # NoPath
      /\ \A h \in heads : Real(t, h) = h /\ Place(t, h) = h /\ (h = p \/ IsDir(t, h))
  BY PlainPlace, HeadFacts, PathFacts
<1>2. CASE p \in DOMAIN t
  <2>1. t[p] = Dir
    <3>1. t[p] \in Nodes
      BY <1>2, TreeFacts
    <3>. QED  BY <1>2, <3>1, NodeFacts
  <2>. QED  BY <1>1, <1>2, <2>1, WithSame DEF Exists
<1>3. CASE p \notin DOMAIN t
  <2>1. ~Exists(t, p)
    BY <1>1, <1>3 DEF Exists
  <2>2. \A h \in heads : h # p => Exists(t, h)
    BY <1>1 DEF IsDir, Exists
  <2>3. news = {p}
    <3>. HIDE DEF heads
    <3>. QED  BY <1>1, <2>1, <2>2
  <2>4. ~ \E h \in heads : Place(t, h) \in DOMAIN t /\ ~IsDir(t, Real(t, h))
    <3>. HIDE DEF heads
    <3>. QED  BY <1>1, <1>3
  <2>5. MakeDirs(t, p) = [q \in DOMAIN t \cup news |-> IF q \in news THEN Dir ELSE t[q]]
    <3>1. heads = {SubSeq(p, 1, n) : n \in 1..Len(p)}
      BY DEF Heads
    <3>. HIDE DEF heads
    <3>. QED  BY <2>4, <3>1 DEF MakeDirs
  <2>. HIDE DEF news, heads
  <2>6. MakeDirs(t, p) = With(t, p, Dir)
    BY <2>3, <2>5 DEF With
  <2>. QED  BY <1>1, <2>1, <2>6
<1>. QED  BY <1>2, <1>3

\* An entry in a plain folder is put to its path if nothing of another kind, or
\* another link, stands there.
LEMMA Extracted ==
    ASSUME NEW t \in Trees, NEW e \in Stampeds, e.mark = "plain", e.kind # "hard",
           IsDir(t, Front(e.path)),
           e.path \in DOMAIN t =>
              /\ t[e.path].kind = NodeOf(e).kind
              /\ e.kind = "link" => t[e.path] = NodeOf(e)
    PROVE  Extract(t, e) = With(t, e.path, NodeOf(e))
<1>. DEFINE p == e.path
<1>1. /\ p \in Paths /\ t # Bad /\ e.kind \in {"dir", "reg", "link"}
      /\ Place(t, p) = p /\ p # NoPath
      /\ (p \in DOMAIN t /\ t[p].kind = "link") \/ Real(t, p) = p
  BY EntryFacts, TreeFacts, PlainPlace, PathFacts
<1>2. CASE e.kind = "dir"
  <2>1. NodeOf(e) = Dir /\ NodeOf(e).kind = "dir"
    BY <1>2, NodeFacts DEF NodeOf
  <2>2. Extract(t, e) = IF Exists(t, Real(t, p)) THEN t ELSE MakeDirs(t, p)
    BY <1>1, <1>2 DEF Extract
  <2>. QED  BY <1>1, <2>1, <2>2, PlainDir
<1>3. CASE e.kind = "reg"
  <2>1. NodeOf(e) = File(e.data) /\ NodeOf(e).kind = "file"
    BY <1>3, NodeFacts, EntryFacts DEF NodeOf
  <2>2. Extract(t, e) = WriteFile(t, p, e.data)
    BY <1>1, <1>3 DEF Extract
  <2>3. Real(t, p) = p /\ ~IsDir(t, p)
    BY <1>1, <2>1 DEF IsDir
  <2>4. WriteFile(t, p, e.data) = With(t, p, File(e.data))
    BY <2>3 DEF WriteFile
  <2>. QED  BY <2>1, <2>2, <2>4
<1>4. CASE e.kind = "link"
  <2>1. NodeOf(e) = Link(e.to)
    BY <1>4 DEF NodeOf
  <2>2. Extract(t, e) = Symlink(t, p, e.to)
    BY <1>1, <1>4 DEF Extract, Leads
  <2>3. CASE p \in DOMAIN t
    BY <1>1, <1>4, <2>1, <2>2, <2>3, WithSame DEF Symlink
  <2>4. CASE p \notin DOMAIN t
    BY <1>1, <2>1, <2>2, <2>4 DEF Symlink
  <2>. QED  BY <2>3, <2>4
<1>. QED  BY <1>1, <1>2, <1>3, <1>4

-----------------------------------------------------------------------------
(* Extracting an ordinary layer *)

\* What a layer makes of what is below it.
Over(V, L) ==
    [p \in {L[i].path : i \in {j \in DOMAIN L : Puts(L[j])}}
             \cup {q \in DOMAIN V : ~Hides(L, q)} |->
        IF Has(L, p) THEN NodeIn(L, p) ELSE V[p]]

\* The same after the first n entries, of whiteouts that are not opaque.
PutBy(L, n) == {L[i].path : i \in {j \in 1..n : Puts(L[j])}}

KeptBy(V, L, n) ==
    {p \in DOMAIN V :
        \A i \in 1..n : L[i].mark = "white" => ~IsPrefix(L[i].path, p)}

OverBy(V, L, n) ==
    [p \in PutBy(L, n) \cup KeptBy(V, L, n) |->
        IF p \in PutBy(L, n) THEN NodeIn(L, p) ELSE V[p]]

\* All entries of a layer are ordinary, over V and when W is what is to be shown.
OrdinaryLayer(L, V, W) == \A i \in DOMAIN L : OrdinaryEntry(L, i, V, W)

LEMMA OrdinaryFacts ==
    ASSUME NEW L \in Seq(Stampeds), NEW V, NEW W, OrdinaryLayer(L, V, W),
           NEW i \in 1..Len(L)
    PROVE  /\ L[i] \in Stampeds /\ L[i].path \in Paths
           /\ IsDir(W, Front(L[i].path))
           /\ \A j \in 1..Len(L) :
                 Puts(L[j]) /\ IsPrefix(L[j].path, L[i].path) => j <= i
           /\ \/ /\ L[i].mark = "white" /\ ~Puts(L[i]) /\ L[i].kind = "reg"
                 /\ \A j \in 1..Len(L) : Puts(L[j]) => ~IsPrefix(L[i].path, L[j].path)
              \/ /\ L[i].mark = "plain" /\ Puts(L[i]) /\ L[i].kind # "hard"
                 /\ L[i].path \in DOMAIN V =>
                       /\ V[L[i].path].kind = NodeOf(L[i]).kind
                       /\ L[i].kind = "link" => V[L[i].path] = NodeOf(L[i])
                 /\ NodeIn(L, L[i].path) = NodeOf(L[i])
<1>1. DOMAIN L = 1..Len(L) /\ Len(L) \in Nat
  OBVIOUS
<1>2. L[i] \in Stampeds /\ L[i].path \in Paths
  BY EntryFacts
<1>3. \A j \in 1..Len(L) :
         /\ IsDir(W, Front(L[j].path))
         /\ \A n \in 1..Len(L) : Puts(L[n]) /\ IsPrefix(L[n].path, L[j].path) => n <= j
         /\ \/ /\ L[j].mark = "white" /\ L[j].kind = "reg"
               /\ \A n \in 1..Len(L) : Puts(L[n]) => ~IsPrefix(L[j].path, L[n].path)
            \/ /\ L[j].mark = "plain" /\ L[j].kind # "hard"
               /\ L[j].path \in DOMAIN V =>
                     /\ V[L[j].path].kind = NodeOf(L[j]).kind
                     /\ L[j].kind = "link" => V[L[j].path] = NodeOf(L[j])
  BY <1>1 DEF OrdinaryLayer, OrdinaryEntry
<1>4. ASSUME Puts(L[i]) PROVE NodeIn(L, L[i].path) = NodeOf(L[i])
  <2>1. IsPrefix(L[i].path, L[i].path)
    BY <1>2, PathFacts, PrefixSelf
  <2>2. ASSUME NEW j \in DOMAIN L, L[j].path = L[i].path, Puts(L[j]) PROVE j = i
    <3>1. j <= i /\ i <= j
      BY <1>1, <1>3, <1>4, <2>1, <2>2
    <3>2. i \in Nat /\ j \in Nat
      BY <1>1
    <3>. QED  BY <3>1, <3>2
  <2>3. (CHOOSE j \in DOMAIN L : L[j].path = L[i].path /\ Puts(L[j])) = i
    BY <1>1, <1>4, <2>2
  <2>. QED  BY <2>3 DEF NodeIn
<1>5. L[i].mark = "white" => ~Puts(L[i])
  BY DEF Puts
<1>6. L[i].mark = "plain" => Puts(L[i])
  BY DEF Puts
<1>. QED  BY <1>2, <1>3, <1>4, <1>5, <1>6

\* The folder of the next entry is there, and nothing of another kind is in its place.
LEMMA OverFolder ==
    ASSUME NEW V \in Trees, NEW L \in Seq(Stampeds),
           OrdinaryLayer(L, V, Over(V, L)), NEW n \in 1..Len(L)
    PROVE  IsDir(OverBy(V, L, n - 1), Front(L[n].path))
<1>. DEFINE p == L[n].path
            d == Front(p)
            u == OverBy(V, L, n - 1)
            W == Over(V, L)
<1>1. DOMAIN L = 1..Len(L) /\ n \in Nat /\ n - 1 \in 0..Len(L) /\ Len(L) \in Nat
  OBVIOUS
<1>2. /\ p \in Paths /\ IsDir(W, d)
      /\ \A j \in 1..Len(L) : Puts(L[j]) /\ IsPrefix(L[j].path, p) => j <= n
  BY OrdinaryFacts
<1>3. CASE d = NoPath
  BY <1>3 DEF IsDir
<1>4. CASE d # NoPath
  <2>1. d \in DOMAIN W /\ W[d].kind = "dir"
    BY <1>2, <1>4 DEF IsDir
  <2>2. CASE Has(L, d)
    <3>1. PICK j \in 1..Len(L) : L[j].path = d /\ Puts(L[j])
      BY <1>1, <2>2 DEF Has
    <3>2. IsPrefix(d, p)
      <4>1. d \in Seq(Names) /\ p \in Paths
        BY <1>2, PathFacts
      <4>2. IsPrefix(d, d)
        BY <4>1, PrefixSelf
      <4>. QED  BY <4>1, <4>2, PrefixUp
    <3>3. j <= n /\ j # n
      <4>1. d # p
        BY <1>2, PathFacts
      <4>. QED  BY <1>2, <3>1, <3>2, <4>1
    <3>4. j \in 1..(n - 1)
      BY <1>1, <3>3
    <3>5. d \in PutBy(L, n - 1)
      BY <3>1, <3>4 DEF PutBy
    <3>6. W[d] = NodeIn(L, d)
      <4>. HIDE DEF d
      <4>. QED  BY <2>1, <2>2 DEF Over
    <3>7. d \in DOMAIN u /\ u[d] = NodeIn(L, d)
      <4>. HIDE DEF d
      <4>. QED  BY <3>5 DEF OverBy
    <3>. QED  BY <2>1, <3>6, <3>7 DEF IsDir
  <2>3. CASE ~Has(L, d)
    <3>. HIDE DEF d
    <3>1. d \in DOMAIN V /\ ~Hides(L, d) /\ W[d] = V[d]
      BY <1>1, <2>1, <2>3 DEF Over, Has
    <3>2. d \in KeptBy(V, L, n - 1)
      <4>1. \A i \in 1..(n - 1) : i \in DOMAIN L
        BY <1>1
      <4>. QED  BY <3>1, <4>1 DEF KeptBy, Hides
    <3>3. d \notin PutBy(L, n - 1)
      <4>1. \A i \in 1..(n - 1) : i \in DOMAIN L
        BY <1>1
      <4>. QED  BY <2>3, <4>1 DEF PutBy, Has
    <3>4. d \in DOMAIN u /\ u[d] = V[d]
      BY <3>2, <3>3 DEF OverBy
    <3>5. IsDir(u, d)
      BY <2>1, <3>1, <3>4 DEF IsDir
    <3>. QED  BY <3>5 DEF d
  <2>. QED  BY <2>2, <2>3
<1>. QED  BY <1>3, <1>4

LEMMA NotBad ==
    ASSUME NEW t, NEW p \in DOMAIN t, p # NoPath
    PROVE  t # Bad
BY DEF Bad

LEMMA OverStep ==
    ASSUME NEW V \in Trees, NEW L \in Seq(Stampeds),
           OrdinaryLayer(L, V, Over(V, L)), NEW n \in 1..Len(L),
           OverBy(V, L, n - 1) \in Trees
    PROVE  /\ Extract(OverBy(V, L, n - 1), L[n]) = OverBy(V, L, n)
           /\ OverBy(V, L, n) \in Trees
<1>. DEFINE e == L[n]
            p == e.path
            u == OverBy(V, L, n - 1)
            put == PutBy(L, n - 1)
            kept == KeptBy(V, L, n - 1)
<1>1. /\ DOMAIN L = 1..Len(L) /\ n \in Nat /\ Len(L) \in Nat
      /\ \A i : i \in 1..n <=> i \in 1..(n - 1) \/ i = n
      /\ \A i \in 1..n : i \in 1..Len(L)
      /\ n \notin 1..(n - 1)
  OBVIOUS
<1>2. /\ e \in Stampeds /\ p \in Paths
      /\ \/ /\ e.mark = "white" /\ ~Puts(e) /\ e.kind = "reg"
            /\ \A j \in 1..Len(L) : Puts(L[j]) => ~IsPrefix(p, L[j].path)
         \/ /\ e.mark = "plain" /\ Puts(e) /\ e.kind # "hard"
            /\ p \in DOMAIN V =>
                  /\ V[p].kind = NodeOf(e).kind
                  /\ e.kind = "link" => V[p] = NodeOf(e)
            /\ NodeIn(L, p) = NodeOf(e)
  BY OrdinaryFacts
<1>3. IsDir(u, Front(p))
  BY OverFolder
<1>4. u = [q \in put \cup kept |-> IF q \in put THEN NodeIn(L, q) ELSE V[q]]
  BY DEF OverBy
<1>5. OverBy(V, L, n) =
        [q \in PutBy(L, n) \cup KeptBy(V, L, n) |->
           IF q \in PutBy(L, n) THEN NodeIn(L, q) ELSE V[q]]
  BY DEF OverBy
<1>6. Extract(u, e) \in Trees \cup {Bad}
  BY <1>2, ExtractTree
<1>7. PutBy(L, n) = put \cup (IF Puts(e) THEN {p} ELSE {})
  BY <1>1 DEF PutBy
<1>8. KeptBy(V, L, n) = {q \in kept : e.mark = "white" => ~IsPrefix(p, q)}
  BY <1>1 DEF KeptBy
<1>9. CASE e.mark = "white"
  <2>1. Extract(u, e) = RemoveAll(u, p)
    <3>1. u # Bad
      BY TreeFacts
    <3>. HIDE DEF u, e
    <3>. QED  BY <1>2, <1>9, <3>1 DEF Extract, Hidden, Puts
  <2>2. Place(u, p) = p
    BY <1>2, <1>3, PlainPlace
  <2>3. ~Puts(e) /\ \A q \in put : ~IsPrefix(p, q)
    <3>1. \A j \in 1..(n - 1) : j \in 1..Len(L)
      BY <1>1
    <3>. QED  BY <1>2, <1>9, <3>1 DEF PutBy, Puts
  <2>. HIDE DEF e, p, put, kept
  <2>4. DOMAIN u \ {q \in DOMAIN u : IsPrefix(p, q)}
          = PutBy(L, n) \cup KeptBy(V, L, n)
    BY <1>4, <1>7, <1>8, <1>9, <2>3
  <2>5. PutBy(L, n) = put
    BY <1>7, <2>3
  <2>6. RemoveAll(u, p) = OverBy(V, L, n)
    BY <1>4, <1>5, <2>2, <2>4, <2>5 DEF RemoveAll, Restrict
  <2>7. RemoveAll(u, p) \in Trees
    BY <1>2, RemoveTree
  <2>. QED  BY <2>1, <2>6, <2>7 DEF e
<1>10. CASE e.mark # "white"
  <2>1. /\ e.mark = "plain" /\ Puts(e) /\ e.kind # "hard"
        /\ p \in DOMAIN V => /\ V[p].kind = NodeOf(e).kind
                             /\ e.kind = "link" => V[p] = NodeOf(e)
        /\ NodeIn(L, p) = NodeOf(e)
    BY <1>2, <1>10
  <2>2. p \in DOMAIN u => u[p] = NodeOf(e) \/ (p \in DOMAIN V /\ u[p] = V[p])
    <3>1. kept \subseteq DOMAIN V
      BY DEF KeptBy
    <3>. HIDE DEF e, p, put, kept
    <3>. QED  BY <1>4, <2>1, <3>1
  <2>3. Extract(u, e) = With(u, p, NodeOf(e))
    <3>1. /\ u \in Trees /\ e \in Stampeds /\ e.mark = "plain" /\ e.kind # "hard"
          /\ IsDir(u, Front(e.path))
      BY <1>2, <1>3, <2>1
    <3>2. e.path \in DOMAIN u =>
             /\ u[e.path].kind = NodeOf(e).kind
             /\ e.kind = "link" => u[e.path] = NodeOf(e)
      <4>. HIDE DEF u, e
      <4>. QED  BY <2>1, <2>2 DEF p
    <3>. HIDE DEF u, e
    <3>. QED  BY <3>1, <3>2, Extracted DEF p
  <2>4. With(u, p, NodeOf(e)) = OverBy(V, L, n)
    <3>1. PutBy(L, n) = put \cup {p} /\ KeptBy(V, L, n) = kept
      BY <1>7, <1>8, <1>10, <2>1
    <3>. HIDE DEF e, p, put, kept
    <3>2. DOMAIN u \cup {p} = PutBy(L, n) \cup KeptBy(V, L, n)
      BY <1>4, <3>1
    <3>. QED  BY <1>4, <1>5, <2>1, <3>1, <3>2 DEF With
  <2>5. OverBy(V, L, n) # Bad
    <3>1. p \in DOMAIN OverBy(V, L, n) /\ p # NoPath
      BY <1>2, <1>5, <1>7, <2>1, PathFacts
    <3>. QED  BY <3>1, NotBad
  <2>. QED  BY <1>6, <2>3, <2>4, <2>5
<1>. QED  BY <1>9, <1>10

\* An ordinary layer, extracted over a tree, makes of it what it shows over it.
LEMMA UntarOver ==
    ASSUME NEW V \in Trees, NEW L \in Seq(Stampeds),
           OrdinaryLayer(L, V, Over(V, L))
    PROVE  UntarLayer(V, L) = Over(V, L) /\ Over(V, L) \in Trees
<1>. DEFINE N == Len(L)
<1>1. N \in Nat /\ DOMAIN L = 1..N
  OBVIOUS
<1>2. PICK after \in [0..N -> Trees \cup {Bad}] :
         /\ after[0] = V
         /\ \A n \in 1..N : after[n] = Extract(after[n - 1], L[n])
         /\ UntarLayer(V, L) = after[N]
  BY UntarRec
<1>3. OverBy(V, L, 0) = V
  <2>1. 1..0 = {}
    OBVIOUS
  <2>2. PutBy(L, 0) = {}
    BY <2>1 DEF PutBy
  <2>3. KeptBy(V, L, 0) = DOMAIN V
    BY <2>1 DEF KeptBy
  <2>4. V = [p \in DOMAIN V |-> V[p]]
    BY TreeFacts
  <2>. QED  BY <2>2, <2>3, <2>4 DEF OverBy
<1>. DEFINE P == {n \in 0..N : after[n] = OverBy(V, L, n) /\ OverBy(V, L, n) \in Trees}
<1>4. 0 \in P /\ P \in SUBSET (0..N)
  BY <1>1, <1>2, <1>3
<1>5. ASSUME NEW n \in 1..N, n - 1 \in P PROVE n \in P
  <2>1. /\ after[n - 1] = OverBy(V, L, n - 1) /\ OverBy(V, L, n - 1) \in Trees
        /\ n \in 0..N
    BY <1>1, <1>5
  <2>2. after[n] = Extract(OverBy(V, L, n - 1), L[n])
    BY <1>2, <2>1
  <2>. QED  BY <2>1, <2>2, OverStep
<1>6. P = 0..N
  <2>. HIDE DEF P, N
  <2>. QED  BY <1>1, <1>4, <1>5, Induction
<1>7. after[N] = OverBy(V, L, N) /\ OverBy(V, L, N) \in Trees
  <2>1. N \in 0..N
    BY <1>1
  <2>. QED  BY <1>6, <2>1
<1>8. PutBy(L, N) = {L[i].path : i \in {j \in DOMAIN L : Puts(L[j])}}
  BY <1>1 DEF PutBy
<1>9. ASSUME NEW p \in DOMAIN V
      PROVE  Hides(L, p) <=> \E i \in 1..N : L[i].mark = "white" /\ IsPrefix(L[i].path, p)
  <2>1. ASSUME NEW i \in 1..N, Puts(L[i]), L[i].kind # "dir", IsStrictPrefix(L[i].path, p)
        PROVE  FALSE
    <3>. DEFINE q == L[i].path
    <3>1. /\ q \in Paths /\ L[i] \in Stampeds
          /\ q \in DOMAIN V => V[q].kind = NodeOf(L[i]).kind
      BY <2>1, OrdinaryFacts
    <3>2. p \in Paths /\ IsDir(V, Front(p)) /\ Front(p) \in Seq(Names)
      BY TreeFacts, PathFacts DEF Closed
    <3>3. IsPrefix(q, Front(p))
      <4>1. /\ q \in Seq(Names) /\ p \in Seq(Names) /\ p # <<>> /\ q # p /\ IsPrefix(q, p)
            /\ Len(q) \in Nat /\ Len(p) \in Nat
        BY <2>1, <3>1, <3>2, PathFacts DEF IsStrictPrefix
      <4>. HIDE DEF q
      <4>2. Len(q) <= Len(p) /\ \A j \in 1..Len(q) : q[j] = p[j]
        BY <4>1, PrefixDef
      <4>3. Len(q) # Len(p)
        BY <4>1, <4>2
      <4>4. Len(Front(p)) = Len(p) - 1 /\ \A j \in 1..(Len(p) - 1) : Front(p)[j] = p[j]
        BY <4>1, FrontDef
      <4>5. Len(q) <= Len(Front(p)) /\ \A j \in 1..Len(q) : q[j] = Front(p)[j]
        BY <4>1, <4>2, <4>3, <4>4
      <4>. QED  BY <3>2, <4>1, <4>5, PrefixDef
    <3>4. q \in DOMAIN V /\ V[q].kind = "dir"
      <4>1. IsDir(V, q) /\ q # NoPath
        BY <3>1, <3>2, <3>3, FoldersUp, PathFacts
      <4>. QED  BY <4>1 DEF IsDir
    <3>5. NodeOf(L[i]).kind # "dir"
      <4>1. L[i].kind = "reg" => L[i].data \in Digests
        BY <3>1, EntryFacts
      <4>2. L[i].to \in Seq(Names)
        BY <3>1, EntryFacts
      <4>. QED  BY <2>1, <4>1, <4>2, NodeFacts DEF NodeOf
    <3>. QED  BY <3>1, <3>4, <3>5
  <2>2. \A i \in 1..N : L[i].mark # "opaque"
    BY OrdinaryFacts
  <2>. QED  BY <1>1, <2>1, <2>2 DEF Hides
<1>10. KeptBy(V, L, N) = {q \in DOMAIN V : ~Hides(L, q)}
  BY <1>9 DEF KeptBy
<1>11. \A p : p \in PutBy(L, N) <=> Has(L, p)
  BY <1>8 DEF Has
<1>12. OverBy(V, L, N) = Over(V, L)
  BY <1>8, <1>10, <1>11 DEF OverBy, Over
<1>. QED  BY <1>2, <1>7, <1>12

-----------------------------------------------------------------------------
(* What a stack shows, layer by layer *)

LEMMA TopIs ==
    ASSUME NEW S, NEW stack \in Seq(S), NEW p, NEW i \in 1..Len(stack),
           Has(stack[i], p), \A j \in (i + 1)..Len(stack) : ~Has(stack[j], p)
    PROVE  Top(stack, p) = i
<1>1. DOMAIN stack = 1..Len(stack) /\ Len(stack) \in Nat
  OBVIOUS
<1>2. ASSUME NEW m \in 1..Len(stack), Has(stack[m], p),
             \A j \in (m + 1)..Len(stack) : ~Has(stack[j], p)
      PROVE  m = i
  <2>1. ~(m < i)
    <3>1. m < i => i \in (m + 1)..Len(stack)
      BY <1>1
    <3>. QED  BY <1>2, <3>1
  <2>2. ~(i < m)
    <3>1. i < m => m \in (i + 1)..Len(stack)
      BY <1>1
    <3>. QED  BY <1>2, <3>1
  <2>. QED  BY <1>1, <2>1, <2>2
<1>. QED  BY <1>1, <1>2 DEF Top

LEMMA TopExists ==
    ASSUME NEW S, NEW stack \in Seq(S), NEW p, NEW i \in 1..Len(stack),
           Has(stack[i], p)
    PROVE  \E m \in 1..Len(stack) :
              /\ Has(stack[m], p)
              /\ \A j \in (m + 1)..Len(stack) : ~Has(stack[j], p)
<1>. DEFINE N == Len(stack)
            T == {j \in 0..(N - 1) : Has(stack[N - j], p)}
<1>1. N \in Nat /\ i \in 1..N
  OBVIOUS
<1>2. N - i \in T
  <2>1. N - i \in 0..(N - 1) /\ N - (N - i) = i
    BY <1>1
  <2>. QED  BY <2>1
<1>3. PICK f \in T : \A j \in T : f <= j
  <2>1. T \in SUBSET Nat
    BY <1>1
  <2>. HIDE DEF T
  <2>. QED  BY <1>2, <2>1, Least
<1>4. N - f \in 1..N /\ Has(stack[N - f], p)
  BY <1>1
<1>5. ASSUME NEW j \in (N - f + 1)..N PROVE ~Has(stack[j], p)
  <2>1. N - j \in 0..(N - 1) /\ N - (N - j) = j /\ ~(f <= N - j)
    BY <1>1
  <2>. QED  BY <1>3, <2>1
<1>. QED  BY <1>4, <1>5

\* The layers below the n-th.
Below(stack, n) == SubSeq(stack, 1, n - 1)

LEMMA BelowFacts ==
    ASSUME NEW S, NEW stack \in Seq(S), Len(stack) # 0
    PROVE  LET B == Below(stack, Len(stack))
           IN /\ Len(stack) - 1 \in Nat /\ Len(stack) \in 1..Len(stack)
              /\ B \in Seq(S) /\ Len(B) = Len(stack) - 1
              /\ \A i \in 1..(Len(stack) - 1) : i \in 1..Len(stack) /\ B[i] = stack[i]
<1>1. Len(stack) \in Nat \ {0} /\ Len(stack) - 1 \in 0..Len(stack)
  OBVIOUS
<1>2. \A i \in 1..(Len(stack) - 1) : i \in 1..Len(stack)
  BY <1>1
<1>3. Len(stack) \in 1..Len(stack) /\ Len(stack) - 1 \in Nat
  BY <1>1
<1>. QED  BY <1>1, <1>2, <1>3, Cut DEF Below

LEMMA ShownDef ==
    ASSUME NEW S, NEW stack \in Seq(S), NEW p
    PROVE  p \in Shown(stack) <=>
             \E i \in 1..Len(stack) :
                Has(stack[i], p) /\ \A j \in (i + 1)..Len(stack) : ~Hides(stack[j], p)
<1>1. DOMAIN stack = 1..Len(stack)
  OBVIOUS
<1>2. ASSUME NEW i \in 1..Len(stack), Has(stack[i], p)
      PROVE  p \in PathsOf(stack)
  BY <1>1, <1>2 DEF Has, PathsOf
<1>. QED  BY <1>1, <1>2 DEF Shown

LEMMA ShownStep ==
    ASSUME NEW S, NEW stack \in Seq(S), Len(stack) # 0, NEW p
    PROVE  p \in Shown(stack) <=>
             \/ Has(stack[Len(stack)], p)
             \/ p \in Shown(Below(stack, Len(stack))) /\ ~Hides(stack[Len(stack)], p)
<1>. DEFINE N == Len(stack)
            B == Below(stack, N)
<1>1. /\ N - 1 \in Nat /\ N \in 1..N /\ B \in Seq(S) /\ Len(B) = N - 1
      /\ \A i \in 1..(N - 1) : i \in 1..N /\ B[i] = stack[i]
  BY BelowFacts
<1>. HIDE DEF N, B
<1>2. \A i : i \in 1..N <=> i \in 1..(N - 1) \/ i = N
  BY <1>1
<1>3. \A i \in 1..(N - 1) :
         /\ \A j : j \in (i + 1)..N <=> j \in (i + 1)..(N - 1) \/ j = N
         /\ \A j \in (i + 1)..(N - 1) : j \in 1..(N - 1)
  BY <1>1
<1>4. (N + 1)..N = {}
  BY <1>1
<1>5. p \in Shown(stack) <=>
        \E i \in 1..N : Has(stack[i], p) /\ \A j \in (i + 1)..N : ~Hides(stack[j], p)
  BY ShownDef DEF N
<1>6. p \in Shown(B) <=>
        \E i \in 1..(N - 1) :
           Has(B[i], p) /\ \A j \in (i + 1)..(N - 1) : ~Hides(B[j], p)
  BY <1>1, ShownDef
<1>7. p \in Shown(B) <=>
        \E i \in 1..(N - 1) :
           Has(stack[i], p) /\ \A j \in (i + 1)..(N - 1) : ~Hides(stack[j], p)
  BY <1>1, <1>3, <1>6
<1>8. p \in Shown(stack) <=> Has(stack[N], p) \/ (p \in Shown(B) /\ ~Hides(stack[N], p))
  BY <1>1, <1>2, <1>3, <1>4, <1>5, <1>7
<1>. QED  BY <1>8 DEF N, B

\* A stack shows what its highest layer makes of what the ones below show.
LEMMA ViewStep ==
    ASSUME NEW S, NEW stack \in Seq(S), Len(stack) # 0
    PROVE  View(stack) = Over(View(Below(stack, Len(stack))), stack[Len(stack)])
<1>. DEFINE N == Len(stack)
            B == Below(stack, N)
            L == stack[N]
<1>1. /\ N - 1 \in Nat /\ N \in 1..N /\ B \in Seq(S) /\ Len(B) = N - 1
      /\ \A i \in 1..(N - 1) : i \in 1..N /\ B[i] = stack[i]
  BY BelowFacts
<1>2. \A p : p \in Shown(stack) <=> Has(L, p) \/ (p \in Shown(B) /\ ~Hides(L, p))
  BY ShownStep
<1>3. ASSUME NEW p, Has(L, p) PROVE NodeIn(stack[Top(stack, p)], p) = NodeIn(L, p)
  <2>1. (N + 1)..N = {}
    BY <1>1
  <2>2. Top(stack, p) = N
    BY <1>1, <1>3, <2>1, TopIs
  <2>. QED  BY <2>2
<1>4. ASSUME NEW p \in Shown(B), ~Has(L, p)
      PROVE  NodeIn(stack[Top(stack, p)], p) = NodeIn(B[Top(B, p)], p)
  <2>1. \E i \in 1..(N - 1) : Has(B[i], p)
    BY <1>1, ShownDef
  <2>2. PICK m \in 1..(N - 1) :
           Has(B[m], p) /\ \A j \in (m + 1)..(N - 1) : ~Has(B[j], p)
    BY <1>1, <2>1, TopExists
  <2>3. Top(B, p) = m
    <3>. HIDE DEF B
    <3>. QED  BY <1>1, <2>2, TopIs
  <2>4. \A j \in (m + 1)..N : j = N \/ (j \in (m + 1)..(N - 1) /\ j \in 1..(N - 1))
    <3>. HIDE DEF N
    <3>. QED  BY <1>1
  <2>5. \A j \in (m + 1)..N : ~Has(stack[j], p)
    <3>. HIDE DEF B
    <3>. QED  BY <1>1, <1>4, <2>2, <2>4
  <2>6. m \in 1..N /\ B[m] = stack[m]
    BY <1>1
  <2>7. Top(stack, p) = m
    <3>. HIDE DEF B
    <3>. QED  BY <2>2, <2>5, <2>6, TopIs
  <2>. QED  BY <2>3, <2>6, <2>7
<1>5. View(B) = [p \in Shown(B) |-> NodeIn(B[Top(B, p)], p)]
  BY DEF View
<1>6. View(stack) = [p \in Shown(stack) |-> NodeIn(stack[Top(stack, p)], p)]
  BY DEF View
<1>. HIDE DEF B, L, N
<1>7. \A p : Has(L, p) <=> p \in {L[i].path : i \in {j \in DOMAIN L : Puts(L[j])}}
  BY DEF Has
<1>. DEFINE D == {L[i].path : i \in {j \in DOMAIN L : Puts(L[j])}}
                    \cup {q \in Shown(B) : ~Hides(L, q)}
<1>8. Shown(stack) = D
  BY <1>2, <1>7
<1>9. Over(View(B), L) = [p \in D |-> IF Has(L, p) THEN NodeIn(L, p) ELSE View(B)[p]]
  BY <1>5 DEF Over
<1>10. \A p \in D : p \in Shown(B) \/ Has(L, p)
  BY <1>7
<1>. HIDE DEF D
<1>11. \A p \in D : NodeIn(stack[Top(stack, p)], p)
                      = IF Has(L, p) THEN NodeIn(L, p) ELSE View(B)[p]
  BY <1>3, <1>4, <1>5, <1>10
<1>12. View(stack) = Over(View(B), L)
  BY <1>6, <1>8, <1>9, <1>11
<1>. QED  BY <1>12 DEF B, L, N

LEMMA CutCut ==
    ASSUME NEW S, NEW s \in Seq(S), NEW n \in 0..Len(s), NEW m \in 0..n
    PROVE  SubSeq(SubSeq(s, 1, n), 1, m) = SubSeq(s, 1, m)
<1>. DEFINE t == SubSeq(s, 1, n)
<1>1. Len(s) \in Nat /\ m \in 0..Len(s) /\ \A i \in 1..m : i \in 1..n
  OBVIOUS
<1>2. t \in Seq(S) /\ Len(t) = n /\ \A i \in 1..n : t[i] = s[i]
  BY Cut
<1>. HIDE DEF t
<1>3. /\ SubSeq(t, 1, m) \in Seq(S) /\ Len(SubSeq(t, 1, m)) = m
      /\ \A i \in 1..m : SubSeq(t, 1, m)[i] = t[i]
  BY <1>2, Cut
<1>4. /\ SubSeq(s, 1, m) \in Seq(S) /\ Len(SubSeq(s, 1, m)) = m
      /\ \A i \in 1..m : SubSeq(s, 1, m)[i] = s[i]
  BY <1>1, Cut
<1>5. \A i \in 1..m : SubSeq(t, 1, m)[i] = SubSeq(s, 1, m)[i]
  BY <1>1, <1>2, <1>3, <1>4
<1>6. SubSeq(t, 1, m) = SubSeq(s, 1, m)
  BY <1>3, <1>4, <1>5
<1>. QED  BY <1>6 DEF t

LEMMA CutWhole ==
    ASSUME NEW S, NEW s \in Seq(S)
    PROVE  SubSeq(s, 1, Len(s)) = s
OBVIOUS

LEMMA CutNone ==
    ASSUME NEW S, NEW s \in Seq(S)
    PROVE  SubSeq(s, 1, 0) = <<>>
OBVIOUS

LEMMA ViewNone == View(<<>>) = EmptyTree
<1>1. DOMAIN <<>> = {}
  OBVIOUS
<1>2. Shown(<<>>) = {}
  BY <1>1 DEF Shown, PathsOf
<1>. QED  BY <1>2 DEF View, EmptyTree

LEMMA ViewNext ==
    ASSUME NEW S, NEW stack \in Seq(S), NEW n \in 1..Len(stack)
    PROVE  View(SubSeq(stack, 1, n)) = Over(View(SubSeq(stack, 1, n - 1)), stack[n])
<1>. DEFINE s == SubSeq(stack, 1, n)
<1>1. n \in 0..Len(stack) /\ n - 1 \in 0..n /\ n # 0 /\ n \in 1..n
  OBVIOUS
<1>2. s \in Seq(S) /\ Len(s) = n /\ s[n] = stack[n]
  BY <1>1, Cut
<1>3. Below(s, n) = SubSeq(stack, 1, n - 1)
  BY <1>1, CutCut DEF Below
<1>. HIDE DEF s
<1>4. View(s) = Over(View(Below(s, n)), s[n])
  BY <1>1, <1>2, ViewStep
<1>. QED  BY <1>2, <1>3, <1>4 DEF s

LEMMA OrdinaryDef ==
    ASSUME NEW S, NEW stack \in Seq(S)
    PROVE  Ordinary(stack) <=>
             \A n \in 1..Len(stack) :
                OrdinaryLayer(stack[n], View(SubSeq(stack, 1, n - 1)),
                              View(SubSeq(stack, 1, n)))
<1>1. DOMAIN stack = 1..Len(stack)
  OBVIOUS
<1>. QED  BY <1>1 DEF Ordinary, OrdinaryLayer

LEMMA OrdinaryBelow ==
    ASSUME NEW S, NEW stack \in Seq(S), Ordinary(stack), NEW n \in 0..Len(stack)
    PROVE  Ordinary(SubSeq(stack, 1, n))
<1>. DEFINE s == SubSeq(stack, 1, n)
<1>1. s \in Seq(S) /\ Len(s) = n /\ \A i \in 1..n : s[i] = stack[i]
  BY Cut
<1>2. \A i \in 1..n : i \in 1..Len(stack) /\ i \in 0..n /\ i - 1 \in 0..n
  OBVIOUS
<1>3. \A i \in 0..n : SubSeq(s, 1, i) = SubSeq(stack, 1, i)
  BY CutCut
<1>. HIDE DEF s
<1>4. ASSUME NEW i \in 1..n
      PROVE  OrdinaryLayer(s[i], View(SubSeq(s, 1, i - 1)), View(SubSeq(s, 1, i)))
  <2>1. OrdinaryLayer(stack[i], View(SubSeq(stack, 1, i - 1)), View(SubSeq(stack, 1, i)))
    BY <1>2, OrdinaryDef
  <2>. QED  BY <1>1, <1>2, <1>3, <2>1
<1>5. Ordinary(s)
  BY <1>1, <1>4, OrdinaryDef
<1>. QED  BY <1>5 DEF s

\* Ordinary layers, extracted over each other, make what their stack shows.
LEMMA OrdinaryUntar ==
    ASSUME NEW stack \in Seq(Seq(Stampeds)), Ordinary(stack)
    PROVE  /\ \A n \in 0..Len(stack) : View(SubSeq(stack, 1, n)) \in Trees
           /\ \A n \in 1..Len(stack) :
                 UntarLayer(View(SubSeq(stack, 1, n - 1)), stack[n])
                    = View(SubSeq(stack, 1, n))
<1>. DEFINE N == Len(stack)
            T(n) == View(SubSeq(stack, 1, n))
            P == {n \in 0..N : T(n) \in Trees}
<1>1. N \in Nat
  OBVIOUS
<1>2. ASSUME NEW n \in 1..N, T(n - 1) \in Trees
      PROVE  T(n) \in Trees /\ UntarLayer(T(n - 1), stack[n]) = T(n)
  <2>1. stack[n] \in Seq(Stampeds)
    OBVIOUS
  <2>2. T(n) = Over(T(n - 1), stack[n])
    BY ViewNext
  <2>3. OrdinaryLayer(stack[n], T(n - 1), T(n))
    BY OrdinaryDef
  <2>. HIDE DEF T
  <2>. QED  BY <1>2, <2>1, <2>2, <2>3, UntarOver
<1>3. 0 \in P /\ P \in SUBSET (0..N)
  <2>1. SubSeq(stack, 1, 0) = <<>>
    OBVIOUS
  <2>2. T(0) \in Trees
    BY <2>1, ViewNone, EmptyTrees
  <2>. HIDE DEF T
  <2>. QED  BY <1>1, <2>2
<1>. HIDE DEF T
<1>4. \A n \in 1..N : n - 1 \in P => n \in P
  BY <1>1, <1>2
<1>5. P = 0..N
  <2>. HIDE DEF P, N
  <2>. QED  BY <1>1, <1>3, <1>4, Induction
<1>6. \A n \in 0..N : T(n) \in Trees
  BY <1>5
<1>7. \A n \in 1..N : n - 1 \in 0..N
  BY <1>1
<1>8. \A n \in 1..N : UntarLayer(T(n - 1), stack[n]) = T(n)
  BY <1>2, <1>6, <1>7
<1>. QED  BY <1>6, <1>8 DEF T, N

\* Layers that are empty can be left out.
LEMMA OverNone ==
    ASSUME NEW stack, NEW L, DOMAIN L = {}
    PROVE  Over(View(stack), L) = View(stack)
<1>. DEFINE V == View(stack)
<1>1. V = [p \in DOMAIN V |-> V[p]]
  BY DEF View
<1>2. \A p : ~Has(L, p) /\ ~Hides(L, p)
  BY DEF Has, Hides
<1>3. {L[i].path : i \in {j \in DOMAIN L : Puts(L[j])}} = {}
  OBVIOUS
<1>. HIDE DEF V
<1>4. Over(V, L) = [p \in DOMAIN V |-> V[p]]
  BY <1>2, <1>3 DEF Over
<1>. QED  BY <1>1, <1>4 DEF V

LEMMA DropsLayers ==
    ASSUME NEW S, NEW M \in Seq(S), NEW O \in Seq(S),
           NEW h \in [0..Len(M) -> 0..Len(O)], NEW g \in [1..Len(O) -> 1..Len(M)],
           h[0] = 0, h[Len(M)] = Len(O),
           \A i \in 1..Len(M) : \/ h[i] = h[i - 1] + 1 /\ O[h[i]] = M[i]
                                \/ h[i] = h[i - 1] /\ DOMAIN M[i] = {},
           \A j \in 1..Len(O) : h[g[j]] = j /\ h[g[j] - 1] = j - 1
    PROVE  /\ View(M) = View(O)
           /\ Ordinary(M) => Ordinary(O)
<1>. DEFINE N == Len(M)
            VM(i) == View(SubSeq(M, 1, i))
            VO(j) == View(SubSeq(O, 1, j))
            P == {i \in 0..N : VM(i) = VO(h[i])}
<1>1. N \in Nat /\ Len(O) \in Nat /\ N \in 0..N
  OBVIOUS
<1>2. 0 \in P /\ P \in SUBSET (0..N)
  <2>1. SubSeq(M, 1, 0) = <<>> /\ SubSeq(O, 1, 0) = <<>>
    OBVIOUS
  <2>2. VM(0) = VO(h[0])
    BY <2>1
  <2>. HIDE DEF VM, VO
  <2>. QED  BY <1>1, <2>2
<1>3. ASSUME NEW i \in 1..N
      PROVE  /\ VM(i) = Over(VM(i - 1), M[i])
             /\ i - 1 \in 0..N /\ i \in 0..N
             /\ h[i - 1] \in 0..Len(O) /\ h[i] \in 0..Len(O)
  <2>1. i - 1 \in 0..N /\ i \in 0..N
    BY <1>1
  <2>. QED  BY <2>1, ViewNext
<1>4. ASSUME NEW j \in 1..Len(O)
      PROVE  VO(j) = Over(VO(j - 1), O[j])
  BY ViewNext
<1>5. ASSUME NEW i \in 1..N, VM(i - 1) = VO(h[i - 1])
      PROVE  VM(i) = VO(h[i])
  <2>1. CASE h[i] = h[i - 1] + 1 /\ O[h[i]] = M[i]
    <3>1. h[i] \in 1..Len(O) /\ h[i] - 1 = h[i - 1]
      BY <1>1, <1>3, <2>1
    <3>. HIDE DEF VM, VO, N
    <3>. QED  BY <1>3, <1>4, <1>5, <2>1, <3>1
  <2>2. CASE h[i] = h[i - 1] /\ DOMAIN M[i] = {}
    <3>1. Over(VM(i - 1), M[i]) = VM(i - 1)
      BY <2>2, OverNone
    <3>. HIDE DEF VM, VO, N
    <3>. QED  BY <1>3, <1>5, <2>2, <3>1
  <2>. QED  BY <2>1, <2>2
<1>. HIDE DEF VM, VO
<1>6. P = 0..N
  <2>1. \A i \in 1..N : i - 1 \in P => i \in P
    BY <1>3, <1>5
  <2>. HIDE DEF P, N
  <2>. QED  BY <1>1, <1>2, <2>1, Induction
<1>7. View(M) = View(O)
  <2>1. VM(N) = VO(h[N])
    BY <1>1, <1>6
  <2>. QED  BY <2>1, CutWhole DEF VM, VO
<1>8. ASSUME Ordinary(M), NEW j \in 1..Len(O)
      PROVE  OrdinaryLayer(O[j], VO(j - 1), VO(j))
  <2>. DEFINE i == g[j]
  <2>1. i \in 1..N /\ h[i] = j /\ h[i - 1] = j - 1 /\ j # j - 1
    OBVIOUS
  <2>. HIDE DEF i
  <2>2. O[j] = M[i]
    BY <2>1
  <2>3. i - 1 \in 0..N /\ i \in 0..N
    BY <1>3, <2>1
  <2>4. VM(i - 1) = VO(j - 1) /\ VM(i) = VO(j)
    BY <1>6, <2>1, <2>3
  <2>5. OrdinaryLayer(M[i], VM(i - 1), VM(i))
    BY <1>8, <2>1, OrdinaryDef DEF VM
  <2>. QED  BY <2>2, <2>4, <2>5
<1>9. Ordinary(M) => Ordinary(O)
  BY <1>8, OrdinaryDef DEF VO
<1>. QED  BY <1>7, <1>9

-----------------------------------------------------------------------------
(* The merged folder *)

\* The lowest n layers in the order o, with what they hold by c.
Lowers(c, o, n) == [i \in 1..n |-> Stamped(c[o[i]], o[i])]

Known(c, o, n) == \A i \in 1..n : c[o[i]] # Unknown

LEMMA LowersType ==
    ASSUME NEW c \in [Digests -> Contents \cup {Unknown}], NEW o \in Seq(Digests),
           NEW n \in 0..Len(o), Known(c, o, n)
    PROVE  /\ Lowers(c, o, n) \in Seq(Seq(Stampeds)) /\ Len(Lowers(c, o, n)) = n
           /\ \A i \in 1..n : Lowers(c, o, n)[i] = Stamped(c[o[i]], o[i])
<1>1. n \in Nat
  OBVIOUS
<1>2. ASSUME NEW i \in 1..n PROVE Stamped(c[o[i]], o[i]) \in Seq(Stampeds)
  <2>1. o[i] \in Digests
    OBVIOUS
  <2>2. c[o[i]] \in Contents
    BY <2>1 DEF Known
  <2>. QED  BY <2>1, <2>2, HubAssumption, StampedType
<1>3. Lowers(c, o, n) \in [1..n -> Seq(Stampeds)]
  BY <1>2 DEF Lowers
<1>. QED  BY <1>1, <1>3 DEF Lowers

LEMMA LowersCut ==
    ASSUME NEW c, NEW o \in Seq(Digests), NEW n \in 0..Len(o), NEW m \in 0..n
    PROVE  SubSeq(Lowers(c, o, n), 1, m) = Lowers(c, o, m)
<1>. DEFINE S == {Stamped(c[o[i]], o[i]) : i \in 1..n}
            s == Lowers(c, o, n)
<1>1. n \in Nat /\ \A i \in 1..m : i \in 1..n
  OBVIOUS
<1>2. s \in [1..n -> S] /\ \A i \in 1..n : s[i] = Stamped(c[o[i]], o[i])
  BY DEF Lowers
<1>3. s \in Seq(S) /\ Len(s) = n
  BY <1>1, <1>2
<1>. HIDE DEF s, S
<1>4. /\ SubSeq(s, 1, m) \in Seq(S) /\ Len(SubSeq(s, 1, m)) = m
      /\ \A i \in 1..m : SubSeq(s, 1, m)[i] = s[i]
  BY <1>3, Cut
<1>5. SubSeq(s, 1, m) = [i \in 1..m |-> s[i]]
  BY <1>4
<1>6. Lowers(c, o, m) = [i \in 1..m |-> s[i]]
  BY <1>1, <1>2 DEF Lowers
<1>. QED  BY <1>5, <1>6 DEF s

LEMMA StackLowers ==
    ASSUME NEW n \in 0..Len(order), order \in Seq(Digests)
    PROVE  Stack(SubSeq(order, 1, n)) = Lowers(content, order, n)
<1>. DEFINE s == SubSeq(order, 1, n)
<1>1. s \in Seq(Digests) /\ Len(s) = n /\ \A i \in 1..n : s[i] = order[i]
  BY Cut
<1>. HIDE DEF s
<1>2. DOMAIN s = 1..n
  BY <1>1
<1>3. Stack(s) = [i \in 1..n |-> Stamped(content[s[i]], s[i])]
  BY <1>2 DEF Stack
<1>4. Stack(s) = Lowers(content, order, n)
  BY <1>1, <1>3 DEF Lowers
<1>. QED  BY <1>4 DEF s

\* The next layer, looked into for the first time or again, leaves those below it
\* what they are, and makes of their tree what it shows over them.
LEMMA NextLowers ==
    ASSUME NEW c \in [Digests -> Contents \cup {Unknown}], NEW o \in Seq(Digests),
           NEW n \in 1..Len(o), Known(c, o, n - 1), NEW layer \in Contents,
           c[o[n]] \in {Unknown, layer}
    PROVE  LET new == [c EXCEPT ![o[n]] = layer]
               low == Lowers(c, o, n - 1)
               top == Lowers(new, o, n)
           IN /\ Known(new, o, n)
              /\ Ordinary(top) =>
                    /\ Ordinary(low)
                    /\ View(top) = UntarLayer(View(low), Stamped(layer, o[n]))
                    /\ View(top) \in Trees
<1>. DEFINE d == o[n]
            new == [c EXCEPT ![d] = layer]
            low == Lowers(c, o, n - 1)
            top == Lowers(new, o, n)
<1>1. /\ d \in Digests /\ n - 1 \in 0..n /\ n \in 0..Len(o) /\ n \in 1..n /\ n \in Nat
      /\ \A i \in 1..n : i = n \/ i \in 1..(n - 1)
      /\ \A i \in 1..n : o[i] \in Digests
  OBVIOUS
<1>2. new \in [Digests -> Contents \cup {Unknown}] /\ new[d] = layer
      /\ \A e \in Digests : e # d => new[e] = c[e]
  BY <1>1
<1>3. \A i \in 1..(n - 1) : i \in 1..n /\ new[o[i]] = c[o[i]]
  BY <1>1, <1>2 DEF Known
<1>. HIDE DEF new
<1>4. Known(new, o, n)
  BY <1>1, <1>2, <1>3, HubAssumption DEF Known
<1>5. low = Lowers(new, o, n - 1)
  BY <1>3 DEF Lowers
<1>6. SubSeq(top, 1, n - 1) = low
  BY <1>1, <1>5, LowersCut
<1>7. /\ top \in Seq(Seq(Stampeds)) /\ Len(top) = n
      /\ top[n] = Stamped(layer, d)
  BY <1>1, <1>2, <1>4, LowersType
<1>. HIDE DEF top, low
<1>8. SubSeq(top, 1, n) = top
  BY <1>7, CutWhole
<1>9. ASSUME Ordinary(top)
      PROVE  /\ Ordinary(low) /\ View(top) \in Trees
             /\ View(top) = UntarLayer(View(low), Stamped(layer, d))
  <2>1. Ordinary(SubSeq(top, 1, n - 1))
    <3>1. n - 1 \in 0..Len(top)
      BY <1>1, <1>7
    <3>. QED  BY <1>7, <1>9, <3>1, OrdinaryBelow
  <2>2. View(SubSeq(top, 1, n)) \in Trees
    BY <1>1, <1>7, <1>9, OrdinaryUntar
  <2>3. UntarLayer(View(SubSeq(top, 1, n - 1)), top[n]) = View(SubSeq(top, 1, n))
    BY <1>1, <1>7, <1>9, OrdinaryUntar
  <2>. QED  BY <1>6, <1>7, <1>8, <2>1, <2>2, <2>3
<1>. QED  BY <1>4, <1>9 DEF top, low, new

Early == {"start", "ping", "page", "manifest", "blob", "file", "copy"}

\* The folder shows what the layers extracted so far do, if these are ordinary; an
\* extraction that failed has met one that is not.
MergedInv ==
    /\ pc \in Early => tree = EmptyTree
    /\ pc = "untar" =>
          /\ Known(content, order, k - 1)
          /\ Ordinary(Lowers(content, order, k - 1)) =>
                tree = View(Lowers(content, order, k - 1))
    /\ pc = "setting" =>
          /\ Known(content, order, Len(order))
          /\ Ordinary(Lowers(content, order, Len(order))) =>
                tree = View(Lowers(content, order, Len(order)))
    /\ tree = Bad =>
          /\ pc = "failed" /\ k \in DOMAIN order
          /\ ~Ordinary(Lowers(content, order, k))

\* Steps that leave the folder alone.
LEMMA MergedQuiet ==
    ASSUME MergedInv, pc # "failed", tree' = tree, pc' \notin {"untar", "setting"},
           pc' \in Early => pc \in Early
    PROVE  MergedInv'
BY DEF MergedInv

LEMMA MergedSame ==
    ASSUME MergedInv, UNCHANGED <<pc, merge>>
    PROVE  MergedInv'
<1>1. UNCHANGED <<pc, tree, content, order, k>>
  BY DEF merge
<1>. QED  BY <1>1 DEF MergedInv

\* The first layer is the next to be extracted.
LEMMA MergedBegins ==
    ASSUME MergedInv, pc \in Early, tree' = tree, pc' = "untar", k' = 1
    PROVE  MergedInv'
<1>1. tree' = EmptyTree /\ k' - 1 = 0 /\ 1..0 = {}
  BY DEF MergedInv
<1>2. Known(content', order', 0) /\ Lowers(content', order', 0) = <<>>
  BY <1>1 DEF Known, Lowers
<1>3. EmptyTree # Bad
  BY EmptyTrees, TreeFacts
<1>. QED  BY <1>1, <1>2, <1>3, ViewNone DEF MergedInv, Early

LEMMA MergedUntar ==
    ASSUME DownloadTyped, TreeTyped, MergedInv, UntarNext
    PROVE  MergedInv'
<1>. DEFINE d == order[k]
<1>1. /\ pc = "untar" /\ order \in Seq(Digests) /\ k \in 1..Len(order)
      /\ k - 1 \in 0..Len(order) /\ Len(order) \in Nat /\ order' = order
  BY DEF UntarNext, DownloadTyped
<1>2. PICK layer \in Contents :
         /\ content[d] \in {Unknown, layer}
         /\ content' = [content EXCEPT ![d] = layer]
         /\ tree' = UntarLayer(tree, Stamped(layer, d))
  BY DEF UntarNext, NextLayer
<1>3. /\ content \in [Digests -> Contents \cup {Unknown}]
      /\ Known(content, order, k - 1)
      /\ Ordinary(Lowers(content, order, k - 1)) =>
            tree = View(Lowers(content, order, k - 1))
  BY <1>1 DEF TreeTyped, MergedInv
<1>. DEFINE top == Lowers(content', order, k)
<1>4. /\ Known(content', order, k)
      /\ Ordinary(top) => tree' = View(top) /\ View(top) \in Trees
  BY <1>1, <1>2, <1>3, NextLowers
<1>5. tree' = Bad => ~Ordinary(top)
  BY <1>4, TreeFacts
<1>. HIDE DEF top
<1>6. CASE tree' = Bad
  <2>1. pc' = "failed" /\ k' = k
    BY <1>6 DEF UntarNext
  <2>. QED  BY <1>1, <1>5, <1>6, <2>1 DEF MergedInv, Early, top
<1>7. CASE tree' # Bad /\ k < Len(order)
  <2>1. pc' = "untar" /\ k' = k + 1 /\ k' - 1 = k
    BY <1>1, <1>7 DEF UntarNext
  <2>. QED  BY <1>1, <1>4, <1>7, <2>1 DEF MergedInv, Early, top
<1>8. CASE tree' # Bad /\ ~(k < Len(order))
  <2>1. pc' = "setting" /\ k = Len(order)
    <3>1. pc' = "setting"
      BY <1>8 DEF UntarNext
    <3>2. \A a, b \in Nat : a \in 1..b /\ ~(a < b) => a = b
      OBVIOUS
    <3>3. k = Len(order)
      BY <1>1, <1>8, <3>2
    <3>. QED  BY <3>1, <3>3
  <2>. QED  BY <1>1, <1>4, <1>8, <2>1 DEF MergedInv, Early, top
<1>. QED  BY <1>6, <1>7, <1>8

LEMMA MergedStep == DownloadTyped /\ TreeTyped /\ MergedInv /\ [Next]_vars => MergedInv'
<1>. SUFFICES ASSUME DownloadTyped, TreeTyped, MergedInv, [Next]_vars
              PROVE  MergedInv'
  OBVIOUS
<1>. USE DEF merge
<1>1. CASE StartSearch
  <2>1. pc # "failed" /\ tree' = tree /\ pc' = "ping" /\ pc \in Early
    BY <1>1 DEF StartSearch, Early
  <2>. QED  BY <2>1, MergedQuiet
<1>2. CASE StartMerge
  <2>1. pc = "start" /\ tree' = tree /\ k' = 1 /\ pc' \in {"untar", "ping"}
    BY <1>2 DEF StartMerge, DownloadTyped
  <2>2. pc \in Early /\ pc # "failed"
    BY <2>1 DEF Early
  <2>. QED  BY <2>1, <2>2, MergedQuiet, MergedBegins
<1>3. CASE Sends \/ Transport
  BY <1>3, MergedSame DEF Sends, Transport
<1>4. CASE CallFails \/ NoHost
  <2>1. pc # "failed" /\ tree' = tree /\ pc' = "failed"
    BY <1>4 DEF CallFails, NoHost, Fail
  <2>. QED  BY <2>1, MergedQuiet DEF Early
<1>5. CASE Pinged \/ Page \/ Manifest \/ Blob
  <2>1. pc \in Early /\ pc # "failed" /\ tree' = tree
    BY <1>5 DEF Pinged, Page, Manifest, Blob, Early
  <2>2. pc' \notin {"untar", "setting"}
    BY <1>5 DEF Pinged, Page, Manifest, Blob
  <2>. QED  BY <2>1, <2>2, MergedQuiet
<1>6. CASE LookForFile \/ Copy
  <2>1. pc \in Early /\ pc # "failed" /\ tree' = tree
    BY <1>6 DEF LookForFile, Copy, Early
  <2>2. pc' \notin {"untar", "setting"} \/ (pc' = "untar" /\ k' = 1)
    BY <1>6 DEF LookForFile, Copy, Advance
  <2>. QED  BY <2>1, <2>2, MergedQuiet, MergedBegins
<1>7. CASE UntarNext
  BY <1>7, MergedUntar
<1>8. CASE UntarFails
  <2>1. pc # "failed" /\ tree' = tree /\ pc' = "failed"
    BY <1>8 DEF UntarFails
  <2>. QED  BY <2>1, MergedQuiet DEF Early
<1>9. CASE Choose \/ Tar
  <2>1. pc # "failed" /\ tree' = tree /\ pc' \in {"release", "done"}
    BY <1>9 DEF Choose, Tar
  <2>. QED  BY <2>1, MergedQuiet DEF Early
<1>10. ASSUME NEW a \in Addresses, Fetch(a)
       PROVE  MergedInv'
  <2>1. pc # "failed" /\ tree' = tree
    BY <1>10 DEF Fetch, Addresses
  <2>2. pc' \in {"tar", "distro", "default", "failed"}
    BY <1>10 DEF Fetch, Addresses, AfterCut, Fallback
  <2>. QED  BY <2>1, <2>2, MergedQuiet DEF Early
<1>11. CASE UNCHANGED vars
  BY <1>11, MergedSame DEF vars
<1>. QED
  BY <1>1, <1>2, <1>3, <1>4, <1>5, <1>6, <1>7, <1>8, <1>9, <1>10, <1>11 DEF Next

LEMMA MergedHolds == DownloadTyped /\ TreeTyped /\ MergedInv => MergedAsLayered
<1>. SUFFICES ASSUME DownloadTyped, TreeTyped, MergedInv
              PROVE  MergedAsLayered
  OBVIOUS
<1>0. order \in Seq(Digests) /\ Len(order) \in Nat
  BY DEF DownloadTyped
<1>1. ASSUME pc = "setting", RepeatsEmpty, Ordinary(Stack(man))
      PROVE  tree = View(Stack(man))
  <2>. DEFINE M == Stack(man)
              N == Len(order)
              O == Lowers(content, order, N)
              S == {Stamped(content[d], d) : d \in Digests}
  <2>1. man \in Manifests /\ Drops(man, Len(man), order)
    BY <1>1 DEF DownloadTyped, Untarred
  <2>2. man \in Seq(Digests) /\ DOMAIN man = 1..Len(man) /\ Len(man) \in Nat
    BY <2>1, ManifestFacts
  <2>3. /\ M \in [1..Len(man) -> S]
        /\ \A i \in 1..Len(man) : M[i] = Stamped(content[man[i]], man[i])
    BY <2>2 DEF Stack
  <2>4. /\ O \in [1..N -> S]
        /\ \A i \in 1..N : O[i] = Stamped(content[order[i]], order[i])
    BY <1>0 DEF Lowers
  <2>5. PICK h \in [0..Len(man) -> 0..N], g \in [1..N -> 1..Len(man)] :
           /\ h[0] = 0 /\ h[Len(man)] = N
           /\ \A i \in 1..Len(man) :
                 \/ h[i] = h[i - 1] + 1 /\ order[h[i]] = man[i]
                 \/ h[i] = h[i - 1] /\ \E j \in 1..(i - 1) : man[j] = man[i]
           /\ \A j \in 1..N : h[g[j]] = j /\ h[g[j] - 1] = j - 1
    BY <2>1 DEF Drops
  <2>. HIDE DEF M, O, S, N
  <2>6. /\ N \in Nat
        /\ M \in Seq(S) /\ Len(M) = Len(man) /\ O \in Seq(S) /\ Len(O) = N
    <3>1. N \in Nat
      BY <1>0 DEF N
    <3>2. \A n \in Nat : \A s \in [1..n -> S] : s \in Seq(S) /\ Len(s) = n
      OBVIOUS
    <3>. QED  BY <2>2, <2>3, <2>4, <3>1, <3>2
  <2>7. ASSUME NEW i \in 1..Len(man)
        PROVE  \/ h[i] = h[i - 1] + 1 /\ O[h[i]] = M[i]
               \/ h[i] = h[i - 1] /\ DOMAIN M[i] = {}
    <3>1. CASE h[i] = h[i - 1] + 1 /\ order[h[i]] = man[i]
      <4>1. i - 1 \in 0..Len(man) /\ i \in 0..Len(man)
        BY <2>2
      <4>2. h[i - 1] \in 0..N /\ h[i] \in 0..N
        BY <2>5, <4>1
      <4>3. h[i] \in 1..N
        BY <2>6, <3>1, <4>2
      <4>. QED  BY <2>3, <2>4, <3>1, <4>3
    <3>2. CASE h[i] = h[i - 1] /\ \E j \in 1..(i - 1) : man[j] = man[i]
      <4>1. PICK j \in 1..(i - 1) : man[j] = man[i]
        BY <3>2
      <4>2. j \in DOMAIN man /\ i \in DOMAIN man /\ j < i
        BY <2>2
      <4>3. content[man[i]] = <<>>
        BY <1>1, <4>1, <4>2 DEF RepeatsEmpty
      <4>4. DOMAIN M[i] = {}
        BY <2>3, <4>3 DEF Stamped
      <4>. QED  BY <3>2, <4>4
    <3>. QED  BY <2>5, <3>1, <3>2
  <2>8. View(M) = View(O) /\ (Ordinary(M) => Ordinary(O))
    <3>1. /\ h \in [0..Len(M) -> 0..Len(O)] /\ g \in [1..Len(O) -> 1..Len(M)]
          /\ h[0] = 0 /\ h[Len(M)] = Len(O)
          /\ \A j \in 1..Len(O) : h[g[j]] = j /\ h[g[j] - 1] = j - 1
      BY <2>5, <2>6
    <3>2. \A i \in 1..Len(M) : \/ h[i] = h[i - 1] + 1 /\ O[h[i]] = M[i]
                               \/ h[i] = h[i - 1] /\ DOMAIN M[i] = {}
      BY <2>6, <2>7
    <3>. QED  BY <2>6, <3>1, <3>2, DropsLayers
  <2>9. Ordinary(O) => tree = View(O)
    BY <1>1 DEF MergedInv, O, N
  <2>. QED  BY <1>1, <2>8, <2>9 DEF M
<1>2. ASSUME tree = Bad PROVE ~Ordinary(Stack(SubSeq(order, 1, k)))
  <2>1. k \in DOMAIN order /\ ~Ordinary(Lowers(content, order, k))
    BY <1>2 DEF MergedInv
  <2>2. k \in 0..Len(order)
    BY <1>0, <2>1
  <2>. QED  BY <1>0, <2>1, <2>2, StackLowers
<1>. QED  BY <1>1, <1>2 DEF MergedAsLayered

\* Where layers have nothing that UntarLayer takes for something else, and only
\* empty ones are listed twice, the merged folder shows what the stack of layers
\* does, whatever they hold, and none of them is refused (DownloadLayers,
\* UntarLayer).
THEOREM MergesLayers == Spec => []MergedAsLayered
<1>1. Init => DownloadTyped /\ TreeTyped /\ MergedInv
  <2>1. EmptyTree # Bad
    BY EmptyTrees, TreeFacts
  <2>. QED  BY <2>1, TypedInit DEF Init, MergedInv, Early
<1>. QED
  BY <1>1, MergedHolds, DownloadTypedStep, TreeTypedStep, MergedStep, PTL DEF Spec

-----------------------------------------------------------------------------
(* The tarball *)

LEMMA UntarNone ==
    ASSUME NEW t \in Trees
    PROVE  UntarLayer(t, <<>>) = t
<1>. DEFINE none == <<>>
<1>1. none \in Seq(Stampeds) /\ Len(none) = 0
  OBVIOUS
<1>. HIDE DEF none
<1>2. PICK after \in [0..Len(none) -> Trees \cup {Bad}] :
         after[0] = t /\ UntarLayer(t, none) = after[Len(none)]
  <2>1. t \in Trees \cup {Bad} /\ none \in Seq(Stampeds)
    BY <1>1
  <2>2. \E after \in [0..Len(none) -> Trees \cup {Bad}] :
           /\ after[0] = t
           /\ \A n \in 1..Len(none) : after[n] = Extract(after[n - 1], none[n])
           /\ UntarLayer(t, none) = after[Len(none)]
    BY <2>1, UntarRec, Zenon
  <2>. QED  BY <2>2, Zenon
<1>3. UntarLayer(t, none) = t
  BY <1>1, <1>2
<1>. QED  BY <1>3 DEF none

LEMMA UntarAppend ==
    ASSUME NEW t \in Trees, NEW s \in Seq(Stampeds), NEW e \in Stampeds
    PROVE  UntarLayer(t, Append(s, e)) = Extract(UntarLayer(t, s), e)
<1>. DEFINE N == Len(s)
            new == Append(s, e)
<1>1. /\ N \in Nat /\ new \in Seq(Stampeds) /\ Len(new) = N + 1 /\ new[N + 1] = e
      /\ \A i \in 1..N : new[i] = s[i]
  BY AppendFacts
<1>2. PICK f \in [0..N -> Trees \cup {Bad}] :
         /\ f[0] = t /\ \A n \in 1..N : f[n] = Extract(f[n - 1], s[n])
         /\ UntarLayer(t, s) = f[N]
  BY UntarRec
<1>3. PICK g \in [0..(N + 1) -> Trees \cup {Bad}] :
         /\ g[0] = t /\ \A n \in 1..(N + 1) : g[n] = Extract(g[n - 1], new[n])
         /\ UntarLayer(t, new) = g[N + 1]
  <2>. HIDE DEF new
  <2>. QED  BY <1>1, UntarRec
<1>. HIDE DEF new, N
<1>. DEFINE P == {n \in 0..N : g[n] = f[n]}
<1>4. 0 \in P /\ P \in SUBSET (0..N)
  BY <1>1, <1>2, <1>3
<1>5. ASSUME NEW n \in 1..N, n - 1 \in P PROVE n \in P
  <2>1. n \in 1..(N + 1) /\ n \in 0..N /\ g[n - 1] = f[n - 1] /\ new[n] = s[n]
    BY <1>1, <1>5
  <2>2. g[n] = Extract(g[n - 1], new[n]) /\ f[n] = Extract(f[n - 1], s[n])
    BY <1>2, <1>3, <2>1
  <2>. QED  BY <2>1, <2>2
<1>6. P = 0..N
  <2>. HIDE DEF P
  <2>. QED  BY <1>1, <1>4, <1>5, Induction
<1>7. N \in 0..N /\ N + 1 \in 1..(N + 1) /\ N + 1 - 1 = N
  BY <1>1
<1>8. g[N + 1] = Extract(f[N], e)
  BY <1>1, <1>3, <1>6, <1>7
<1>. QED  BY <1>2, <1>3, <1>8 DEF new

LEMMA LowerNot ==
    ASSUME NEW p \in Paths
    PROVE  ~Lower(p, p)
<1>1. Len(p) \in Nat /\ \A i \in 1..Len(p) : p[i] \in Nat
  BY PathNames
<1>2. \A i \in 1..Len(p) : ~(i = Len(p) + 1) /\ ~(p[i] < p[i])
  BY <1>1
<1>. QED  BY <1>2, LowerDef

LEMMA LowerFolder ==
    ASSUME NEW p \in Paths, Front(p) \in Paths
    PROVE  Lower(Front(p), p)
<1>. DEFINE d == Front(p)
            i == Len(d) + 1
<1>1. /\ Len(p) \in Nat \ {0} /\ Len(d) = Len(p) - 1
      /\ \A j \in 1..(Len(p) - 1) : d[j] = p[j]
  BY PathFacts, FrontDef
<1>. HIDE DEF d
<1>2. i \in 1..Len(p) /\ \A j \in 1..(i - 1) : j <= Len(d) /\ d[j] = p[j]
  BY <1>1
<1>3. Lower(d, p)
  BY <1>2, LowerDef DEF d
<1>. QED  BY <1>3 DEF d

\* The first n paths of a walk over a tree, and what stands there.
Walked(t, n) == {Walk(DOMAIN t)[i] : i \in 1..n}

Part(t, n) == [p \in Walked(t, n) |-> t[p]]

\* Before a walk comes to a path it has been to its folder, and not to the path.
LEMMA WalkedFolder ==
    ASSUME NEW t \in Trees, NEW n \in 1..Len(Walk(DOMAIN t))
    PROVE  LET p == Walk(DOMAIN t)[n]
           IN /\ p \in DOMAIN t /\ p \in Paths
              /\ p \notin Walked(t, n - 1)
              /\ Walked(t, n) = Walked(t, n - 1) \cup {p}
              /\ Walked(t, n - 1) \subseteq DOMAIN t
              /\ IsDir(Part(t, n - 1), Front(p))
<1>. DEFINE walk == Walk(DOMAIN t)
            N == Len(walk)
            p == walk[n]
            d == Front(p)
<1>1. /\ DOMAIN t \in SUBSET Paths /\ IsFiniteSet(DOMAIN t) /\ Closed(t)
  BY TreeFacts
<1>2. /\ walk \in Seq(DOMAIN t) /\ N \in Nat
      /\ \A i, j \in 1..N : i < j => Lower(walk[i], walk[j])
      /\ \A q \in DOMAIN t : \E i \in 1..N : walk[i] = q
  BY <1>1, WalkFacts
<1>3. \A i \in 1..N : walk[i] \in DOMAIN t
  BY <1>2
<1>. HIDE DEF walk, N
<1>4. /\ n \in 1..N /\ n \in Nat /\ p \in DOMAIN t /\ p \in Paths
      /\ \A i \in 1..(n - 1) : i \in 1..N /\ i < n
      /\ \A i : i \in 1..n <=> i \in 1..(n - 1) \/ i = n
  <2>1. n \in 1..N
    BY DEF N, walk
  <2>2. p \in DOMAIN t /\ p \in Paths
    BY <1>1, <1>3, <2>1
  <2>. HIDE DEF p
  <2>. QED  BY <1>2, <2>1, <2>2
<1>. HIDE DEF p
<1>5. p \notin Walked(t, n - 1)
  <2>1. ASSUME NEW i \in 1..(n - 1), walk[i] = p PROVE FALSE
    <3>1. Lower(p, p)
      BY <1>2, <1>4, <2>1 DEF p
    <3>. QED  BY <1>4, <3>1, LowerNot
  <2>. QED  BY <2>1 DEF Walked, walk
<1>6. Walked(t, n) = Walked(t, n - 1) \cup {p} /\ Walked(t, n - 1) \subseteq DOMAIN t
  BY <1>3, <1>4 DEF Walked, walk, p
<1>7. IsDir(Part(t, n - 1), d)
  <2>1. CASE d = NoPath
    BY <2>1 DEF IsDir
  <2>2. CASE d # NoPath
    <3>1. d \in DOMAIN t /\ t[d].kind = "dir" /\ d \in Paths /\ d # p
      <4>1. IsDir(t, d)
        BY <1>1, <1>4 DEF Closed
      <4>. QED  BY <1>1, <1>4, <2>2, <4>1, PathFacts DEF IsDir
    <3>2. PICK j \in 1..N : walk[j] = d
      BY <1>2, <3>1
    <3>3. Lower(d, p)
      BY <1>4, <3>1, LowerFolder
    <3>. HIDE DEF d
    <3>4. ~(n < j)
      <4>1. ASSUME n < j PROVE Lower(p, p)
        <5>1. Lower(p, d)
          BY <1>2, <1>4, <3>2, <4>1 DEF p
        <5>. QED  BY <1>4, <3>1, <3>3, <5>1, LowerTransitive
      <4>. QED  BY <1>4, <4>1, LowerNot
    <3>5. j # n
      BY <3>1, <3>2 DEF p
    <3>6. j \in 1..(n - 1)
      <4>1. \A a, b \in Nat : a \in 1..N /\ ~(b < a) /\ a # b => a \in 1..(b - 1)
        BY <1>2
      <4>2. j \in Nat
        BY <1>2
      <4>. QED  BY <1>4, <3>4, <3>5, <4>1, <4>2
    <3>7. d \in Walked(t, n - 1)
      BY <3>2, <3>6 DEF Walked, walk
    <3>. QED  BY <3>1, <3>7 DEF Part, IsDir
  <2>. QED  BY <2>1, <2>2
<1>. QED  BY <1>4, <1>5, <1>6, <1>7 DEF p, walk

\* A header puts to an empty place in a folder what stands there in the tree.
LEMMA HeaderPuts ==
    ASSUME NEW u \in Trees, NEW p \in Paths, NEW node \in Nodes, NEW kind,
           NEW to \in Seq(Names), NEW data,
           p \notin DOMAIN u, IsDir(u, Front(p)),
           Entry(kind, p, to, data) \in Stampeds, kind # "hard",
           NodeOf(Entry(kind, p, to, data)) = node
    PROVE  /\ Extract(u, Entry(kind, p, to, data)) = With(u, p, node)
           /\ With(u, p, node) \in Trees
<1>. DEFINE e == Entry(kind, p, to, data)
<1>1. e.mark = "plain" /\ e.kind # "hard" /\ e.path = p
  BY DEF Entry
<1>2. ~IsDir(u, p)
  BY PathFacts DEF IsDir
<1>. HIDE DEF e
<1>3. Extract(u, e) = With(u, p, node)
  BY <1>1, Extracted DEF e
<1>. QED  BY <1>2, <1>3, WithTree DEF e

LEMMA PartStep ==
    ASSUME NEW t \in Trees, NEW n \in 1..Len(Walk(DOMAIN t)),
           Part(t, n - 1) \in Trees, NEW s \in Seq(Stampeds),
           UntarLayer(EmptyTree, s) = Part(t, n - 1)
    PROVE  /\ UntarLayer(EmptyTree, s \o Headers(t, Walk(DOMAIN t)[n])) = Part(t, n)
           /\ Part(t, n) \in Trees
<1>. DEFINE p == Walk(DOMAIN t)[n]
            u == Part(t, n - 1)
            w == Part(t, n)
<1>1. /\ p \in DOMAIN t /\ p \in Paths
      /\ p \notin Walked(t, n - 1)
      /\ Walked(t, n) = Walked(t, n - 1) \cup {p}
      /\ Walked(t, n - 1) \subseteq DOMAIN t
      /\ IsDir(u, Front(p))
  BY WalkedFolder
<1>. HIDE DEF p
<1>2. p \notin DOMAIN u
  BY <1>1 DEF Part
<1>3. With(u, p, t[p]) = w
  BY <1>1 DEF Part, With
<1>4. t[p] \in Nodes /\ p \in Seq(Names) /\ NoPath \in Seq(Names)
  BY <1>1, TreeFacts, PathFacts DEF NoPath
<1>. HIDE DEF u, w
<1>5. u \in Trees /\ UntarLayer(EmptyTree, s) = u
  BY DEF u
<1>6. /\ Headers(t, p) \in Seq(Stampeds)
      /\ t[p].kind = "dir" => Headers(t, p) = <<Entry("dir", p, NoPath, NoData)>>
      /\ t[p].kind = "file" => Headers(t, p) = <<Entry("reg", p, NoPath, t[p].data)>>
      /\ t[p].kind = "link" => Headers(t, p) = <<Entry("link", p, t[p].to, NoData),
                                                 Entry("link", p, p, NoData)>>
      /\ t[p].kind \in {"dir", "file", "link"}
  BY <1>1, HeadersType
<1>7. ASSUME NEW e \in Stampeds
      PROVE  UntarLayer(EmptyTree, s \o <<e>>) = Extract(u, e)
  <2>1. s \o <<e>> = Append(s, e)
    OBVIOUS
  <2>. QED  BY <1>5, <2>1, EmptyTrees, UntarAppend
<1>. DEFINE Found(e) == e \in Stampeds
<1>8. /\ \A e : <<e>> \in Seq(Stampeds) => Found(e)
      /\ \A e, f : <<e, f>> \in Seq(Stampeds) => Found(e) /\ Found(f)
  <2>1. ASSUME NEW e, <<e>> \in Seq(Stampeds) PROVE Found(e)
    <3>1. <<e>>[1] = e /\ Len(<<e>>) = 1
      OBVIOUS
    <3>. QED  BY <2>1, <3>1
  <2>2. ASSUME NEW e, NEW f, <<e, f>> \in Seq(Stampeds) PROVE Found(e) /\ Found(f)
    <3>1. <<e, f>>[1] = e /\ <<e, f>>[2] = f /\ Len(<<e, f>>) = 2
      OBVIOUS
    <3>. QED  BY <2>2, <3>1
  <2>. HIDE DEF Found
  <2>. QED  BY <2>1, <2>2
<1>9. CASE t[p].kind = "dir"
  <2>. DEFINE e == Entry("dir", p, NoPath, NoData)
  <2>1. Headers(t, p) = <<e>> /\ e \in Stampeds
    BY <1>6, <1>8, <1>9
  <2>2. NodeOf(e) = t[p]
    BY <1>4, <1>9, NodeFacts DEF NodeOf, Entry
  <2>3. Extract(u, e) = w /\ w \in Trees
    BY <1>1, <1>2, <1>3, <1>4, <1>5, <2>1, <2>2, HeaderPuts
  <2>. HIDE DEF e
  <2>. QED  BY <1>7, <2>1, <2>3 DEF p, w
<1>10. CASE t[p].kind = "file"
  <2>. DEFINE e == Entry("reg", p, NoPath, t[p].data)
  <2>1. Headers(t, p) = <<e>> /\ e \in Stampeds
    BY <1>6, <1>8, <1>10
  <2>2. NodeOf(e) = t[p]
    BY <1>4, <1>10, NodeFacts DEF NodeOf, Entry
  <2>3. Extract(u, e) = w /\ w \in Trees
    BY <1>1, <1>2, <1>3, <1>4, <1>5, <2>1, <2>2, HeaderPuts
  <2>. HIDE DEF e
  <2>. QED  BY <1>7, <2>1, <2>3 DEF p, w
<1>11. CASE t[p].kind = "link"
  <2>. DEFINE e == Entry("link", p, t[p].to, NoData)
              f == Entry("link", p, p, NoData)
  <2>1. Headers(t, p) = <<e, f>> /\ e \in Stampeds /\ f \in Stampeds
    <3>1. Headers(t, p) = <<e, f>>
      BY <1>6, <1>11
    <3>. HIDE DEF e, f, Found
    <3>2. <<e, f>> \in Seq(Stampeds)
      BY <1>6, <3>1
    <3>3. Found(e) /\ Found(f)
      BY <1>8, <3>2
    <3>. QED  BY <3>1, <3>3 DEF Found
  <2>2. NodeOf(e) = t[p] /\ t[p].to \in Seq(Names)
    BY <1>4, <1>11, NodeFacts DEF NodeOf, Entry
  <2>3. Extract(u, e) = w /\ w \in Trees
    BY <1>1, <1>2, <1>3, <1>4, <1>5, <2>1, <2>2, HeaderPuts
  <2>4. Extract(w, f) = w
    <3>1. p \in DOMAIN w
      BY <1>3 DEF With
    <3>2. IsDir(w, Front(p)) /\ w # Bad
      BY <2>3, <3>1, TreeFacts DEF Closed
    <3>3. Place(w, p) = p
      BY <1>1, <2>3, <3>2, PlainPlace
    <3>4. Extract(w, f) = Symlink(w, p, p)
      BY <3>2 DEF Extract, Entry, Leads
    <3>. QED  BY <3>1, <3>3, <3>4 DEF Symlink
  <2>. HIDE DEF e, f
  <2>5. s \o <<e, f>> = Append(s \o <<e>>, f) /\ s \o <<e>> \in Seq(Stampeds)
    BY <2>1
  <2>6. UntarLayer(EmptyTree, s \o <<e, f>>) = w
    <3>1. s \o <<e>> = Append(s, e) /\ s \in Seq(Stampeds)
      BY <1>7
    <3>2. UntarLayer(EmptyTree, s \o <<e>>) = w
      BY <1>7, <2>1, <2>3, <3>1, EmptyTrees, UntarAppend
    <3>. QED  BY <2>1, <2>4, <2>5, <3>2, EmptyTrees, UntarAppend
  <2>. QED  BY <2>1, <2>3, <2>6 DEF p, w
<1>. QED  BY <1>6, <1>9, <1>10, <1>11

\* The tarball of a tree, extracted, is the tree.
LEMMA TarKeeps ==
    ASSUME NEW t \in Trees
    PROVE  UntarLayer(EmptyTree, TarLayer(t)) = t
<1>. DEFINE walk == Walk(DOMAIN t)
            N == Len(walk)
<1>1. N \in Nat /\ \A q \in DOMAIN t : \E i \in 1..N : walk[i] = q
  BY TreeFacts, WalkFacts
<1>2. \A i \in 1..N : walk[i] \in DOMAIN t
  BY TreeFacts, WalkFacts
<1>3. PICK made \in [0..N -> Seq(Stampeds)] :
         /\ made[0] = <<>>
         /\ \A n \in 1..N : made[n] = made[n - 1] \o Headers(t, walk[n])
         /\ TarLayer(t) = made[N]
  BY TarRec
<1>. DEFINE P == {n \in 0..N : /\ UntarLayer(EmptyTree, made[n]) = Part(t, n)
                               /\ Part(t, n) \in Trees}
<1>4. 0 \in P /\ P \in SUBSET (0..N)
  <2>1. Walked(t, 0) = {}
    BY DEF Walked
  <2>2. Part(t, 0) = EmptyTree
    BY <2>1 DEF Part, EmptyTree
  <2>3. UntarLayer(EmptyTree, made[0]) = EmptyTree
    BY <1>3, EmptyTrees, UntarNone
  <2>. QED  BY <1>1, <2>2, <2>3, EmptyTrees
<1>5. ASSUME NEW n \in 1..N, n - 1 \in P PROVE n \in P
  <2>1. n \in 0..N /\ n - 1 \in 0..N
    BY <1>1
  <2>2. /\ Part(t, n - 1) \in Trees /\ made[n - 1] \in Seq(Stampeds)
        /\ UntarLayer(EmptyTree, made[n - 1]) = Part(t, n - 1)
    BY <1>3, <1>5, <2>1
  <2>3. made[n] = made[n - 1] \o Headers(t, walk[n])
    BY <1>3
  <2>. HIDE DEF P
  <2>4. UntarLayer(EmptyTree, made[n]) = Part(t, n) /\ Part(t, n) \in Trees
    BY <2>2, <2>3, PartStep
  <2>. QED  BY <2>1, <2>4 DEF P
<1>6. P = 0..N
  <2>. HIDE DEF P, N
  <2>. QED  BY <1>1, <1>4, <1>5, Induction
<1>7. UntarLayer(EmptyTree, TarLayer(t)) = Part(t, N)
  <2>1. N \in 0..N
    BY <1>1
  <2>. HIDE DEF N
  <2>2. N \in P
    BY <1>6, <2>1
  <2>. QED  BY <1>3, <2>2
<1>8. Part(t, N) = t
  <2>1. Walked(t, N) = DOMAIN t
    BY <1>1, <1>2 DEF Walked
  <2>2. t = [q \in DOMAIN t |-> t[q]]
    BY TreeFacts
  <2>. QED  BY <2>1, <2>2 DEF Part
<1>. QED  BY <1>7, <1>8

TarInv == pc = "done" /\ ~search => tarball = TarLayer(tree)

LEMMA TarStep == TagsInv /\ TarInv /\ [Next]_vars => TarInv'
<1>. SUFFICES ASSUME TagsInv, TarInv, [Next]_vars
              PROVE  TarInv'
  OBVIOUS
<1>. USE DEF merge
<1>1. CASE StartSearch \/ StartMerge \/ CallFails \/ NoHost \/ Pinged
  BY <1>1 DEF StartSearch, StartMerge, CallFails, NoHost, Fail, Pinged, TarInv
<1>2. CASE Sends \/ Transport
  BY <1>2 DEF Sends, Transport, TarInv
<1>3. CASE Page
  BY <1>3 DEF Page, TagsInv, TarInv
<1>4. CASE Manifest \/ Blob \/ LookForFile \/ Copy
  BY <1>4 DEF Manifest, Blob, LookForFile, Copy, Advance, TarInv
<1>5. CASE UntarNext \/ UntarFails \/ Choose
  BY <1>5 DEF UntarNext, UntarFails, Choose, TarInv
<1>6. ASSUME NEW a \in Addresses, Fetch(a)
      PROVE  TarInv'
  BY <1>6 DEF Fetch, AfterCut, Fallback, Addresses, TarInv
<1>7. CASE Tar
  BY <1>7 DEF Tar, TarInv
<1>8. CASE UNCHANGED vars
  BY <1>8 DEF vars, TarInv
<1>. QED
  BY <1>1, <1>2, <1>3, <1>4, <1>5, <1>6, <1>7, <1>8 DEF Next

\* The tarball of a merge, extracted, is the merged folder again, whatever is in it,
\* though each link is in it twice and once leads to itself (TarLayer).
THEOREM TarballsKeepTree == Spec => []TarballKeepsTree
<1>1. Init => TagsInv /\ DownloadTyped /\ TreeTyped /\ TarInv
  BY TypedInit DEF Init, TagsInv, MergeSteps, TarInv
<1>2. TreeTyped /\ TarInv => TarballKeepsTree
  BY TarKeeps DEF TreeTyped, TarInv, TarballKeepsTree
<1>. QED
  BY <1>1, <1>2, TagsStep, DownloadTypedStep, TreeTypedStep, TarStep, PTL DEF Spec
=============================================================================
