---------------------------- MODULE ServiceProofs ----------------------------
(***************************************************************************)
(* What the parts of the service that stand beside the gateway promise:    *)
(* the fetch of a page (Fetcher), the count of free previews               *)
(* (PreviewQuota), what is remembered of a page (UrlHistory) and its own   *)
(* release, for any names, limits, clients, calls and lifetimes.           *)
(*                                                                         *)
(* The fetch needs three facts that its properties do not say: once the    *)
(* guard has let a hop pass, the address it connects to is one of the      *)
(* public ones it has checked (Pinned); the requests of the fetches that   *)
(* are over and of the current one stay within one and MaxRedirects each   *)
(* (RequestsCounted); and an operation without a second resource has no    *)
(* second half (Short).                                                    *)
(*                                                                         *)
(* The previews need that a row counts the requests of its own window, and *)
(* that the windows before it had their limit at most (Kept).              *)
(*                                                                         *)
(* The history needs how long a document may have waited for its row       *)
(* (Ages), and of the comparisons that a snapshot is of a call which has   *)
(* compared, and its hash of the version it stands for (Announced).        *)
(*                                                                         *)
(* Of a release (Deployment), that sales go on after it (Resumed), that    *)
(* nothing answers while the database goes back unless the stop has failed *)
(* (ServedSound), and that the database has at any time the layout of one  *)
(* of two revisions, that of the release before or the present one         *)
(* (Restoring).                                                            *)
(***************************************************************************)
EXTENDS Fetcher, PreviewQuota, UrlHistory, Deployment,
        FiniteSetTheorems, WellFoundedInduction, TLAPS

-----------------------------------------------------------------------------
(* The fetch *)

Pinned == step # "guard" => pinned \in Public

\* Fetches that precede the current one.
FetchesBefore ==
    IF stage = "robots" THEN 0
    ELSE IF stage = "page" THEN 1
    ELSE IF stage = "robots2" THEN 2
    ELSE IF stage = "secondary" THEN 3
    ELSE IF HasSecondary THEN 4 ELSE 2

Sent == redirects + (IF step \in {"respond", "stream"} THEN 1 ELSE 0)

RequestsCounted ==
    /\ redirects \in 0..MaxRedirects
    /\ requests \in Nat
    /\ stage \in Fetching => requests <= (MaxRedirects + 1) * FetchesBefore + Sent
    /\ stage \in FetchEnded => requests <= (MaxRedirects + 1) * FetchesBefore

Short == ~HasSecondary => stage \notin {"robots2", "secondary"}

Bodies == size \in 0..MaxBody

IInv == FetchTypeOK /\ Pinned /\ RequestsCounted /\ Short /\ Bodies /\ OnlyPublicReached

LEMMA Limits ==
    /\ MaxRedirects \in Nat /\ MaxBody \in Nat /\ TotalTimeout \in Nat
    /\ HasSecondary \in BOOLEAN /\ Public \subseteq Addresses
    /\ \A chunk \in Chunks : chunk \in Nat
  BY FetcherAssumption

\* A fetch has sent at most one request and one for every redirection.
LEMMA SentBounded ==
    ASSUME RequestsCounted PROVE Sent \in 0..MaxRedirects + 1
  BY Limits DEF RequestsCounted, Sent

LEMMA Initially == FetchInit => IInv
  BY Limits DEF FetchInit, IInv, FetchTypeOK, Pinned, RequestsCounted, Short, Bodies, OnlyPublicReached, FetchesBefore,
     Sent, Fetching, FetchEnded

\* What a fetch leads to is one of these.
Follows(next, url) ==
    /\ Enter(next, url)
    /\ \/ stage = "robots" /\ next = "page"
       \/ stage = "page" /\ HasSecondary /\ next = "robots2"
       \/ stage = "robots2" /\ next = "secondary"
       \/ /\ next = "done"
          /\ stage \in {"robots2", "secondary"} \/ (stage = "page" /\ ~HasSecondary)
       \/ next = "failed"

LEMMA FollowsFrom ==
    ASSUME IInv, stage \in Fetching, FetchError \/ Fetched \/ GiveUp
    PROVE  \E next \in Fetching \cup FetchEnded : \E url \in {subject, current} : Follows(next, url)
  <1>1. CASE Allowed /\ stage \in {"robots", "robots2"}
    <2>1. CASE stage = "robots"
      BY <1>1, <2>1 DEF Allowed, Follows, Enter, Fetching
    <2>2. CASE stage = "robots2"
      BY <1>1, <2>2 DEF Allowed, Follows, Enter, Fetching
    <2> QED BY <1>1, <2>1, <2>2
  <1>2. CASE GiveUp
    <2>1. CASE stage \in {"robots2", "secondary"}
      <3>0. (IF stage \in {"robots2", "secondary"} THEN "done" ELSE "failed") = "done"
        BY <2>1, Zenon
      <3>1. Enter("done", current)
        BY <1>2, <3>0, Zenon DEF GiveUp
      <3> QED BY <2>1, <3>1 DEF Follows, FetchEnded
    <2>2. CASE stage \in {"robots", "page"}
      <3>1. ~(stage \in {"robots2", "secondary"})
        BY <2>2
      <3>2. Enter("failed", current)
        BY <1>2, <3>1, Zenon DEF GiveUp
      <3> QED BY <3>2 DEF Follows, FetchEnded
    <2> QED BY <2>1, <2>2 DEF Fetching
  <1>3. CASE Fetched /\ stage \in {"page", "secondary"}
    <2>1. CASE stage = "page" /\ HasSecondary
      BY <1>3, <2>1 DEF Fetched, Follows, Enter, Fetching
    <2>2. CASE stage = "secondary" \/ (stage = "page" /\ ~HasSecondary)
      <3>1. ~(stage = "robots" \/ stage = "robots2") /\ ~(stage = "page" /\ HasSecondary)
        BY <2>2
      <3>2. Enter("done", current)
        BY <1>3, <3>1, Zenon DEF Fetched
      <3>3. stage \in {"robots2", "secondary"} \/ (stage = "page" /\ ~HasSecondary)
        BY <2>2
      <3> QED BY <3>2, <3>3, Zenon DEF Follows, FetchEnded
    <2>3. stage = "page" \/ stage = "secondary"
      BY <1>3
    <2> QED BY <2>1, <2>2, <2>3, Zenon
  <1>4. ASSUME FetchError PROVE (Allowed /\ stage \in {"robots", "robots2"}) \/ GiveUp
    <2>1. CASE stage = "robots" \/ stage = "robots2"
      BY <1>4, <2>1, Zenon DEF FetchError
    <2>2. CASE ~(stage = "robots" \/ stage = "robots2")
      BY <1>4, <2>2, Zenon DEF FetchError
    <2> QED BY <2>1, <2>2, Zenon
  <1>5. ASSUME Fetched
        PROVE  \/ Allowed /\ stage \in {"robots", "robots2"}
               \/ GiveUp
               \/ Fetched /\ stage \in {"page", "secondary"}
    <2>1. CASE stage = "robots" \/ stage = "robots2"
      <3>1. Allowed \/ GiveUp
        BY <1>5, <2>1, Zenon DEF Fetched
      <3> QED BY <2>1, <3>1, Zenon
    <2>2. CASE ~(stage = "robots" \/ stage = "robots2")
      <3>1. stage \in {"page", "secondary"}
        BY <2>2 DEF Fetching
      <3> QED BY <1>5, <3>1, Zenon
    <2> QED BY <2>1, <2>2, Zenon
  <1> QED BY <1>1, <1>2, <1>3, <1>4, <1>5, Zenon

\* Beginning the next fetch, or ending, keeps the invariant.
LEMMA FollowsKeeps ==
    ASSUME IInv, stage \in Fetching, NEW next \in Fetching \cup FetchEnded,
           NEW url \in {subject, current}, Follows(next, url), UNCHANGED record
    PROVE  IInv'
  <1>1. FetchTypeOK'
    BY Limits DEF IInv, FetchTypeOK, Follows, Enter, Fetching, FetchEnded
  <1>2. Pinned' /\ Bodies' /\ OnlyPublicReached'
    BY Limits DEF IInv, Pinned, Bodies, OnlyPublicReached, Follows, Enter, record
  <1>3. Short'
    BY Limits DEF IInv, Short, Follows, Enter, Fetching, FetchEnded
  <1>4. RequestsCounted'
    <2>1. redirects' = 0 /\ step' = "guard" /\ stage' = next /\ requests' = requests
      BY DEF Follows, Enter, record
    <2>2. requests <= (MaxRedirects + 1) * FetchesBefore + MaxRedirects + 1 /\ requests \in Nat
      BY SentBounded, Limits DEF IInv, RequestsCounted, Sent, FetchesBefore, Fetching
    <2>3. FetchesBefore \in 0..3 /\ FetchesBefore' \in 0..4 /\ FetchesBefore' >= FetchesBefore + 1
      <3>1. HasSecondary' = HasSecondary /\ (~HasSecondary => stage \in {"robots", "page"})
        BY DEF IInv, Short, Fetching
      <3> QED BY <2>1, <3>1, Limits DEF Follows, FetchesBefore, Fetching, FetchEnded
    <2>4. (MaxRedirects + 1) * FetchesBefore + MaxRedirects + 1 <= (MaxRedirects + 1) * FetchesBefore'
      <3>1. ASSUME NEW n \in 0..3, NEW k \in 0..4, k >= n + 1
            PROVE  (MaxRedirects + 1) * n + MaxRedirects + 1 <= (MaxRedirects + 1) * k
        BY <3>1, Limits
      <3> QED BY <2>3, <3>1
    <2>5. Sent' = 0
      BY <2>1 DEF Sent
    <2>6. (MaxRedirects + 1) * FetchesBefore \in Int /\ (MaxRedirects + 1) * FetchesBefore' \in Int
      BY <2>3, Limits
    <2>7. requests' <= (MaxRedirects + 1) * FetchesBefore' /\ requests' \in Nat
      BY <2>1, <2>2, <2>4, <2>6, Limits
    <2> QED BY <2>1, <2>5, <2>6, <2>7, Limits DEF RequestsCounted
  <1> QED BY <1>1, <1>2, <1>3, <1>4 DEF IInv

LEMMA Inductive == IInv /\ [FetchNext]_fetchVars => IInv'
  <1> SUFFICES ASSUME IInv, [FetchNext]_fetchVars PROVE IInv'
    OBVIOUS
  <1>1. CASE Guard
    <2>1. pinned' \in Public
      BY <1>1 DEF Guard, AllPublic
    <2>2. FetchTypeOK'
      BY <1>1, <2>1, Limits DEF Guard, IInv, FetchTypeOK, record, FetchEnded, Fetching
    <2>3. RequestsCounted'
      BY <1>1 DEF Guard, IInv, RequestsCounted, FetchesBefore, Sent, record
    <2>4. Pinned' /\ Short' /\ Bodies' /\ OnlyPublicReached'
      BY <1>1, <2>1 DEF Guard, IInv, Pinned, Short, Bodies, OnlyPublicReached, record
    <2> QED BY <2>2, <2>3, <2>4 DEF IInv
  <1>2. CASE Connect
    <2>1. stage \in Fetching
      BY <1>2 DEF Connect, IInv, FetchTypeOK, Fetching, FetchEnded
    <2>2. FetchTypeOK'
      BY <1>2, Limits DEF Connect, IInv, FetchTypeOK, FetchEnded, Fetching
    <2>3. RequestsCounted'
      <3>1. FetchesBefore' = FetchesBefore /\ Sent = redirects /\ Sent' = redirects + 1
            /\ requests' = requests + 1 /\ stage' = stage /\ redirects' = redirects
        BY <1>2, Limits DEF Connect, FetchesBefore, Sent, IInv, RequestsCounted
      <3>2. FetchesBefore \in Nat /\ (MaxRedirects + 1) * FetchesBefore \in Nat
        BY Limits DEF FetchesBefore
      <3> QED BY <2>1, <3>1, <3>2, Limits DEF IInv, RequestsCounted, FetchEnded, Fetching
    <2>4. Pinned' /\ Short' /\ Bodies' /\ OnlyPublicReached'
      BY <1>2 DEF Connect, IInv, Pinned, Short, Bodies, OnlyPublicReached
    <2> QED BY <2>2, <2>3, <2>4 DEF IInv
  <1>3. ASSUME NEW url \in Targets, Redirect(url) PROVE IInv'
    <2>1. stage \in Fetching
      BY <1>3 DEF Redirect, IInv, FetchTypeOK, Fetching, FetchEnded
    <2>2. FetchTypeOK'
      BY <1>3, Limits DEF Redirect, IInv, FetchTypeOK, record, FetchEnded, Fetching
    <2>3. RequestsCounted'
      <3>1. FetchesBefore' = FetchesBefore /\ Sent = redirects + 1 /\ Sent' = redirects + 1
            /\ requests' = requests /\ stage' = stage /\ redirects' = redirects + 1
            /\ redirects < MaxRedirects
        BY <1>3, Limits DEF Redirect, HopsLeft, FetchesBefore, Sent, IInv, RequestsCounted, record
      <3>2. FetchesBefore \in Nat /\ (MaxRedirects + 1) * FetchesBefore \in Nat
        BY Limits DEF FetchesBefore
      <3> QED BY <2>1, <3>1, <3>2, Limits DEF IInv, RequestsCounted, FetchEnded, Fetching
    <2>4. Pinned' /\ Short' /\ Bodies' /\ OnlyPublicReached'
      BY <1>3 DEF Redirect, IInv, Pinned, Short, Bodies, OnlyPublicReached, record
    <2> QED BY <2>2, <2>3, <2>4 DEF IInv
  <1>4. ASSUME NEW chunk \in Chunks, Chunk(chunk) PROVE IInv'
    <2>1. FetchTypeOK'
      BY <1>4, Limits DEF Chunk, IInv, FetchTypeOK, record, FetchEnded, Fetching
    <2>2. RequestsCounted'
      BY <1>4 DEF Chunk, IInv, RequestsCounted, FetchesBefore, Sent, record
    <2>3. Pinned' /\ Short' /\ Bodies' /\ OnlyPublicReached'
      BY <1>4, Limits DEF Chunk, FitsBody, IInv, Pinned, Short, Bodies, OnlyPublicReached, record
    <2> QED BY <2>1, <2>2, <2>3 DEF IInv
  <1>5. CASE Accept \/ FetchTick
    <2>1. FetchTypeOK'
      BY <1>5, Limits DEF Accept, FetchTick, IInv, FetchTypeOK, record, FetchEnded, Fetching
    <2>2. RequestsCounted'
      BY <1>5 DEF Accept, FetchTick, IInv, RequestsCounted, FetchesBefore, Sent, record
    <2>3. Pinned' /\ Short' /\ Bodies' /\ OnlyPublicReached'
      BY <1>5 DEF Accept, FetchTick, IInv, Pinned, Short, Bodies, OnlyPublicReached, record
    <2> QED BY <2>1, <2>2, <2>3 DEF IInv
  <1>6. CASE \/ Unsafe \/ RefuseResponse \/ EndOfBody \/ Broken \/ Timeout
             \/ \E chunk \in Chunks : TooLong(chunk)
    <2>1. stage \in Fetching
      BY <1>6 DEF Unsafe, RefuseResponse, EndOfBody, Broken, Timeout, TooLong, IInv, FetchTypeOK,
         Fetching, FetchEnded
    <2>2. (FetchError \/ Fetched \/ GiveUp) /\ UNCHANGED record
      BY <1>6 DEF Unsafe, RefuseResponse, EndOfBody, Broken, Timeout, TooLong
    <2> QED BY <2>1, <2>2, FollowsFrom, FollowsKeeps
  <1>7. CASE UNCHANGED fetchVars
    <2>1. FetchTypeOK' /\ RequestsCounted'
      BY <1>7 DEF fetchVars, hop, record, IInv, FetchTypeOK, RequestsCounted, FetchesBefore, Sent
    <2>2. Pinned' /\ Short' /\ Bodies' /\ OnlyPublicReached'
      BY <1>7 DEF fetchVars, hop, record, IInv, Pinned, Short, Bodies, OnlyPublicReached
    <2> QED BY <2>1, <2>2 DEF IInv
  <1> QED BY <1>1, <1>2, <1>3, <1>4, <1>5, <1>6, <1>7 DEF FetchNext, Loop

LEMMA Invariant == FetchSpec => []IInv
  BY Initially, Inductive, PTL DEF FetchSpec

\* For any limits, names and addresses a fetch is well-formed.
THEOREM TypeCorrect == FetchSpec => []FetchTypeOK
  <1>1. IInv => FetchTypeOK
    BY DEF IInv
  <1> QED BY <1>1, Invariant, PTL

\* However names resolve from hop to hop, only public addresses are connected
\* to: the guard's answer is the address used (fetcher._pinned_url).
THEOREM PublicOnly == FetchSpec => []OnlyPublicReached
  <1>1. IInv => OnlyPublicReached
    BY DEF IInv
  <1> QED BY <1>1, Invariant, PTL

\* Every bound on redirections bounds the requests of an operation.
THEOREM RequestsWithinBounds == FetchSpec => []RequestsBounded
  <1>1. IInv => RequestsBounded
    <2> SUFFICES ASSUME IInv PROVE RequestsBounded
      OBVIOUS
    <2>1. redirects <= MaxRedirects /\ requests \in Nat
      BY Limits DEF IInv, RequestsCounted
    <2>2. requests <= (MaxRedirects + 1) * (FetchesBefore + 1) \/ stage \in FetchEnded
      <3>1. FetchesBefore \in Nat /\ (MaxRedirects + 1) * (FetchesBefore + 1) = (MaxRedirects + 1) * FetchesBefore + MaxRedirects + 1
        BY Limits DEF FetchesBefore
      <3> QED BY <3>1, SentBounded, Limits DEF IInv, RequestsCounted, FetchTypeOK, Sent
    <2>3. stage \in Fetching => FetchesBefore + 1 \in 1..(IF HasSecondary THEN 4 ELSE 2)
      BY Limits DEF IInv, Short, FetchesBefore, Fetching
    <2>4. stage \in FetchEnded => FetchesBefore = IF HasSecondary THEN 4 ELSE 2
      BY DEF FetchesBefore, FetchEnded
    <2>5. ASSUME NEW n \in 1..4, NEW k \in 1..4, n <= k
          PROVE (MaxRedirects + 1) * n <= (MaxRedirects + 1) * k
      BY <2>5, Limits
    <2> QED BY <2>1, <2>2, <2>3, <2>4, <2>5, Limits DEF RequestsBounded, IInv, RequestsCounted, FetchTypeOK
  <1> QED BY <1>1, Invariant, PTL

\* A body in memory is never longer than its bound.
THEOREM BodiesBounded == FetchSpec => []BodyBounded
  <1>1. IInv => BodyBounded
    BY Limits DEF IInv, Bodies, BodyBounded
  <1> QED BY <1>1, Invariant, PTL

-----------------------------------------------------------------------------
(* The previews *)

Previews == Live \cup Trial

PreviewTypes ==
    /\ now \in Nat
    /\ usage \in [{"live", "trial"} \X Clients -> [window : Nat, count : Nat]]
    /\ previewPc \in [Previews -> {"idle", "upsert", "pulse", "done"}]
    /\ window \in [Previews -> Nat]
    /\ answer \in [Previews -> {"none", "limited", "unsafe", "failed", "served"}]
    /\ admitted \in [Previews -> Nat \cup {-1}]
    /\ counted \in [Previews -> Nat \cup {-1}]
    /\ \A r \in Previews :
         /\ previewPc[r] \in {"idle", "upsert"} => admitted[r] = -1
         /\ previewPc[r] # "done" => answer[r] = "none"

\* w is the beginning of a window of r that has begun, after k others.
Begins(r, w, k) == w = Length(r) * k /\ w <= now

\* What a request has for its row.
RowOf(r) == usage[Bucket(r)]

\* Those counted in the window of the row.
InRow(r) == {s \in Admitted(r) : counted[s] = RowOf(r).window}

\* The row counts the requests of its window; the windows before it had their
\* limit at most.
Kept(r) ==
    /\ IsFiniteSet(Admitted(r))
    /\ \A s \in Admitted(r) : counted[s] \in Nat /\ counted[s] <= RowOf(r).window
    /\ RowOf(r) = NoUsage => Admitted(r) = {}
    /\ Cardinality(InRow(r)) = RowOf(r).count
    /\ RowOf(r).count <= Limit(r)
    /\ \E k \in Nat :
         /\ Begins(r, RowOf(r).window, k)
         /\ Cardinality(Admitted(r)) <= Limit(r) * k + RowOf(r).count

\* The requests that used up the window of r.
UsedBy(r) == {s \in Admitted(r) : counted[s] >= window[r]}

Refusals ==
    \A r \in Previews : answer[r] = "limited" => Cardinality(UsedBy(r)) >= Limit(r)

PreviewInv ==
    /\ PreviewTypes
    /\ \A r \in Previews : \E k \in Nat : Begins(r, window[r], k)
    /\ \A r \in Previews : Kept(r)
    /\ Refusals

LEMMA PreviewKinds ==
    ASSUME NEW r \in Previews
    PROVE  /\ Bucket(r) \in {"live", "trial"} \X Clients
           /\ Length(r) \in Nat \ {0} /\ Limit(r) \in Nat \ {0}
           /\ \A q \in Previews :
                /\ Bucket(q) = Bucket(r)
                     <=> Kind(q) = Kind(r) /\ ClientOf[q] = ClientOf[r]
                /\ Bucket(q) = Bucket(r) =>
                     /\ Length(q) = Length(r)
                     /\ Limit(q) = Limit(r)
                     /\ Admitted(q) = Admitted(r)
BY PreviewAssumption DEF Requests, Previews, Bucket, Kind, Length, Limit, Admitted

LEMMA Product == \A m, n \in Nat : m * n \in Nat /\ m * (n + 1) = m * n + m
OBVIOUS

LEMMA Division ==
    ASSUME NEW time \in Nat, NEW length \in Nat \ {0}
    PROVE  /\ time \div length \in Nat /\ time % length \in Nat
           /\ time = length * (time \div length) + (time % length)
OBVIOUS

LEMMA Later ==
    ASSUME NEW length \in Nat \ {0}, NEW j \in Nat, NEW k \in Nat, length * j < length * k
    PROVE  j + 1 <= k
OBVIOUS

LEMMA AtMost ==
    ASSUME NEW length \in Nat \ {0}, NEW k \in Nat, NEW time \in Nat, length * k <= time
    PROVE  k <= time \div length
OBVIOUS

LEMMA Grows ==
    ASSUME NEW m \in Nat, NEW j \in Nat, NEW k \in Nat, j <= k
    PROVE  m * j <= m * k
OBVIOUS

LEMMA PreviewAtFirst ==
    ASSUME PreviewInit
    PROVE  PreviewInv
<1>1. PreviewTypes
  BY DEF PreviewInit, PreviewTypes, NoUsage, Previews, Requests
<1>2. ASSUME NEW r \in Previews PROVE Kept(r) /\ Begins(r, window[r], 0)
  <2>1. Admitted(r) = {} /\ InRow(r) = {}
    BY DEF Admitted, InRow, PreviewInit, Previews, Requests
  <2>2. RowOf(r) = NoUsage /\ window[r] = 0 /\ now = 0
    BY PreviewKinds DEF PreviewInit, RowOf, Previews, Requests
  <2>3. Length(r) * 0 = 0 /\ Limit(r) * 0 = 0 /\ Limit(r) \in Nat
    BY PreviewKinds
  <2>4. Cardinality({}) = 0 /\ IsFiniteSet({})
    BY FS_EmptySet
  <2>5. RowOf(r).window = 0 /\ RowOf(r).count = 0
    BY <2>2 DEF NoUsage
  <2>6. Begins(r, 0, 0)
    BY <2>2, <2>3 DEF Begins
  <2> QED BY <2>1, <2>2, <2>3, <2>4, <2>5, <2>6 DEF Kept
<1>3. Refusals
  BY DEF Refusals, PreviewInit, Previews, Requests
<1> QED BY <1>1, <1>2, <1>3 DEF PreviewInv

\* Where nothing is counted, time may pass.
LEMMA Uncounted ==
    ASSUME NEW r \in Previews, Kept(r), UNCHANGED <<usage, admitted, counted>>,
           now \in Nat, now' \in Nat, now' >= now,
           PreviewTypes
    PROVE  Kept(r)'
<1>1. Admitted(r)' = Admitted(r) /\ RowOf(r)' = RowOf(r) /\ InRow(r)' = InRow(r)
  BY DEF Admitted, RowOf, InRow
<1>2. PICK k \in Nat :
        /\ Begins(r, RowOf(r).window, k)
        /\ Cardinality(Admitted(r)) <= Limit(r) * k + RowOf(r).count
  BY DEF Kept
<1>3. RowOf(r).window \in Nat
  BY PreviewKinds DEF RowOf, PreviewTypes
<1>4. Begins(r, RowOf(r).window, k)'
  BY <1>1, <1>2, <1>3 DEF Begins
<1> QED BY <1>1, <1>2, <1>4 DEF Kept

\* What a count leaves of the table and of the history.
LEMMA CountEffect ==
    ASSUME PreviewTypes, NEW r \in Previews,
           previewPc[r] = "upsert", Count(r)
    PROVE  LET row == Counted(r) IN
           /\ row.window \in Nat /\ row.count \in Nat
           /\ usage' \in [{"live", "trial"} \X Clients -> [window : Nat, count : Nat]]
           /\ admitted' \in [Previews -> Nat \cup {-1}]
           /\ counted' \in [Previews -> Nat \cup {-1}]
           /\ admitted[r] = -1 /\ admitted'[r] = now /\ counted'[r] = row.window
           /\ \A q \in Previews \ {r} : admitted'[q] = admitted[q] /\ counted'[q] = counted[q]
           /\ \A q \in Previews :
                RowOf(q)' = IF Bucket(q) = Bucket(r) THEN row ELSE RowOf(q)
<1>1. RowOf(r) \in [window : Nat, count : Nat] /\ window[r] \in Nat
  BY PreviewKinds DEF RowOf, PreviewTypes
<1>2. Counted(r) \in [window : Nat, count : Nat]
  <2>1. Counted(r) = [window |-> window[r], count |-> 1]
        \/ Counted(r) = [RowOf(r) EXCEPT !.count = @ + 1]
    BY DEF Counted, RowOf
  <2> QED BY <1>1, <2>1
<1>3. /\ usage' = [usage EXCEPT ![Bucket(r)] = Counted(r)]
      /\ admitted' = [admitted EXCEPT ![r] = now]
      /\ counted' = [counted EXCEPT ![r] = usage'[Bucket(r)].window]
  BY DEF Count
<1>4. usage'[Bucket(r)] = Counted(r)
  BY <1>3, PreviewKinds DEF PreviewTypes
<1>5. ASSUME NEW q \in Previews
      PROVE  RowOf(q)' = IF Bucket(q) = Bucket(r) THEN Counted(r) ELSE RowOf(q)
  <2>1. Bucket(q) \in DOMAIN usage /\ Bucket(q)' = Bucket(q)
    BY PreviewKinds DEF PreviewTypes, Bucket, Kind
  <2> QED BY <1>3, <2>1 DEF RowOf
<1>6. admitted[r] = -1 /\ admitted'[r] = now /\ counted'[r] = Counted(r).window
  BY <1>3, <1>4 DEF PreviewTypes
<1>7. /\ usage' \in [{"live", "trial"} \X Clients -> [window : Nat, count : Nat]]
      /\ admitted' \in [Previews -> Nat \cup {-1}]
      /\ counted' \in [Previews -> Nat \cup {-1}]
  BY <1>2, <1>3, <1>4, PreviewKinds DEF PreviewTypes
<1>8. \A q \in Previews \ {r} : admitted'[q] = admitted[q] /\ counted'[q] = counted[q]
  BY <1>3 DEF PreviewTypes
<1> QED BY <1>2, <1>5, <1>6, <1>7, <1>8

\* A request is counted among those of its kind and client, and nobody drops out.
LEMMA CountAdds ==
    ASSUME PreviewTypes, NEW r \in Previews,
           previewPc[r] = "upsert", Count(r), NEW q \in Previews
    PROVE  /\ r \notin Admitted(q)
           /\ Admitted(q)' =
                IF Bucket(q) = Bucket(r)
                THEN Admitted(q) \cup {r} ELSE Admitted(q)
           /\ \A s \in Admitted(q) : counted'[s] = counted[s]
<1>1. admitted[r] = -1 /\ admitted'[r] = now /\ now \in Nat
      /\ \A s \in Previews \ {r} : admitted'[s] = admitted[s] /\ counted'[s] = counted[s]
  BY CountEffect DEF PreviewTypes
<1>2. r \in Requests /\ Requests = Previews
  BY DEF Requests, Previews
<1>3. Kind(r) = Kind(q) /\ ClientOf[r] = ClientOf[q]
        <=> Bucket(q) = Bucket(r)
  BY PreviewKinds
<1>4. r \notin Admitted(q)
  BY <1>1 DEF Admitted
<1>5. \A s \in Previews : s \in Admitted(q)' <=>
        s \in Admitted(q) \/ (s = r /\ Bucket(q) = Bucket(r))
  BY <1>1, <1>2, <1>3 DEF Admitted, Kind
<1>6. Admitted(q)' \subseteq Previews /\ Admitted(q) \subseteq Previews
  BY <1>2 DEF Admitted
<1>7. Admitted(q)' =
        IF Bucket(q) = Bucket(r)
        THEN Admitted(q) \cup {r} ELSE Admitted(q)
  BY <1>5, <1>6
<1> QED BY <1>1, <1>4, <1>6, <1>7

LEMMA CountKeeps ==
    ASSUME PreviewInv, NEW r \in Previews, now' = now,
           previewPc[r] = "upsert", Admits(r), Count(r), NEW q \in Previews
    PROVE  Kept(q)'
<1> DEFINE row == Counted(r)
<1>0. PreviewTypes /\ Kept(q) /\ Kept(r)
  BY DEF PreviewInv
<1>1. Bucket(q)' = Bucket(q) /\ Length(q) \in Nat \ {0} /\ Limit(q) \in Nat \ {0}
  BY PreviewKinds DEF Bucket, Kind
\* The row of another bucket, and its requests, stay.
<1>2. CASE Bucket(q) # Bucket(r)
  <2>1. RowOf(q)' = RowOf(q) /\ Admitted(q)' = Admitted(q)
        /\ \A s \in Admitted(q) : counted'[s] = counted[s]
    BY <1>0, <1>2, CountEffect, CountAdds
  <2>2. InRow(q)' = InRow(q)
    BY <2>1 DEF InRow
  <2>3. PICK k \in Nat :
          /\ Begins(q, RowOf(q).window, k)
          /\ Cardinality(Admitted(q)) <= Limit(q) * k + RowOf(q).count
    BY <1>0 DEF Kept
  <2>4. Begins(q, RowOf(q).window, k)'
    BY <2>1, <2>3 DEF Begins
  <2>5. /\ IsFiniteSet(Admitted(q))
        /\ \A s \in Admitted(q) : counted[s] \in Nat /\ counted[s] <= RowOf(q).window
        /\ RowOf(q) = NoUsage => Admitted(q) = {}
        /\ Cardinality(InRow(q)) = RowOf(q).count
        /\ RowOf(q).count <= Limit(q)
    BY <1>0 DEF Kept
  <2> QED BY <2>1, <2>2, <2>3, <2>4, <2>5 DEF Kept
<1>3. CASE Bucket(q) = Bucket(r)
  <2> DEFINE A == Admitted(r)  U == InRow(r)  old == RowOf(r)  L == Length(r)  M == Limit(r)
  <2>1. /\ Admitted(q) = A /\ Length(q) = L /\ Limit(q) = M
        /\ RowOf(q) = old /\ InRow(q) = U /\ L \in Nat \ {0} /\ M \in Nat \ {0}
    BY <1>3, PreviewKinds DEF RowOf, InRow
  <2>2. /\ RowOf(q)' = row /\ row.window \in Nat /\ row.count \in Nat
        /\ Admitted(q)' = A \cup {r} /\ r \notin A
        /\ \A s \in A : counted'[s] = counted[s]
        /\ counted'[r] = row.window
    BY <1>0, <1>3, <2>1, CountEffect, CountAdds
  <2>3. /\ IsFiniteSet(A) /\ \A s \in A : counted[s] \in Nat /\ counted[s] <= old.window
        /\ old = NoUsage => A = {}
        /\ Cardinality(U) = old.count /\ old.count <= M
    BY <1>0 DEF Kept
  <2>4. old.window \in Nat /\ old.count \in Nat
    BY <1>0, PreviewKinds DEF RowOf, PreviewTypes
  <2>5. PICK k \in Nat : Begins(r, old.window, k) /\ Cardinality(A) <= M * k + old.count
    BY <1>0 DEF Kept
  <2>6. IsFiniteSet(A \cup {r}) /\ Cardinality(A \cup {r}) = Cardinality(A) + 1 /\ Cardinality(A) \in Nat
    BY <2>2, <2>3, FS_AddElement, FS_CardinalityType
  <2>7. PICK j \in Nat : Begins(r, window[r], j)
    BY DEF PreviewInv
  <2>8. InRow(q)' = {s \in A \cup {r} : counted'[s] = row.window}
    BY <2>2 DEF InRow
  <2>9. /\ \A s \in A \cup {r} : counted'[s] \in Nat /\ counted'[s] <= row.window
        /\ Cardinality(InRow(q)') = row.count /\ row.count <= M /\ row.count > 0
        /\ \E i \in Nat : Begins(r, row.window, i) /\ Cardinality(A) + 1 <= M * i + row.count
    \* The first of a window: those before it are all of earlier windows.
    <3>1. CASE old = NoUsage \/ Outdated(r)
      <4>1. row = [window |-> window[r], count |-> 1] /\ window[r] \in Nat
        BY <1>0, <3>1 DEF Counted, RowOf, PreviewTypes
      <4>2. \A s \in A : counted[s] < window[r]
        <5>1. CASE old = NoUsage
          BY <2>3, <5>1
        <5>2. CASE Outdated(r)
          BY <2>3, <2>4, <4>1, <5>2 DEF Outdated, RowOf
        <5> QED BY <3>1, <5>1, <5>2
      <4>3. InRow(q)' = {r}
        BY <2>2, <2>3, <2>8, <4>1, <4>2
      <4>4. Cardinality({r}) = 1
        BY FS_Singleton
      <4>5. Cardinality(A) <= M * j
        <5>1. CASE old = NoUsage
          BY <2>1, <2>3, <5>1, FS_EmptySet, Product
        <5>2. CASE Outdated(r)
          <6>1. L * k < L * j
            BY <2>5, <2>7, <5>2 DEF Begins, Outdated, RowOf
          <6>2. k + 1 <= j
            BY <2>1, <6>1, Later
          <6>3. M * (k + 1) = M * k + M /\ M * (k + 1) <= M * j /\ M * k \in Nat /\ M * j \in Nat
            BY <2>1, <6>2, Product, Grows
          <6> QED BY <2>1, <2>3, <2>4, <2>5, <2>6, <6>3
        <5> QED BY <3>1, <5>1, <5>2
      <4>6. Begins(r, row.window, j) /\ Cardinality(A) + 1 <= M * j + row.count
        BY <2>1, <2>6, <2>7, <4>1, <4>5, Product
      <4> QED BY <2>1, <2>2, <2>3, <4>1, <4>2, <4>3, <4>4, <4>6
    <3>2. CASE ~(old = NoUsage \/ Outdated(r))
      <4>1. row = [old EXCEPT !.count = @ + 1] /\ old.count < M
        BY <3>2 DEF Counted, Admits, RowOf
      <4>2. old \in [window : Nat, count : Nat]
        BY <1>0, PreviewKinds DEF RowOf, PreviewTypes
      <4>3. row.window = old.window /\ row.count = old.count + 1
        BY <4>1, <4>2
      <4>4. InRow(q)' = U \cup {r} /\ r \notin U /\ U \subseteq A
        BY <2>2, <2>8, <4>3 DEF InRow
      <4>5. Cardinality(U \cup {r}) = Cardinality(U) + 1
        BY <2>3, <4>4, FS_Subset, FS_AddElement
      <4>6. Begins(r, row.window, k) /\ Cardinality(A) + 1 <= M * k + row.count
        BY <2>1, <2>4, <2>5, <2>6, <4>3, Product
      <4> QED BY <2>1, <2>2, <2>3, <2>4, <4>1, <4>3, <4>4, <4>5, <4>6
    <3> QED BY <3>1, <3>2
  <2>10. row # NoUsage
    BY <2>9 DEF NoUsage
  <2>11. \A i : Begins(r, row.window, i) => Begins(q, RowOf(q).window, i)'
    BY <2>1, <2>2 DEF Begins
  <2> QED BY <2>1, <2>2, <2>6, <2>9, <2>10, <2>11 DEF Kept
<1> QED BY <1>2, <1>3

\* A refusal stays right: nobody who was counted is forgotten.
LEMMA RefusedStays ==
    ASSUME PreviewTypes, NEW r \in Previews,
           Cardinality(UsedBy(r)) >= Limit(r), window'[r] = window[r],
           IsFiniteSet(Admitted(r)'),
           Admitted(r) \subseteq Admitted(r)',
           \A s \in Admitted(r) : counted'[s] = counted[s]
    PROVE  Cardinality(UsedBy(r)') >= Limit(r)
<1>1. UsedBy(r) \subseteq UsedBy(r)' /\ UsedBy(r)' \subseteq Admitted(r)'
  BY DEF UsedBy
<1>2. IsFiniteSet(UsedBy(r)') /\ IsFiniteSet(UsedBy(r))
  BY <1>1, FS_Subset
<1>3. Cardinality(UsedBy(r)) <= Cardinality(UsedBy(r)')
  BY <1>1, <1>2, FS_Subset
<1>4. Cardinality(UsedBy(r)) \in Nat /\ Cardinality(UsedBy(r)') \in Nat /\ Limit(r) \in Nat
  BY <1>2, FS_CardinalityType, PreviewKinds
<1> QED BY <1>3, <1>4

\* Who is refused finds a row of his window or a later one, at its limit.
LEMMA RefusedRightly ==
    ASSUME PreviewInv, NEW r \in Previews, ~Admits(r)
    PROVE  Cardinality(UsedBy(r)) >= Limit(r)
<1>1. /\ IsFiniteSet(Admitted(r)) /\ Cardinality(InRow(r)) = RowOf(r).count
      /\ PreviewTypes
  BY DEF PreviewInv, Kept
<1>2. /\ RowOf(r).window \in Nat /\ RowOf(r).count \in Nat /\ window[r] \in Nat
      /\ Limit(r) \in Nat
  BY <1>1, PreviewKinds DEF RowOf, PreviewTypes
<1>3. RowOf(r).window >= window[r] /\ RowOf(r).count >= Limit(r)
  BY <1>2 DEF Admits, Outdated, RowOf
<1>4. InRow(r) \subseteq UsedBy(r) /\ UsedBy(r) \subseteq Admitted(r)
  BY <1>3 DEF InRow, UsedBy
<1>5. IsFiniteSet(UsedBy(r)) /\ Cardinality(InRow(r)) <= Cardinality(UsedBy(r))
      /\ Cardinality(UsedBy(r)) \in Nat
  BY <1>1, <1>4, FS_Subset, FS_CardinalityType
<1> QED BY <1>1, <1>2, <1>3, <1>5

\* The specification counts as the lemmas about finite sets do.
LEMMA SameCardinality == \A S : Cardinality(S) = Cardinality(S)
BY DEF Cardinality, Cardinality

LEMMA RefusedMeans == Refusals <=> RefusedWhenUsedUp
<1>1. Requests = Previews
  BY DEF Requests, Previews
<1>2. \A r \in Previews :
        Cardinality(UsedBy(r)) = Cardinality({s \in Admitted(r) : counted[s] >= window[r]})
  BY SameCardinality DEF UsedBy
<1> QED BY <1>1, <1>2 DEF RefusedWhenUsedUp, Refusals

\* A step that counts nobody.
LEMMA NothingCounted ==
    ASSUME PreviewInv, PreviewTypes',
           UNCHANGED <<usage, admitted, counted>>, now' \in {now, now + 1},
           \A r \in Previews :
             /\ \E k \in Nat : Begins(r, window[r], k)'
             /\ answer'[r] = "limited" =>
                  window'[r] = window[r] /\ (answer[r] = "limited" \/ ~Admits(r))
    PROVE  PreviewInv'
<1>1. PreviewTypes /\ now \in Nat /\ now' \in Nat /\ now' >= now
  BY DEF PreviewInv, PreviewTypes
<1>2. \A r \in Previews : Kept(r) /\ Kept(r)'
  BY <1>1, Uncounted DEF PreviewInv
<1>3. ASSUME NEW r \in Previews, answer'[r] = "limited"
      PROVE  Cardinality(UsedBy(r)') >= Limit(r)'
  <2>1. Cardinality(UsedBy(r)) >= Limit(r)
    BY <1>3, RefusedRightly DEF PreviewInv, Refusals
  <2>2. Admitted(r)' = Admitted(r) /\ Limit(r)' = Limit(r)
    BY DEF Admitted, Limit
  <2>3. IsFiniteSet(Admitted(r)') /\ window'[r] = window[r]
    BY <1>2, <1>3 DEF Kept
  <2> QED BY <1>1, <2>1, <2>2, <2>3, RefusedStays
<1>4. Refusals'
  BY <1>3 DEF Refusals
<1> QED BY <1>2, <1>4 DEF PreviewInv

\* A step that counts one request.
LEMMA Counting ==
    ASSUME PreviewInv, PreviewTypes', NEW r \in Previews, now' = now,
           previewPc[r] = "upsert", Admits(r), Count(r), window' = window,
           \A q \in Previews : answer'[q] = "limited" => answer[q] = "limited"
    PROVE  PreviewInv'
<1>1. PreviewTypes
  BY DEF PreviewInv
<1>2. \A q \in Previews : Kept(q)'
  BY CountKeeps
<1>3. \A q \in Previews : \E k \in Nat : Begins(q, window[q], k)'
  BY DEF PreviewInv, Begins, Length
<1>4. ASSUME NEW q \in Previews, answer'[q] = "limited"
      PROVE  Cardinality(UsedBy(q)') >= Limit(q)'
  <2>1. Cardinality(UsedBy(q)) >= Limit(q)
    BY <1>4 DEF PreviewInv, Refusals
  <2>2. /\ Admitted(q) \subseteq Admitted(q)'
        /\ \A s \in Admitted(q) : counted'[s] = counted[s]
    BY <1>1, CountAdds
  <2>3. IsFiniteSet(Admitted(q)') /\ Limit(q)' = Limit(q)
    BY <1>2 DEF Kept, Limit
  <2> QED BY <1>1, <2>1, <2>2, <2>3, RefusedStays
<1> QED BY <1>2, <1>3, <1>4 DEF PreviewInv, Refusals

LEMMA WindowBegins ==
    ASSUME now \in Nat, NEW r \in Previews
    PROVE  /\ Window(r, now) \in Nat
           /\ \E k \in Nat : Begins(r, Window(r, now), k)
<1> DEFINE length == Length(r)  k == now \div length
<1>1. length \in Nat \ {0}
  BY PreviewKinds
<1>2. k \in Nat /\ now % length \in Nat /\ now = length * k + (now % length) /\ length * k \in Nat
  BY <1>1, Division, Product
<1>3. Window(r, now) = length * k
  BY <1>2 DEF Window
<1> QED BY <1>1, <1>2, <1>3 DEF Begins

LEMMA PreviewStep ==
    ASSUME PreviewInv, [PreviewNext]_previewVars
    PROVE  PreviewInv'
<1>0. PreviewTypes /\ now \in Nat /\ Requests = Previews
      /\ \A r \in Previews : \E k \in Nat : Begins(r, window[r], k)
  BY DEF PreviewInv, PreviewTypes, Requests, Previews
<1>1. CASE PreviewTick \/ UNCHANGED previewVars
  <2>1. UNCHANGED <<usage, previewPc, window, answer, admitted, counted>> /\ now' \in {now, now + 1}
    BY <1>1 DEF PreviewTick, previewVars
  <2>2. PreviewTypes'
    BY <1>0, <2>1 DEF PreviewTypes
  <2>3. \A r \in Previews : \E k \in Nat : Begins(r, window[r], k)'
    BY <1>0, <2>1, PreviewKinds DEF Begins, Length, PreviewTypes
  <2> QED BY <2>1, <2>2, <2>3, NothingCounted
<1>2. ASSUME NEW r \in Previews, Arrive(r) PROVE PreviewInv'
  <2>1. /\ previewPc[r] = "idle" /\ previewPc' = [previewPc EXCEPT ![r] = "upsert"]
        /\ window' = [window EXCEPT ![r] = Window(r, now)]
        /\ UNCHANGED <<now, usage, answer, admitted, counted>>
    BY <1>2 DEF Arrive, PreviewGoto
  <2>2. PreviewTypes'
    BY <1>0, <2>1, WindowBegins DEF PreviewTypes
  <2>3. ASSUME NEW q \in Previews PROVE \E k \in Nat : Begins(q, window[q], k)'
    <3>1. PICK k \in Nat : Begins(q, window'[q], k)
      BY <1>0, <2>1, WindowBegins DEF PreviewTypes
    <3> QED BY <2>1, <3>1 DEF Begins, Length
  <2>4. \A q \in Previews : answer'[q] = "limited" => window'[q] = window[q] /\ answer[q] = "limited"
    BY <1>0, <2>1 DEF PreviewTypes
  <2> QED BY <2>1, <2>2, <2>3, <2>4, NothingCounted
<1>3. ASSUME NEW r \in Previews, Consume(r) PROVE PreviewInv'
  <2>1. /\ previewPc[r] = "upsert" /\ previewPc' = [previewPc EXCEPT ![r] = "pulse"]
        /\ Admits(r) /\ Count(r) /\ UNCHANGED <<now, window, answer>>
    BY <1>3 DEF Consume, PreviewGoto
  <2>2. PreviewTypes'
    BY <1>0, <2>1, CountEffect DEF PreviewTypes
  <2> QED BY <2>1, <2>2, Counting
<1>4. ASSUME NEW r \in Previews, NEW result \in {"limited", "failed", "served", "unsafe"},
             previewPc[r] \in {"upsert", "pulse"},
             previewPc' = [previewPc EXCEPT ![r] = "done"],
             answer' = [answer EXCEPT ![r] = result],
             result = "limited" => ~Admits(r),
             UNCHANGED <<now, usage, window, admitted, counted>>
      PROVE  PreviewInv'
  <2>1. PreviewTypes'
    BY <1>0, <1>4 DEF PreviewTypes
  <2>2. \A q \in Previews : \E k \in Nat : Begins(q, window[q], k)'
    BY <1>0, <1>4 DEF Begins, Length
  <2>3. \A q \in Previews : answer'[q] = "limited" =>
          window'[q] = window[q] /\ (answer[q] = "limited" \/ ~Admits(q))
    BY <1>0, <1>4 DEF PreviewTypes
  <2> QED BY <1>4, <2>1, <2>2, <2>3, NothingCounted
<1>5. ASSUME NEW r \in Previews, TurnDown(r) PROVE PreviewInv'
  BY <1>4, <1>5 DEF TurnDown, Reply, PreviewGoto
<1>6. ASSUME NEW r \in Previews, LoseConnection(r) PROVE PreviewInv'
  <2>1. CASE Admits(r) /\ Count(r)
    <3>1. /\ previewPc[r] = "upsert" /\ previewPc' = [previewPc EXCEPT ![r] = "done"]
          /\ answer' = [answer EXCEPT ![r] = "failed"] /\ UNCHANGED <<now, window>>
      BY <1>6 DEF LoseConnection, Reply, PreviewGoto
    <3>2. PreviewTypes' /\ \A q \in Previews : answer'[q] = "limited" => answer[q] = "limited"
      BY <1>0, <2>1, <3>1, CountEffect DEF PreviewTypes
    <3> QED BY <2>1, <3>1, <3>2, Counting
  <2>2. CASE UNCHANGED <<usage, admitted, counted>>
    BY <1>4, <1>6, <2>2 DEF LoseConnection, Reply, PreviewGoto
  <2> QED BY <1>6, <2>1, <2>2 DEF LoseConnection
<1>7. ASSUME NEW r \in Previews, NEW result \in {"served", "unsafe", "failed"}, PreviewPulse(r, result)
      PROVE  PreviewInv'
  BY <1>4, <1>7 DEF PreviewPulse, Reply, PreviewGoto
<1> QED BY <1>0, <1>1, <1>2, <1>3, <1>5, <1>6, <1>7 DEF PreviewNext

LEMMA PreviewAlways == PreviewSpec => []PreviewInv
<1>1. PreviewInit => PreviewInv
  BY PreviewAtFirst
<1>2. PreviewInv /\ [PreviewNext]_previewVars => PreviewInv'
  BY PreviewStep
<1> QED BY <1>1, <1>2, PTL DEF PreviewSpec

\* However late a count runs, and whichever connections break, a client gets no
\* more previews of a kind than the limit for each window that has begun.
THEOREM PreviewsAreLimited ==
    PreviewSpec => []LimitPerWindow
<1>1. ASSUME PreviewInv, NEW r \in Previews
      PROVE  Cardinality(Admitted(r)) <= Limit(r) * (now \div Length(r) + 1)
  <2> DEFINE M == Limit(r)  L == Length(r)  row == RowOf(r)
  <2>1. /\ IsFiniteSet(Admitted(r)) /\ row.count <= M
        /\ M \in Nat \ {0} /\ L \in Nat \ {0} /\ row.count \in Nat /\ now \in Nat
    BY <1>1, PreviewKinds DEF PreviewInv, Kept, RowOf, PreviewTypes
  <2>2. PICK k \in Nat : Begins(r, row.window, k) /\ Cardinality(Admitted(r)) <= M * k + row.count
    BY <1>1 DEF PreviewInv, Kept
  <2>3. k <= now \div L /\ now \div L \in Nat
    BY <2>1, <2>2, AtMost, Division DEF Begins
  <2>4. M * (k + 1) = M * k + M /\ M * (k + 1) <= M * (now \div L + 1) /\ M * k \in Nat
        /\ M * (now \div L + 1) \in Nat
    BY <2>1, <2>3, Product, Grows
  <2>5. Cardinality(Admitted(r)) \in Nat
    BY <2>1, FS_CardinalityType
  <2> QED BY <2>1, <2>2, <2>4, <2>5
<1>2. PreviewInv => LimitPerWindow
  BY <1>1, SameCardinality DEF LimitPerWindow, Requests, Previews
<1> QED BY <1>2, PreviewAlways, PTL

\* Nobody is turned away while his own window has room.
THEOREM RefusalsAreRight ==
    PreviewSpec => []RefusedWhenUsedUp
<1>1. PreviewInv => RefusedWhenUsedUp
  BY RefusedMeans DEF PreviewInv
<1> QED BY <1>1, PreviewAlways, PTL

-----------------------------------------------------------------------------
(* What is remembered of a page *)

CacheRow == [version : Nat, at : Nat, until : Nat]
Places == {"idle", "refused", "done", "failed", "lookup", "fetching", "merge", "store",
           "compare", "snapshot", "record"}
Over == {"done", "failed"}
AtDocument == {"merge", "store", "compare", "snapshot", "record"}

Compares(c) == Plan[OpOf[c]].compares
Stores(c) == Plan[OpOf[c]].stores

HistoryTypes ==
    /\ page \in [Urls -> Nat]
    /\ clock \in Nat
    /\ cache \in [Kinds \X Urls -> CacheRow]
    /\ pc \in [Calls -> Places]
    /\ started \in [Calls -> Nat]
    /\ got \in [Calls -> [version : Nat, at : Nat, age : Int]]
    /\ items \in [Calls -> Seq({"ok", "error"})]
    /\ told \in [Calls -> {"nothing", "baseline", "changed", "same"}]
    /\ broken \in [Calls -> BOOLEAN]
    /\ \A c \in Calls : pc[c] \notin Over => Len(items[c]) < Len(UrlsOf[c])

LEMMA Plans ==
    ASSUME NEW c \in Calls
    PROVE  /\ OpOf[c] \in Operations
           /\ Plan[OpOf[c]].kind \in Kinds
           /\ Compares(c) \in BOOLEAN /\ Stores(c) \in BOOLEAN
           /\ OpOf[c] = "changed" => ~Stores(c)
           /\ OpOf[c] = "batch" => ~Compares(c)
           /\ UrlsOf[c] \in Seq(Urls) /\ Len(UrlsOf[c]) \in 1..5
           /\ OpOf[c] # "batch" => Len(UrlsOf[c]) = 1
<1>1. /\ OpOf[c] \in Operations
      /\ UrlsOf[c] \in Seq(Urls) /\ Len(UrlsOf[c]) \in 1..5
      /\ OpOf[c] # "batch" => Len(UrlsOf[c]) = 1
  BY HistoryAssumption
<1>2. Operations =
        {"pulse", "passport", "extract", "changed", "url_diff", "projection", "batch"}
  BY DEF Operations, Plan
<1>3. \A op \in Operations :
        /\ Plan[op].compares \in BOOLEAN /\ Plan[op].stores \in BOOLEAN
        /\ op = "changed" => ~Plan[op].stores
        /\ op = "batch" => ~Plan[op].compares
  <2> SUFFICES ASSUME NEW op \in Operations
               PROVE  /\ Plan[op].compares \in BOOLEAN /\ Plan[op].stores \in BOOLEAN
                      /\ op = "changed" => ~Plan[op].stores
                      /\ op = "batch" => ~Plan[op].compares
    OBVIOUS
  <2>1. Plan[op] \in {Pulse, Passport, Extract, Changed,
                              Projection, Diff}
    BY <1>2 DEF Plan
  <2>2. Plan["changed"] = Changed /\ Plan["batch"] = Projection
    BY DEF Plan
  <2>3. Plan[op].compares \in BOOLEAN /\ Plan[op].stores \in BOOLEAN
    <3> DEFINE Good(plan) == plan.compares \in BOOLEAN /\ plan.stores \in BOOLEAN
    <3>1. Good(Pulse)
      BY DEF Pulse
    <3>2. Good(Passport)
      BY DEF Passport
    <3>3. Good(Extract)
      BY DEF Extract
    <3>4. Good(Changed)
      BY DEF Changed
    <3>5. Good(Projection)
      BY DEF Projection
    <3>6. Good(Diff)
      BY DEF Diff
    <3> HIDE DEF Good
    <3>7. Good(Plan[op])
      BY <2>1, <3>1, <3>2, <3>3, <3>4, <3>5, <3>6
    <3> QED BY <3>7 DEF Good
  <2>4. Changed.stores = FALSE /\ Projection.compares = FALSE
    BY DEF Changed, Projection
  <2> QED BY <2>1, <2>2, <2>3, <2>4
<1>4. Plan[OpOf[c]].kind \in Kinds
  BY <1>1 DEF Kinds
<1> QED BY <1>1, <1>3, <1>4 DEF Compares, Stores

\* The page a call is at, and its row in the cache.
LEMMA Whereabouts ==
    ASSUME HistoryTypes, NEW c \in Calls, pc[c] \notin Over
    PROVE  /\ UrlOf(c) \in Urls
           /\ Key(c, UrlOf(c)) \in Kinds \X Urls
           /\ Row(c) \in CacheRow
           /\ page[UrlOf(c)] \in Nat
<1>1. UrlsOf[c] \in Seq(Urls) /\ Len(items[c]) \in Nat /\ Len(items[c]) + 1 <= Len(UrlsOf[c])
      /\ Len(UrlsOf[c]) \in Nat
  BY Plans DEF HistoryTypes
<1>2. UrlOf(c) \in Urls
  BY <1>1 DEF UrlOf
<1>3. Key(c, UrlOf(c)) \in Kinds \X Urls
  BY <1>2, Plans DEF Key
<1> QED BY <1>2, <1>3 DEF Row, HistoryTypes

\* One URL more is done with; the last one ends the call.
LEMMA EndItemEffect ==
    ASSUME HistoryTypes, NEW c \in Calls, pc[c] \notin Over,
           NEW outcome \in {"ok", "error"}, NEW rollback \in BOOLEAN,
           EndItem(c, outcome, rollback)
    PROVE  /\ items' \in [Calls -> Seq({"ok", "error"})]
           /\ pc' \in [Calls -> Places] /\ pc'[c] \in Over \cup {"lookup"}
           /\ \A d \in Calls \ {c} : pc'[d] = pc[d] /\ items'[d] = items[d]
           /\ \A d \in Calls : pc'[d] \notin Over => Len(items'[d]) < Len(UrlsOf[d])
           /\ OpOf[c] # "batch" => pc'[c] \in Over
<1>0. PICK place \in NextPlaces(c, outcome, rollback) : Goto(c, place)
  BY DEF EndItem
<1>1. /\ items' = [items EXCEPT ![c] = Append(items[c], outcome)]
      /\ pc' = [pc EXCEPT ![c] = place]
  BY <1>0 DEF EndItem, Goto
<1>2. items[c] \in Seq({"ok", "error"}) /\ Len(items[c]) \in Nat
      /\ Len(UrlsOf[c]) \in Nat /\ (OpOf[c] # "batch" => Len(UrlsOf[c]) = 1)
  BY Plans DEF HistoryTypes
<1>3. Append(items[c], outcome) \in Seq({"ok", "error"})
      /\ Len(Append(items[c], outcome)) = Len(items[c]) + 1
  BY <1>2
<1>4. place \in {"lookup", "failed", "done"}
  BY DEF NextPlaces
<1>5. items'[c] = Append(items[c], outcome) /\ pc'[c] = place
      /\ \A d \in Calls \ {c} : pc'[d] = pc[d] /\ items'[d] = items[d]
  BY <1>1 DEF HistoryTypes
<1>7. place = "lookup" => Len(items[c]) + 1 < Len(UrlsOf[c])
  BY DEF NextPlaces
<1>8. pc' \in [Calls -> Places] /\ items' \in [Calls -> Seq({"ok", "error"})]
  BY <1>1, <1>3, <1>4 DEF HistoryTypes, Places
<1>9. pc'[c] \in Over \cup {"lookup"}
  BY <1>4, <1>5 DEF Over
<1>10. \A d \in Calls : pc'[d] \notin Over => Len(items'[d]) < Len(UrlsOf[d])
  <2> SUFFICES ASSUME NEW d \in Calls, pc'[d] \notin Over
               PROVE  Len(items'[d]) < Len(UrlsOf[d])
    OBVIOUS
  <2>1. CASE d = c
    BY <1>3, <1>5, <1>7, <1>9, <2>1
  <2>2. CASE d # c
    BY <1>5, <2>2 DEF HistoryTypes
  <2> QED BY <2>1, <2>2
<1>11. OpOf[c] # "batch" => pc'[c] \in Over
  <2> SUFFICES ASSUME OpOf[c] # "batch", place = "lookup" PROVE FALSE
    BY <1>5, <1>9
  <2>1. Len(UrlsOf[c]) = 1 /\ Len(items[c]) + 1 < 1
    BY <1>2, <1>7
  <2> QED BY <1>2, <2>1
<1> QED BY <1>5, <1>8, <1>9, <1>10, <1>11

\* Where a call goes with a document.
LEMMA AfterPlace ==
    ASSUME NEW c \in Calls
    PROVE  AfterDocument(OpOf[c]) = (IF Compares(c) THEN "compare" ELSE "record")
BY DEF AfterDocument, Compares

\* What each step of a call does to the variables that HistoryTypes is about.
LEMMA LookEffect ==
    ASSUME HistoryTypes, NEW c \in Calls,
           Hit(c) \/ Miss(c) \/ ReadPage(c)
    PROVE  /\ UNCHANGED <<page, clock, cache, snapshots, started, rowSeen, previous, items, told, broken>>
           /\ pc[c] \in {"lookup", "fetching"}
           /\ pc' \in [Calls -> Places]
           /\ pc'[c] \in {"fetching", "merge", IF Compares(c) THEN "compare" ELSE "record"}
           /\ got' \in [Calls -> [version : Nat, at : Nat, age : Int]]
           /\ \A d \in Calls \ {c} : pc'[d] = pc[d] /\ got'[d] = got[d]
           /\ pc'[c] # "fetching" =>
                \/ /\ c \notin Fresh /\ Stores(c)
                   /\ pc'[c] = IF Compares(c) THEN "compare" ELSE "record"
                   /\ LET row == Row(c) IN
                      /\ row.until > clock
                      /\ got'[c] = [version |-> row.version, at |-> row.at, age |-> clock - row.at]
                \/ /\ got'[c] = [version |-> page[UrlOf(c)], at |-> clock, age |-> 0]
<1> DEFINE after == IF Compares(c) THEN "compare" ELSE "record"
<1>0. after \in Places /\ AfterDocument(OpOf[c]) = after
  BY AfterPlace DEF Places
<1> HIDE DEF after
<1>1. CASE Hit(c)
  <2>1. /\ pc[c] = "lookup" /\ c \notin Fresh /\ Stores(c)
        /\ got' = [got EXCEPT ![c] = Cached(Row(c))]
        /\ pc' = [pc EXCEPT ![c] = after]
        /\ UNCHANGED <<page, clock, cache, snapshots, started, rowSeen, previous, items, told, broken>>
    BY <1>0, <1>1 DEF Hit, UsesCache, Stores, Goto, remembered, answers
  <2>2. Row(c).until > clock
    BY <1>1 DEF Hit, Alive
  <2>3. Row(c) \in CacheRow
    BY <2>1, Whereabouts DEF Over
  <2>4. Cached(Row(c)) =
          [version |-> Row(c).version, at |-> Row(c).at, age |-> clock - Row(c).at]
    BY DEF Cached
  <2>5. Cached(Row(c)) \in [version : Nat, at : Nat, age : Int]
    BY <2>3, <2>4 DEF CacheRow, HistoryTypes
  <2>6. pc' \in [Calls -> Places] /\ pc'[c] = after
        /\ \A d \in Calls \ {c} : pc'[d] = pc[d]
    BY <1>0, <2>1 DEF HistoryTypes
  <2>7. got' \in [Calls -> [version : Nat, at : Nat, age : Int]]
        /\ got'[c] = Cached(Row(c)) /\ \A d \in Calls \ {c} : got'[d] = got[d]
    BY <2>1, <2>5 DEF HistoryTypes
  <2> QED BY <2>1, <2>2, <2>4, <2>6, <2>7 DEF after
<1>2. CASE Miss(c)
  BY <1>2 DEF Miss, Goto, HistoryTypes, Places, remembered, answers
<1>3. CASE ReadPage(c)
  <2>1. /\ pc[c] = "fetching"
        /\ got' = [got EXCEPT ![c] = Document(c)]
        /\ pc' = [pc EXCEPT ![c] = IF Stores(c) THEN "merge" ELSE after]
        /\ UNCHANGED <<page, clock, cache, snapshots, started, rowSeen, previous, items, told, broken>>
    BY <1>0, <1>3 DEF ReadPage, Stores, Goto, remembered, answers
  <2>2. page[UrlOf(c)] \in Nat /\ clock \in Nat
    BY <2>1, Whereabouts DEF Over, HistoryTypes
  <2>3. Document(c) = [version |-> page[UrlOf(c)], at |-> clock, age |-> 0]
    BY DEF Document
  <2>4. got' \in [Calls -> [version : Nat, at : Nat, age : Int]]
        /\ got'[c] = Document(c) /\ \A d \in Calls \ {c} : got'[d] = got[d]
    BY <2>1, <2>2, <2>3 DEF HistoryTypes
  <2>5. /\ pc' \in [Calls -> Places] /\ pc'[c] \in {"merge", after}
        /\ \A d \in Calls \ {c} : pc'[d] = pc[d]
    BY <1>0, <2>1 DEF HistoryTypes, Places
  <2> QED BY <2>1, <2>3, <2>4, <2>5 DEF after
<1> QED BY <1>1, <1>2, <1>3

LEMMA StoreEffect ==
    ASSUME HistoryTypes, NEW c \in Calls,
           Merge(c) \/ Store(c)
    PROVE  /\ UNCHANGED <<page, clock, snapshots, started, got, previous, items, told, broken>>
           /\ pc' \in [Calls -> Places]
           /\ \A d \in Calls \ {c} : pc'[d] = pc[d]
           /\ pc[c] \in {"merge", "store"}
           /\ pc'[c] \in {"store", IF Compares(c) THEN "compare" ELSE "record"}
           /\ cache' \in [Kinds \X Urls -> CacheRow]
           /\ \A key \in Kinds \X Urls :
                \/ cache'[key] = cache[key]
                \/ cache'[key] = [version |-> got[c].version, at |-> got[c].at, until |-> clock + Ttl]
<1> DEFINE after == IF Compares(c) THEN "compare" ELSE "record"
<1>0. after \in Places /\ AfterDocument(OpOf[c]) = after
  BY AfterPlace DEF Places
<1> HIDE DEF after
<1>1. CASE Merge(c)
  BY <1>1 DEF Merge, Goto, HistoryTypes, Places, remembered, answers
<1>2. CASE Store(c)
  <2> DEFINE key == Key(c, UrlOf(c))
             row == [version |-> got[c].version, at |-> got[c].at, until |-> clock + Ttl]
  <2>1. /\ pc[c] = "store"
        /\ cache' = [cache EXCEPT ![key] = row]
        /\ pc' = [pc EXCEPT ![c] = after]
        /\ UNCHANGED <<page, clock, snapshots, started, got, previous, items, told, broken>>
    BY <1>0, <1>2 DEF Store, Goto, answers
  <2>2. key \in Kinds \X Urls
    BY <2>1, Whereabouts DEF Over
  <2>5. row \in CacheRow
    <3>1. got[c].version \in Nat /\ got[c].at \in Nat /\ clock \in Nat
      BY DEF HistoryTypes
    <3>2. Ttl \in Nat
      BY HistoryAssumption
    <3> QED BY <3>1, <3>2 DEF CacheRow
  <2> HIDE DEF key, row
  <2>3. /\ cache' \in [Kinds \X Urls -> CacheRow]
        /\ \A k \in Kinds \X Urls : cache'[k] = cache[k] \/ cache'[k] = row
    BY <2>1, <2>2, <2>5 DEF HistoryTypes
  <2>4. /\ pc' \in [Calls -> Places] /\ pc'[c] = after
        /\ \A d \in Calls \ {c} : pc'[d] = pc[d]
    BY <1>0, <2>1 DEF HistoryTypes
  <2> QED BY <2>1, <2>3, <2>4 DEF after, row
<1> QED BY <1>1, <1>2

\* A step that ends an item, well or badly.
Ends(c) == Refuse(c) \/ LoseInsert(c) \/ RecordRequest(c)

LEMMA EndsEffect ==
    ASSUME HistoryTypes, NEW c \in Calls, Ends(c)
    PROVE  /\ UNCHANGED <<page, clock, cache, snapshots, started, got, previous, told>>
           /\ items' \in [Calls -> Seq({"ok", "error"})]
           /\ pc' \in [Calls -> Places] /\ pc'[c] \in Over \cup {"lookup"}
           /\ \A d \in Calls \ {c} : pc'[d] = pc[d] /\ items'[d] = items[d]
           /\ \A d \in Calls : pc'[d] \notin Over => Len(items'[d]) < Len(UrlsOf[d])
           /\ OpOf[c] # "batch" => pc'[c] \in Over
           /\ pc[c] \in {"lookup", "fetching", "store", "record"}
           /\ broken' \in [Calls -> BOOLEAN]
<1>0. broken[c] \in BOOLEAN
  BY DEF HistoryTypes
<1>1. CASE Refuse(c)
  <2>1. /\ pc[c] \in {"lookup", "fetching"} /\ EndItem(c, "error", broken[c])
        /\ UNCHANGED <<page, clock, cache, snapshots, started, got, previous, told, broken>>
    BY <1>1 DEF Refuse, FailItem, remembered
  <2>2. pc[c] \notin Over
    BY <2>1 DEF Over
  <2>3. /\ items' \in [Calls -> Seq({"ok", "error"})]
        /\ pc' \in [Calls -> Places] /\ pc'[c] \in Over \cup {"lookup"}
        /\ \A d \in Calls \ {c} : pc'[d] = pc[d] /\ items'[d] = items[d]
        /\ \A d \in Calls : pc'[d] \notin Over => Len(items'[d]) < Len(UrlsOf[d])
        /\ OpOf[c] # "batch" => pc'[c] \in Over
    BY <1>0, <2>1, <2>2, EndItemEffect
  <2> QED BY <2>1, <2>3 DEF HistoryTypes
<1>2. CASE LoseInsert(c)
  <2>1. /\ pc[c] = "store" /\ EndItem(c, "error", TRUE)
        /\ broken' = [broken EXCEPT ![c] = TRUE]
        /\ UNCHANGED <<page, clock, cache, snapshots, started, got, previous, told>>
    BY <1>2 DEF LoseInsert, remembered
  <2>2. pc[c] \notin Over
    BY <2>1 DEF Over
  <2>3. /\ items' \in [Calls -> Seq({"ok", "error"})]
        /\ pc' \in [Calls -> Places] /\ pc'[c] \in Over \cup {"lookup"}
        /\ \A d \in Calls \ {c} : pc'[d] = pc[d] /\ items'[d] = items[d]
        /\ \A d \in Calls : pc'[d] \notin Over => Len(items'[d]) < Len(UrlsOf[d])
        /\ OpOf[c] # "batch" => pc'[c] \in Over
    BY <2>1, <2>2, EndItemEffect
  <2>4. broken' \in [Calls -> BOOLEAN]
    BY <2>1 DEF HistoryTypes
  <2> QED BY <2>1, <2>3, <2>4
<1>3. CASE RecordRequest(c)
  <2>1. /\ pc[c] = "record" /\ EndItem(c, "ok", broken[c])
        /\ UNCHANGED <<page, clock, cache, snapshots, started, got, previous, told, broken>>
    BY <1>3 DEF RecordRequest, remembered
  <2>2. pc[c] \notin Over
    BY <2>1 DEF Over
  <2>3. /\ items' \in [Calls -> Seq({"ok", "error"})]
        /\ pc' \in [Calls -> Places] /\ pc'[c] \in Over \cup {"lookup"}
        /\ \A d \in Calls \ {c} : pc'[d] = pc[d] /\ items'[d] = items[d]
        /\ \A d \in Calls : pc'[d] \notin Over => Len(items'[d]) < Len(UrlsOf[d])
        /\ OpOf[c] # "batch" => pc'[c] \in Over
    BY <1>0, <2>1, <2>2, EndItemEffect
  <2> QED BY <2>1, <2>3 DEF HistoryTypes
<1> QED BY <1>1, <1>2, <1>3 DEF Ends

\* A call begins or is turned away.
LEMMA BeginEffect ==
    ASSUME HistoryTypes, NEW c \in Calls,
           Begin(c) \/ TurnAway(c)
    PROVE  /\ UNCHANGED <<page, clock, cache, snapshots, got, previous, items, told, broken>>
           /\ pc[c] = "idle"
           /\ pc' \in [Calls -> Places] /\ pc'[c] \in {"lookup", "refused"}
           /\ \A d \in Calls \ {c} : pc'[d] = pc[d]
           /\ started' \in [Calls -> Nat]
           /\ \A d \in Calls : started'[d] = started[d] \/ started'[d] = clock
<1>1. CASE Begin(c)
  <2>1. /\ pc[c] = "idle"
        /\ pc' = [pc EXCEPT ![c] = "lookup"]
        /\ started' = [started EXCEPT ![c] = clock]
        /\ UNCHANGED <<page, clock, cache, snapshots, got, previous, items, told, broken>>
    BY <1>1 DEF Begin, Goto, remembered, answers
  <2> QED BY <2>1 DEF HistoryTypes, Places
<1>2. CASE TurnAway(c)
  <2>1. /\ pc[c] = "idle"
        /\ pc' = [pc EXCEPT ![c] = "refused"]
        /\ UNCHANGED <<page, clock, cache, snapshots, started, got, previous, items, told, broken>>
    BY <1>2 DEF TurnAway, Goto, remembered, answers
  <2> QED BY <2>1 DEF HistoryTypes, Places
<1> QED BY <1>1, <1>2

LEMMA LatestEffect ==
    ASSUME HistoryTypes, NEW c \in Calls, LatestSnapshot(c)
    PROVE  /\ UNCHANGED <<page, clock, cache, snapshots, started, got, items, told, broken>>
           /\ pc[c] = "compare"
           /\ pc' \in [Calls -> Places] /\ pc'[c] = "snapshot"
           /\ \A d \in Calls \ {c} : pc'[d] = pc[d]
           /\ previous' = [previous EXCEPT ![c] = Len(snapshots[UrlOf(c)])]
BY DEF LatestSnapshot, Goto, HistoryTypes, Places, answers, remembered

LEMMA AddEffect ==
    ASSUME HistoryTypes, NEW c \in Calls, AddSnapshot(c)
    PROVE  /\ UNCHANGED <<page, clock, cache, started, got, previous, items, broken>>
           /\ pc[c] = "snapshot"
           /\ pc' \in [Calls -> Places] /\ pc'[c] = "record"
           /\ \A d \in Calls \ {c} : pc'[d] = pc[d] /\ told'[d] = told[d]
           /\ told' \in [Calls -> {"nothing", "baseline", "changed", "same"}]
           /\ told'[c] = Verdict(c)
           /\ snapshots' = [snapshots EXCEPT ![UrlOf(c)] =
                Append(snapshots[UrlOf(c)], 
                       [hash |-> Hash(OpOf[c], got[c].version),
                        version |-> got[c].version, call |-> c])]
<1>1. /\ UNCHANGED <<page, clock, cache, started, got, previous, items, broken>>
      /\ pc[c] = "snapshot"
      /\ pc' = [pc EXCEPT ![c] = "record"]
      /\ told' = [told EXCEPT ![c] = Verdict(c)]
      /\ snapshots' = [snapshots EXCEPT ![UrlOf(c)] =
           Append(snapshots[UrlOf(c)], 
                  [hash |-> Hash(OpOf[c], got[c].version),
                   version |-> got[c].version, call |-> c])]
  BY DEF AddSnapshot, Goto
<1>2. Verdict(c) \in {"nothing", "baseline", "changed", "same"}
  BY DEF Verdict
<1> QED BY <1>1, <1>2 DEF HistoryTypes, Places

LEMMA WorldEffect ==
    ASSUME HistoryTypes,
           (\E u \in Urls : PageChanges(u)) \/ Tick
    PROVE  /\ UNCHANGED <<cache, snapshots, pc, started, got, previous, items, told, broken>>
           /\ page' \in [Urls -> Nat] /\ \A u \in Urls : page[u] <= page'[u]
           /\ clock' \in Nat /\ clock <= clock'
           /\ clock' # clock =>
                /\ clock' = clock + 1
                /\ \A c \in Calls : pc[c] \in {"merge", "store"} => clock - got[c].at < Delay
<1>1. ASSUME NEW u \in Urls, PageChanges(u)
      PROVE  /\ UNCHANGED <<cache, snapshots, pc, started, got, previous, items, told, broken>>
             /\ page' \in [Urls -> Nat] /\ \A v \in Urls : page[v] <= page'[v]
             /\ clock' = clock
  <2>1. /\ UNCHANGED <<clock, cache, snapshots, pc, started, got, previous, items, told, broken>>
        /\ page' = [page EXCEPT ![u] = page[u] + 1]
    BY <1>1 DEF PageChanges, remembered, answers
  <2> QED BY <2>1 DEF HistoryTypes
<1>2. CASE Tick
  BY <1>2 DEF Tick, remembered, answers, HistoryTypes
<1> QED BY <1>1, <1>2 DEF HistoryTypes

LEMMA Steps ==
    ASSUME Next
    PROVE  \/ \E c \in Calls :
                \/ Begin(c) \/ TurnAway(c)
                \/ Hit(c) \/ Miss(c) \/ ReadPage(c)
                \/ Merge(c) \/ Store(c)
                \/ LatestSnapshot(c)
                \/ AddSnapshot(c)
                \/ Ends(c)
           \/ (\E u \in Urls : PageChanges(u)) \/ Tick
BY DEF Next, Step, Ends

LEMMA HistoryTypesStep ==
    ASSUME HistoryTypes, Next
    PROVE  HistoryTypes'
<1>1. ASSUME NEW c \in Calls, Begin(c) \/ TurnAway(c)
      PROVE  HistoryTypes'
  BY <1>1, BeginEffect DEF HistoryTypes, Over
<1>2. ASSUME NEW c \in Calls, Hit(c) \/ Miss(c) \/ ReadPage(c)
      PROVE  HistoryTypes'
  BY <1>2, LookEffect DEF HistoryTypes, Over
<1>3. ASSUME NEW c \in Calls, Merge(c) \/ Store(c)
      PROVE  HistoryTypes'
  BY <1>3, StoreEffect DEF HistoryTypes, Over
<1>4. ASSUME NEW c \in Calls, LatestSnapshot(c)
      PROVE  HistoryTypes'
  BY <1>4, LatestEffect DEF HistoryTypes, Over
<1>5. ASSUME NEW c \in Calls, AddSnapshot(c)
      PROVE  HistoryTypes'
  BY <1>5, AddEffect DEF HistoryTypes, Over
<1>6. ASSUME NEW c \in Calls, Ends(c)
      PROVE  HistoryTypes'
  BY <1>6, EndsEffect DEF HistoryTypes
<1>7. CASE (\E u \in Urls : PageChanges(u)) \/ Tick
  BY <1>7, WorldEffect DEF HistoryTypes
<1> QED BY <1>1, <1>2, <1>3, <1>4, <1>5, <1>6, <1>7, Steps

LEMMA HistoryTypesInit ==
    ASSUME Init
    PROVE  HistoryTypes
<1>1. cache \in [Kinds \X Urls -> CacheRow]
  <2>1. NoRow \in CacheRow
    BY DEF NoRow, CacheRow
  <2>2. cache = [key \in Kinds \X Urls |-> NoRow]
    BY DEF Init
  <2> QED BY <2>1, <2>2
<1>2. \A c \in Calls : items[c] \in Seq({"ok", "error"}) /\ Len(items[c]) = 0
  <2>1. items = [c \in Calls |-> <<>>]
    BY DEF Init
  <2> QED BY <2>1
<1>3. \A c \in Calls : Len(items[c]) < Len(UrlsOf[c])
  <2> SUFFICES ASSUME NEW c \in Calls PROVE Len(items[c]) < Len(UrlsOf[c])
    OBVIOUS
  <2>1. Len(UrlsOf[c]) \in 1..5
    BY Plans
  <2>2. Len(items[c]) = 0
    BY <1>2
  <2>3. \A n, k : n \in 1..5 /\ k = 0 => k < n
    OBVIOUS
  <2> QED BY <2>1, <2>2, <2>3
<1>4. items \in [Calls -> Seq({"ok", "error"})]
  BY <1>2 DEF Init
<1>5. /\ page \in [Urls -> Nat] /\ clock \in Nat /\ pc \in [Calls -> Places]
      /\ started \in [Calls -> Nat]
      /\ told \in [Calls -> {"nothing", "baseline", "changed", "same"}]
      /\ broken \in [Calls -> BOOLEAN]
  BY DEF Init, Places
<1>6. got \in [Calls -> [version : Nat, at : Nat, age : Int]]
  BY DEF Init, NoDocument
<1> QED BY <1>1, <1>3, <1>4, <1>5, <1>6 DEF HistoryTypes

\* A document in the cache may have waited for its row up to Delay.
Lifetimes ==
    \A key \in Kinds \X Urls : cache[key].until <= cache[key].at + Ttl + Delay

InTime ==
    \A c \in Calls : pc[c] \in {"merge", "store"} => clock <= got[c].at + Delay

Begun == \A c \in Calls : started[c] <= clock

Ages == Lifetimes /\ InTime /\ Begun /\ AnswerAge

\* The same without the operator of the model.
AgeOf(c) ==
    pc[c] \in AtDocument =>
        IF c \notin Fresh /\ OpOf[c] # "changed" THEN got[c].age < Ttl + Delay
        ELSE got[c].at >= started[c]

LEMMA AgesByCall == AnswerAge <=> \A c \in Calls : AgeOf(c)
BY DEF AnswerAge, AgeOf, AtDocument

LEMMA AgesStep ==
    ASSUME HistoryTypes, Ages, Next
    PROVE  Ages'
<1>0. Ttl \in Nat /\ Ttl > 0 /\ Delay \in Nat
  BY HistoryAssumption
<1>1. ASSUME NEW c \in Calls, Begin(c) \/ TurnAway(c)
      PROVE  Ages'
  <2>1. Lifetimes' /\ InTime'
    BY <1>1, BeginEffect DEF Ages, Lifetimes, InTime
  <2>2. Begun'
    <3>1. clock \in Nat /\ clock' = clock /\ \A d \in Calls : started'[d] = started[d] \/ started'[d] = clock
      BY <1>1, BeginEffect DEF HistoryTypes
    <3>2. \A d \in Calls : started[d] <= clock
      BY DEF Ages, Begun
    <3>3. \A n \in Nat : n <= n
      OBVIOUS
    <3> QED BY <3>1, <3>2, <3>3 DEF Begun
  <2>3. ASSUME NEW d \in Calls PROVE AgeOf(d)'
    <3>1. CASE d = c
      BY <1>1, <3>1, BeginEffect DEF AgeOf, AtDocument
    <3>2. CASE d # c
      <4>1. pc'[d] = pc[d] /\ got' = got /\ AgeOf(d)
            /\ (started'[d] = started[d] \/ pc[d] \notin AtDocument)
        <5>1. started'[d] = started[d]
          BY <1>1, <3>2 DEF Begin, TurnAway, HistoryTypes
        <5> QED BY <1>1, <3>2, <5>1, BeginEffect, AgesByCall DEF Ages
      <4> QED BY <4>1 DEF AgeOf
    <3> QED BY <3>1, <3>2
  <2> QED BY <2>1, <2>2, <2>3, AgesByCall DEF Ages, AnswerAge, AgeOf, AtDocument
<1>2. ASSUME NEW c \in Calls, Hit(c) \/ Miss(c) \/ ReadPage(c)
      PROVE  Ages'
  <2>0. /\ UNCHANGED <<page, clock, cache, started>>
        /\ pc[c] \in {"lookup", "fetching"}
        /\ pc'[c] \in {"fetching", "merge", IF Compares(c) THEN "compare" ELSE "record"}
        /\ \A d \in Calls \ {c} : pc'[d] = pc[d] /\ got'[d] = got[d]
        /\ pc'[c] # "fetching" =>
             \/ /\ c \notin Fresh /\ Stores(c)
                /\ pc'[c] = IF Compares(c) THEN "compare" ELSE "record"
                /\ Row(c).until > clock
                /\ got'[c] = [version |-> Row(c).version, at |-> Row(c).at,
                              age |-> clock - Row(c).at]
             \/ /\ got'[c] = [version |-> page[UrlOf(c)], at |-> clock, age |-> 0]
    BY <1>2, LookEffect
  <2>1. Lifetimes' /\ Begun'
    BY <2>0 DEF Ages, Lifetimes, Begun
  <2>2. InTime'
    <3> SUFFICES ASSUME NEW d \in Calls, pc'[d] \in {"merge", "store"}
                 PROVE  clock' <= got'[d].at + Delay
      BY DEF InTime
    <3>1. CASE d = c
      BY <1>0, <2>0, <3>1 DEF HistoryTypes
    <3>2. CASE d # c
      BY <2>0, <3>2 DEF Ages, InTime
    <3> QED BY <3>1, <3>2
  <2>3. ASSUME NEW d \in Calls PROVE AgeOf(d)'
    <3>1. CASE d = c /\ pc'[c] # "fetching"
      <4>1. CASE /\ c \notin Fresh /\ Stores(c)
                 /\ Row(c).until > clock
                 /\ got'[c] = [version |-> Row(c).version, at |-> Row(c).at,
                               age |-> clock - Row(c).at]
        <5>1. OpOf[c] # "changed"
          BY <4>1, Plans
        <5>2. Row(c) \in CacheRow /\ Row(c) = cache[Key(c, UrlOf(c))]
              /\ Key(c, UrlOf(c)) \in Kinds \X Urls
          BY <2>0, Whereabouts DEF Over, Row
        <5>3. Row(c).until <= Row(c).at + Ttl + Delay
          BY <5>2 DEF Ages, Lifetimes
        <5>4. got'[c].age = clock - Row(c).at
          BY <4>1
        <5>5. Row(c).until \in Nat /\ Row(c).at \in Nat /\ clock \in Nat
          BY <5>2 DEF CacheRow, HistoryTypes
        <5>6. got'[c].age < Ttl + Delay
          BY <1>0, <4>1, <5>3, <5>4, <5>5
        <5> QED BY <3>1, <4>1, <5>1, <5>6 DEF AgeOf
      <4>2. CASE got'[c] = [version |-> page[UrlOf(c)], at |-> clock, age |-> 0]
        <5>1. got'[c].at = clock /\ got'[c].age = 0 /\ started'[c] <= clock
          BY <2>0, <4>2 DEF Ages, Begun
        <5>2. 0 < Ttl + Delay /\ clock >= started'[c]
          BY <1>0, <2>0, <5>1 DEF HistoryTypes
        <5> QED BY <3>1, <5>1, <5>2 DEF AgeOf
      <4> QED BY <2>0, <3>1, <4>1, <4>2
    <3>2. CASE d = c /\ pc'[c] = "fetching"
      BY <3>2 DEF AgeOf, AtDocument
    <3>3. CASE d # c
      BY <2>0, <3>3, AgesByCall DEF Ages, AgeOf
    <3> QED BY <3>1, <3>2, <3>3
  <2> QED BY <2>1, <2>2, <2>3 DEF Ages, AnswerAge, AgeOf, AtDocument
<1>3. ASSUME NEW c \in Calls, Merge(c) \/ Store(c)
      PROVE  Ages'
  <2>0. /\ UNCHANGED <<page, clock, started, got>>
        /\ pc[c] \in {"merge", "store"}
        /\ pc'[c] \in {"store", IF Compares(c) THEN "compare" ELSE "record"}
        /\ \A d \in Calls \ {c} : pc'[d] = pc[d]
        /\ \A key \in Kinds \X Urls :
             \/ cache'[key] = cache[key]
             \/ cache'[key] = [version |-> got[c].version, at |-> got[c].at, until |-> clock + Ttl]
    BY <1>3, StoreEffect
  <2>1. Begun'
    BY <2>0 DEF Ages, Begun
  <2>2. InTime'
    BY <2>0 DEF Ages, InTime
  <2>3. Lifetimes'
    <3> SUFFICES ASSUME NEW key \in Kinds \X Urls
                 PROVE  cache'[key].until <= cache'[key].at + Ttl + Delay
      BY DEF Lifetimes
    <3>1. CASE cache'[key] = cache[key]
      BY <3>1 DEF Ages, Lifetimes
    <3>2. CASE cache'[key] = [version |-> got[c].version, at |-> got[c].at, until |-> clock + Ttl]
      <4>1. clock <= got[c].at + Delay /\ got[c].at \in Nat /\ clock \in Nat
        BY <2>0 DEF Ages, InTime, HistoryTypes
      <4>2. cache'[key].until = clock + Ttl /\ cache'[key].at = got[c].at
        BY <3>2
      <4> QED BY <1>0, <4>1, <4>2
    <3> QED BY <2>0, <3>1, <3>2
  <2>4. ASSUME NEW d \in Calls PROVE AgeOf(d)'
    <3>1. AgeOf(d) /\ (pc'[d] \in AtDocument => pc[d] \in AtDocument)
      BY <2>0, AgesByCall DEF Ages, AtDocument
    <3> QED BY <2>0, <3>1 DEF AgeOf
  <2> QED BY <2>1, <2>2, <2>3, <2>4 DEF Ages, AnswerAge, AgeOf, AtDocument
<1>4. ASSUME NEW c \in Calls, LatestSnapshot(c) \/ AddSnapshot(c)
      PROVE  Ages'
  <2>0. /\ UNCHANGED <<clock, cache, started, got>>
        /\ pc[c] \in {"compare", "snapshot"} /\ pc'[c] \in {"snapshot", "record"}
        /\ \A d \in Calls \ {c} : pc'[d] = pc[d]
    BY <1>4, LatestEffect, AddEffect
  <2>1. Lifetimes' /\ Begun' /\ InTime'
    BY <2>0 DEF Ages, Lifetimes, Begun, InTime
  <2>2. ASSUME NEW d \in Calls PROVE AgeOf(d)'
    <3>1. AgeOf(d) /\ (pc'[d] \in AtDocument => pc[d] \in AtDocument)
      BY <2>0, AgesByCall DEF Ages, AtDocument
    <3> QED BY <2>0, <3>1 DEF AgeOf
  <2> QED BY <2>1, <2>2 DEF Ages, AnswerAge, AgeOf, AtDocument
<1>5. ASSUME NEW c \in Calls, Ends(c)
      PROVE  Ages'
  <2>0. /\ UNCHANGED <<clock, cache, started, got>>
        /\ pc'[c] \in {"done", "failed", "lookup"}
        /\ \A d \in Calls \ {c} : pc'[d] = pc[d]
    BY <1>5, EndsEffect DEF Over
  <2>1. Lifetimes' /\ Begun' /\ InTime'
    BY <2>0 DEF Ages, Lifetimes, Begun, InTime
  <2>2. ASSUME NEW d \in Calls PROVE AgeOf(d)'
    <3>1. AgeOf(d) /\ (pc'[d] \in AtDocument => pc[d] \in AtDocument)
      BY <2>0, AgesByCall DEF Ages, AtDocument
    <3> QED BY <2>0, <3>1 DEF AgeOf
  <2> QED BY <2>1, <2>2 DEF Ages, AnswerAge, AgeOf, AtDocument
<1>6. CASE (\E u \in Urls : PageChanges(u)) \/ Tick
  <2>0. /\ UNCHANGED <<cache, pc, started, got>>
        /\ clock' \in Nat /\ clock <= clock'
        /\ clock' # clock =>
             /\ clock' = clock + 1
             /\ \A c \in Calls : pc[c] \in {"merge", "store"} => clock - got[c].at < Delay
    BY <1>6, WorldEffect
  <2>1. Lifetimes' /\ Begun'
    BY <2>0 DEF Ages, Lifetimes, Begun, HistoryTypes
  <2>2. InTime'
    <3> SUFFICES ASSUME NEW c \in Calls, pc[c] \in {"merge", "store"}
                 PROVE  clock' <= got[c].at + Delay
      BY <2>0 DEF InTime
    <3>1. clock \in Nat /\ got[c].at \in Nat /\ clock <= got[c].at + Delay
      BY DEF Ages, InTime, HistoryTypes
    <3> QED BY <1>0, <2>0, <3>1
  <2>3. AnswerAge'
    BY <2>0 DEF Ages, AnswerAge
  <2> QED BY <2>1, <2>2, <2>3 DEF Ages
<1> QED BY <1>1, <1>2, <1>3, <1>4, <1>5, <1>6, Steps

\* However many calls fetch, merge and overwrite one another's entries: an
\* answer from the cache is younger than a lifetime and the longest way from a
\* fetch to its row, and a fresh one or a comparison is of its own call.
THEOREM AnswersAreRecent ==
    Spec => []AnswerAge
<1>1. Init => HistoryTypes /\ Ages
  <2> SUFFICES ASSUME Init PROVE HistoryTypes /\ Ages
    OBVIOUS
  <2>1. HistoryTypes
    BY HistoryTypesInit
  <2>2. Ttl \in Nat /\ Delay \in Nat
    BY HistoryAssumption
  <2>3. Lifetimes
    BY <2>2 DEF Init, NoRow, Lifetimes
  <2>4. InTime /\ Begun /\ AnswerAge
    BY DEF Init, InTime, Begun, AnswerAge
  <2> QED BY <2>1, <2>3, <2>4 DEF Ages
<1>2. HistoryTypes /\ Ages /\ [Next]_vars => (HistoryTypes /\ Ages)'
  <2>1. CASE Next
    BY <2>1, HistoryTypesStep, AgesStep
  <2>2. CASE UNCHANGED vars
    BY <2>2 DEF vars, remembered, answers, HistoryTypes, Ages, Lifetimes,
       InTime, Begun, AnswerAge
  <2> QED BY <2>1, <2>2
<1>3. Ages => AnswerAge
  BY DEF Ages
<1> QED BY <1>1, <1>2, <1>3, PTL DEF Spec

Snapshot == [hash : (Operations \cup {"text"}) \X Nat, version : Nat, call : Calls]
Subject(c) == UrlsOf[c][1]
Told == {"record", "done", "failed"}

\* A snapshot is of a call that has compared, and its hash is of its version.
Written ==
    /\ snapshots \in [Urls -> Seq(Snapshot)]
    /\ \A u \in Urls : \A i \in 1..Len(snapshots[u]) :
         /\ snapshots[u][i].hash[2] = snapshots[u][i].version
         /\ Compares(snapshots[u][i].call)
         /\ pc[snapshots[u][i].call] \in Told

OnlyComparers ==
    \A c \in Calls : pc[c] \in {"compare", "snapshot"} => Compares(c)

\* What a call compares with is there.
SeesSome ==
    /\ previous \in [Calls -> Nat]
    /\ \A c \in Calls : pc[c] = "snapshot" => previous[c] <= Len(snapshots[Subject(c)])

Announced == Written /\ OnlyComparers /\ SeesSome /\ ChangesAreTold

LEMMA Subjects ==
    ASSUME NEW c \in Calls
    PROVE  Subject(c) \in Urls
<1>1. UrlsOf[c] \in Seq(Urls) /\ Len(UrlsOf[c]) \in 1..5
  BY Plans
<1> QED BY <1>1 DEF Subject

\* A call that compares has one URL.
LEMMA ComparesSubject ==
    ASSUME HistoryTypes, NEW c \in Calls, Compares(c),
           pc[c] \notin Over
    PROVE  UrlOf(c) = Subject(c)
<1>1. Len(UrlsOf[c]) = 1
  BY Plans
<1>2. items[c] \in Seq({"ok", "error"}) /\ Len(items[c]) < Len(UrlsOf[c])
  BY DEF HistoryTypes
<1>3. Len(items[c]) + 1 = 1
  BY <1>1, <1>2
<1> QED BY <1>3 DEF UrlOf, Subject

\* Steps that add no snapshot and take no comparison back.
LEMMA NothingAdded ==
    ASSUME Announced, UNCHANGED <<snapshots, told>>,
           \A c \in Calls : Compares(c) /\ pc[c] \in Told => pc'[c] \in Told
    PROVE  Written' /\ ChangesAreTold'
<1>1. Written'
  <2> SUFFICES ASSUME NEW u \in Urls, NEW i \in 1..Len(snapshots[u])
               PROVE  pc'[snapshots[u][i].call] \in Told
    BY DEF Announced, Written, Compares
  <2>1. snapshots[u] \in Seq(Snapshot)
    BY DEF Announced, Written
  <2>2. snapshots[u][i] \in Snapshot
    BY <2>1
  <2>3. snapshots[u][i].call \in Calls
    BY <2>2 DEF Snapshot
  <2> QED BY <2>3 DEF Announced, Written
<1>2. ChangesAreTold'
  BY DEF Announced, ChangesAreTold
<1> QED BY <1>1, <1>2

\* The new snapshot is announced if no other has its version, and the rest stays
\* as it was.
LEMMA AddAnnounces ==
    ASSUME HistoryTypes, Announced, NEW c \in Calls, AddSnapshot(c)
    PROVE  Announced'
<1> DEFINE u == Subject(c)
           all == snapshots[u]
           version == got[c].version
           new == [hash |-> Hash(OpOf[c], version), version |-> version, call |-> c]
<1>1. /\ UNCHANGED <<got, previous, items>>
      /\ pc[c] = "snapshot" /\ pc'[c] = "record"
      /\ \A d \in Calls \ {c} : pc'[d] = pc[d] /\ told'[d] = told[d]
      /\ told'[c] = Verdict(c)
  BY AddEffect
<1>2. Compares(c) /\ UrlOf(c) = u /\ u \in Urls
  BY <1>1, ComparesSubject, Subjects DEF Announced, OnlyComparers, Over
<1>3. all \in Seq(Snapshot) /\ Len(all) \in Nat /\ version \in Nat
      /\ previous[c] \in Nat /\ previous[c] <= Len(all)
  BY <1>1, <1>2 DEF Announced, Written, SeesSome, HistoryTypes
<1>4. Hash(OpOf[c], version) \in (Operations \cup {"text"}) \X Nat
      /\ Hash(OpOf[c], version)[2] = version
  BY <1>3, Plans DEF Hash
<1>5. new \in Snapshot /\ new.hash[2] = version /\ new.version = version /\ new.call = c
  BY <1>3, <1>4 DEF Snapshot
<1>6. snapshots' = [snapshots EXCEPT ![u] = Append(all, new)]
  BY <1>2, AddEffect
<1>7. /\ snapshots' \in [Urls -> Seq(Snapshot)]
      /\ snapshots'[u] = Append(all, new)
      /\ \A v \in Urls \ {u} : snapshots'[v] = snapshots[v]
  BY <1>2, <1>3, <1>5, <1>6 DEF Announced, Written
<1>8. /\ Len(snapshots'[u]) = Len(all) + 1
      /\ snapshots'[u][Len(all) + 1] = new
      /\ \A i \in 1..Len(all) : snapshots'[u][i] = all[i]
  BY <1>3, <1>5, <1>7
<1>9. \A v \in Urls : \A i \in 1..Len(snapshots[v]) :
        /\ snapshots[v][i] \in Snapshot
        /\ snapshots[v][i].call \in Calls \ {c}
  <2> SUFFICES ASSUME NEW v \in Urls, NEW i \in 1..Len(snapshots[v])
               PROVE  /\ snapshots[v][i] \in Snapshot
                      /\ snapshots[v][i].call \in Calls \ {c}
    OBVIOUS
  <2>1. snapshots[v] \in Seq(Snapshot)
    BY DEF Announced, Written
  <2>2. snapshots[v][i] \in Snapshot
    BY <2>1
  <2>3. pc[snapshots[v][i].call] \in Told
    BY DEF Announced, Written
  <2> QED BY <1>1, <2>2, <2>3 DEF Snapshot, Told
<1>10. told'[c] =
         IF previous[c] = 0 THEN "baseline"
         ELSE IF all[previous[c]].hash # Hash(OpOf[c], version) THEN "changed" ELSE "same"
  BY <1>1, <1>2 DEF Verdict
<1>11. ASSUME \A j \in 1..Len(all) : all[j].version # version
       PROVE  told'[c] \in {"baseline", "changed"}
  <2>1. CASE previous[c] = 0
    BY <1>10, <2>1
  <2>2. CASE previous[c] # 0
    <3>1. previous[c] \in 1..Len(all)
      BY <1>3, <2>2
    <3>2. all[previous[c]].hash[2] = all[previous[c]].version
      BY <1>2, <3>1 DEF Announced, Written
    <3>3. all[previous[c]].hash # Hash(OpOf[c], version)
      BY <1>4, <1>11, <3>1, <3>2
    <3> QED BY <1>10, <2>2, <3>3
  <2> QED BY <2>1, <2>2
<1> HIDE DEF u, all, version, new
<1>12. ASSUME NEW v \in Urls, NEW i \in 1..Len(snapshots'[v])
       PROVE  \/ /\ i \in 1..Len(snapshots[v]) /\ snapshots'[v][i] = snapshots[v][i]
                 /\ \A j \in 1..(i - 1) : snapshots'[v][j] = snapshots[v][j]
              \/ /\ v = u /\ i = Len(all) + 1
  <2>1. CASE v # u
    BY <1>7, <2>1
  <2>2. CASE v = u /\ i # Len(all) + 1
    <3>1. i \in 1..Len(all) /\ \A j \in 1..(i - 1) : j \in 1..Len(all)
      BY <1>3, <1>8, <2>2
    <3> QED BY <1>8, <2>2, <3>1 DEF all
  <2>3. CASE v = u /\ i = Len(all) + 1
    BY <2>3
  <2> QED BY <2>1, <2>2, <2>3
<1>13. Written'
  <2> SUFFICES ASSUME NEW v \in Urls, NEW i \in 1..Len(snapshots'[v])
               PROVE  /\ snapshots'[v][i].hash[2] = snapshots'[v][i].version
                      /\ Compares(snapshots'[v][i].call)
                      /\ pc'[snapshots'[v][i].call] \in Told
    BY <1>7 DEF Written, Compares
  <2>1. CASE i \in 1..Len(snapshots[v]) /\ snapshots'[v][i] = snapshots[v][i]
    BY <1>1, <1>9, <2>1 DEF Announced, Written
  <2>2. CASE v = u /\ i = Len(all) + 1
    BY <1>1, <1>2, <1>5, <1>8, <2>2 DEF Told
  <2> QED BY <1>12, <2>1, <2>2
<1>14. ChangesAreTold'
  <2> SUFFICES ASSUME NEW v \in Urls, NEW i \in 1..Len(snapshots'[v]),
                      \A j \in 1..(i - 1) : snapshots'[v][j].version # snapshots'[v][i].version
               PROVE  told'[snapshots'[v][i].call] \in {"baseline", "changed"}
    <3>1. \A v \in Urls : DOMAIN snapshots'[v] = 1..Len(snapshots'[v])
      BY <1>7
    <3> QED BY <3>1 DEF ChangesAreTold
  <2>1. CASE /\ i \in 1..Len(snapshots[v]) /\ snapshots'[v][i] = snapshots[v][i]
             /\ \A j \in 1..(i - 1) : snapshots'[v][j] = snapshots[v][j]
    <3>1. snapshots[v] \in Seq(Snapshot)
      BY DEF Announced, Written
    <3>2. i \in DOMAIN snapshots[v]
      BY <2>1, <3>1
    <3>3. told[snapshots[v][i].call] \in {"baseline", "changed"}
      BY <2>1, <3>2 DEF Announced, ChangesAreTold
    <3> QED BY <1>1, <1>9, <2>1, <3>3
  <2>2. CASE v = u /\ i = Len(all) + 1
    <3>1. i - 1 = Len(all)
      BY <1>3, <2>2
    <3>2. \A j \in 1..Len(all) : all[j].version # version
      BY <1>5, <1>8, <2>2, <3>1
    <3> QED BY <1>5, <1>8, <1>11, <2>2, <3>2
  <2> QED BY <1>12, <2>1, <2>2
<1>15. OnlyComparers'
  BY <1>1 DEF Announced, OnlyComparers, Compares
<1>16. SeesSome'
  <2> SUFFICES ASSUME NEW d \in Calls, pc'[d] = "snapshot"
               PROVE  previous'[d] <= Len(snapshots'[Subject(d)])
    BY <1>1 DEF Announced, SeesSome, Subject
  <2>1. d # c
    BY <1>1
  <2>2. previous[d] <= Len(snapshots[Subject(d)]) /\ previous[d] \in Nat
    BY <1>1, <2>1 DEF Announced, SeesSome
  <2>3. CASE Subject(d) = u
    BY <1>1, <1>3, <1>8, <2>2, <2>3 DEF all
  <2>4. CASE Subject(d) # u
    BY <1>1, <1>7, <2>2, <2>4, Subjects
  <2> QED BY <2>3, <2>4
<1> QED BY <1>13, <1>14, <1>15, <1>16 DEF Announced

LEMMA AnnouncedStep ==
    ASSUME HistoryTypes, Announced, Next
    PROVE  Announced'
<1>1. ASSUME NEW c \in Calls,
             \/ Begin(c) \/ TurnAway(c)
             \/ Hit(c) \/ Miss(c) \/ ReadPage(c)
             \/ Merge(c) \/ Store(c)
             \/ Ends(c)
      PROVE  Announced'
  <2>1. /\ UNCHANGED <<snapshots, told, previous>>
        /\ \A d \in Calls \ {c} : pc'[d] = pc[d]
        /\ pc[c] \in {"idle", "lookup", "fetching", "merge", "store", "record"}
        /\ pc'[c] # "snapshot" /\ (pc'[c] = "compare" => Compares(c))
        /\ pc[c] = "record" /\ OpOf[c] # "batch" => pc'[c] \in {"done", "failed"}
    BY <1>1, BeginEffect, LookEffect, StoreEffect, EndsEffect DEF Over
  <2>2. Compares(c) => OpOf[c] # "batch"
    BY Plans
  <2>3. Written' /\ ChangesAreTold'
    BY <2>1, <2>2, NothingAdded DEF Told
  <2> QED BY <2>1, <2>3 DEF Announced, OnlyComparers, SeesSome, Compares, Subject
<1>2. ASSUME NEW c \in Calls, LatestSnapshot(c)
      PROVE  Announced'
  <2>1. /\ UNCHANGED <<snapshots, told>>
        /\ pc[c] = "compare" /\ pc'[c] = "snapshot"
        /\ \A d \in Calls \ {c} : pc'[d] = pc[d]
        /\ previous' = [previous EXCEPT ![c] = Len(snapshots[UrlOf(c)])]
    BY <1>2, LatestEffect
  <2>2. Compares(c) /\ UrlOf(c) = Subject(c) /\ Subject(c) \in Urls
    BY <2>1, ComparesSubject, Subjects DEF Announced, OnlyComparers, Over
  <2>3. Len(snapshots[Subject(c)]) \in Nat
    BY <2>2 DEF Announced, Written
  <2>4. previous' \in [Calls -> Nat] /\ previous'[c] = Len(snapshots[Subject(c)])
        /\ \A d \in Calls \ {c} : previous'[d] = previous[d]
    BY <2>1, <2>2, <2>3 DEF Announced, SeesSome
  <2>5. Written' /\ ChangesAreTold'
    BY <2>1, NothingAdded DEF Told
  <2>6. SeesSome'
    BY <2>1, <2>3, <2>4 DEF Announced, SeesSome, Subject
  <2> QED BY <2>1, <2>2, <2>5, <2>6 DEF Announced, OnlyComparers, Compares
<1>3. ASSUME NEW c \in Calls, AddSnapshot(c)
      PROVE  Announced'
  BY <1>3, AddAnnounces
<1>4. CASE (\E u \in Urls : PageChanges(u)) \/ Tick
  <2>1. UNCHANGED <<snapshots, pc, told, previous>>
    BY <1>4, WorldEffect
  <2>2. Written' /\ ChangesAreTold'
    BY <2>1, NothingAdded
  <2> QED BY <2>1, <2>2 DEF Announced, OnlyComparers, SeesSome, Compares, Subject
<1> QED BY <1>1, <1>2, <1>3, <1>4, Steps

\* However comparisons overlap, use old documents of the cache or hash other
\* texts than each other: a version that no snapshot held before is announced to
\* the call that brings it.
THEOREM VersionsAreAnnounced ==
    Spec => []ChangesAreTold
<1>1. Init => HistoryTypes /\ Announced
  <2> SUFFICES ASSUME Init PROVE HistoryTypes /\ Announced
    OBVIOUS
  <2>1. HistoryTypes
    BY HistoryTypesInit
  <2>2. \A u \in Urls : snapshots[u] \in Seq(Snapshot) /\ Len(snapshots[u]) = 0
                        /\ DOMAIN snapshots[u] = {}
    <3>1. snapshots = [u \in Urls |-> <<>>]
      BY DEF Init
    <3> QED BY <3>1
  <2>3. snapshots \in [Urls -> Seq(Snapshot)] /\ previous \in [Calls -> Nat]
    BY <2>2 DEF Init
  <2>4. Written /\ ChangesAreTold
    BY <2>2, <2>3 DEF Written, ChangesAreTold
  <2>5. OnlyComparers /\ SeesSome
    BY <2>3 DEF Init, OnlyComparers, SeesSome
  <2> QED BY <2>1, <2>4, <2>5 DEF Announced
<1>2. HistoryTypes /\ Announced /\ [Next]_vars => (HistoryTypes /\ Announced)'
  <2>1. CASE HistoryTypes /\ Announced /\ Next
    BY <2>1, HistoryTypesStep, AnnouncedStep
  <2>2. CASE HistoryTypes /\ Announced /\ UNCHANGED vars
    <3>1. UNCHANGED <<page, clock, cache, snapshots, pc, started, got, previous, items, told, broken>>
      BY <2>2 DEF vars, remembered, answers
    <3>2. HistoryTypes'
      BY <2>2, <3>1 DEF HistoryTypes
    <3>3. Announced'
      BY <2>2, <3>1 DEF Announced, Written, OnlyComparers, SeesSome, ChangesAreTold, Compares, Subject
    <3> QED BY <3>2, <3>3
  <2> QED BY <2>1, <2>2
<1>3. Announced => ChangesAreTold
  BY DEF Announced
<1> QED BY <1>1, <1>2, <1>3, PTL DEF Spec

-----------------------------------------------------------------------------
(* The release *)

\* From the resumption on, in the release or in the last turn of its rollback, a
\* paused service is the owner's wish.
Resumed ==
    /\ enabled \in BOOLEAN /\ ownerPaused \in BOOLEAN /\ switched \in BOOLEAN
    /\ scriptPc \in {"check", "done"} => enabled \/ ownerPaused
    /\ scriptPc \in {"exit", "ended"} /\ switched /\ failures \cap {"files", "resume"} = {} =>
         enabled \/ ownerPaused

LEMMA ResumedStep ==
    ASSUME Resumed, [ReleaseNext]_releaseVars
    PROVE  Resumed'
<1>1. CASE BeginRelease \/ Build \/ Pause \/ Upgrade \/ Replace
  BY <1>1 DEF Resumed, BeginRelease, Build, Pause, Upgrade,
     Replace, ScriptGoto
<1>2. CASE ResumeService \/ Complete
  BY <1>2 DEF Resumed, ResumeService, Complete, ScriptGoto
<1>3. CASE Fail \/ Stop \/ Downgrade \/ Recreate \/ TrapAgain \/ Killed
  BY <1>3 DEF Resumed, Fail, Stop, Downgrade, Recreate, TrapAgain, Killed, ScriptGoto
<1>4. CASE Trap \/ RestoreFiles \/ Retag
  <2>1. CASE Trap
    BY <2>1 DEF Resumed, Trap, TrapBranch, Failing, ScriptGoto
  <2>2. CASE RestoreFiles
    BY <2>2 DEF Resumed, RestoreFiles, Failing, ScriptGoto
  <2>3. CASE Retag
    BY <2>3 DEF Resumed, Retag, ScriptGoto
  <2> QED BY <1>4, <2>1, <2>2, <2>3
<1>5. CASE Resume \/ Exit
  <2>1. CASE Resume
    BY <2>1 DEF Resumed, Resume, Failing, ScriptGoto
  <2>2. CASE Exit
    BY <2>2 DEF Resumed, Exit, ScriptGoto
  <2> QED BY <1>5, <2>1, <2>2
<1>6. CASE ContainerStarts \/ Others
  <2>1. /\ UNCHANGED <<scriptPc, switched, failures>>
        /\ \/ UNCHANGED <<enabled, ownerPaused>>
           \/ enabled' = FALSE /\ ownerPaused' = TRUE
           \/ enabled' = TRUE /\ ownerPaused' = FALSE
    BY <1>6 DEF ContainerStarts, Others, ContainerRestarts,
       BuyerPays, OwnerPauses, OwnerResumes, StartPromo,
       EndPromo, OwnerPrices, script
  <2> QED BY <2>1 DEF Resumed
<1>7. CASE UNCHANGED releaseVars
  BY <1>7 DEF Resumed, releaseVars, script
<1> QED BY <1>1, <1>2, <1>3, <1>4, <1>5, <1>6, <1>7 DEF ReleaseNext, Script

\* Whatever else of a release that has switched and of its rollback fails, the
\* service takes payments again at the end, unless the owner has paused it: what is
\* assumed is that the statement which resumes it went through, and that none of
\* the file commands ended the trap before it.
THEOREM SalesGoOn == ReleaseSpec => []SalesResume
<1>1. ReleaseInit => Resumed
  BY DEF ReleaseInit, Resumed
<1>2. Resumed /\ [ReleaseNext]_releaseVars => Resumed'
  BY ResumedStep
<1>3. Resumed => SalesResume
  BY DEF Resumed, SalesResume
<1> QED BY <1>1, <1>2, <1>3, PTL DEF ReleaseSpec

-----------------------------------------------------------------------------
(* Upgrades and downgrades *)

\* The recursion of an upgrade, and its solutions.
Chain(b, hi, tools, g) ==
    g = [n \in b.rev..hi |-> IF n = b.rev THEN b ELSE Migrated(g[n - 1], n, tools)]

LEMMA UpgradeIsChain ==
    ASSUME NEW b, NEW hi, NEW tools
    PROVE  Upgraded(b, hi, tools) =
             IF b.rev > hi THEN Failed ELSE (CHOOSE g : Chain(b, hi, tools, g))[hi]
BY DEF Upgraded, Chain

LEMMA ChainExists ==
    ASSUME NEW b, b.rev \in Nat, NEW tools
    PROVE  \A k \in Nat : \E g : Chain(b, b.rev + k, tools, g)
<1> DEFINE Bad == {k \in Nat : ~ \E g : Chain(b, b.rev + k, tools, g)}
<1> SUFFICES ASSUME Bad # {} PROVE FALSE
  OBVIOUS
<1>1. PICK k \in Bad : \A j \in Bad : <<j, k>> \notin OpToRel(<, Nat)
  <2>1. Bad \subseteq Nat
    OBVIOUS
  <2> HIDE DEF Bad
  <2> QED BY <2>1, WFMin, NatLessThanWellFounded
<1>2. k \in Nat /\ ~ \E g : Chain(b, b.rev + k, tools, g)
  OBVIOUS
<1>3. CASE k = 0
  <2> DEFINE g == [n \in b.rev..b.rev + k |-> b]
  <2>1. \A n \in b.rev..b.rev + k : n = b.rev
    BY <1>3
  <2>2. g = [n \in b.rev..b.rev + k |-> IF n = b.rev THEN b ELSE Migrated(g[n - 1], n, tools)]
    BY <2>1
  <2> QED BY <1>2, <2>2 DEF Chain
<1>4. CASE k # 0
  <2>1. k - 1 \in Nat /\ <<k - 1, k>> \in OpToRel(<, Nat)
    BY <1>2, <1>4 DEF OpToRel
  <2>2. PICK g : Chain(b, b.rev + (k - 1), tools, g)
    BY <1>1, <2>1
  <2> DEFINE h == [n \in b.rev..b.rev + k |->
                     IF n = b.rev THEN b ELSE Migrated(g[n - 1], n, tools)]
  <2>3. \A n \in b.rev..b.rev + k : n # b.rev =>
          /\ n - 1 \in b.rev..b.rev + (k - 1) /\ n - 1 \in b.rev..b.rev + k
    BY <1>2
  <2>4. \A n \in b.rev..b.rev + (k - 1) : h[n] = g[n]
    <3>1. \A n \in b.rev..b.rev + (k - 1) :
            g[n] = IF n = b.rev THEN b ELSE Migrated(g[n - 1], n, tools)
      BY <2>2 DEF Chain
    <3>2. \A n \in b.rev..b.rev + (k - 1) : n \in b.rev..b.rev + k
      BY <1>2
    <3> QED BY <3>1, <3>2
  <2>5. h = [n \in b.rev..b.rev + k |-> IF n = b.rev THEN b ELSE Migrated(h[n - 1], n, tools)]
    <3>1. \A n \in b.rev..b.rev + k : n # b.rev => h[n - 1] = g[n - 1]
      BY <2>3, <2>4
    <3> HIDE DEF h
    <3>2. h = [n \in b.rev..b.rev + k |-> IF n = b.rev THEN b ELSE Migrated(g[n - 1], n, tools)]
      BY DEF h
    <3> QED BY <3>1, <3>2
  <2> QED BY <1>2, <2>5 DEF Chain
<1> QED BY <1>3, <1>4

LEMMA ChainsAgree ==
    ASSUME NEW b, b.rev \in Nat, NEW tools, NEW hi \in Nat, NEW g, NEW h,
           Chain(b, hi, tools, g), Chain(b, hi + 1, tools, h)
    PROVE  \A n \in b.rev..hi : g[n] = h[n]
<1> DEFINE Bad == {n \in b.rev..hi : g[n] # h[n]}
<1> SUFFICES ASSUME Bad # {} PROVE FALSE
  OBVIOUS
<1>1. PICK n \in Bad : \A j \in Bad : <<j, n>> \notin OpToRel(<, Nat)
  <2>1. Bad \subseteq Nat
    OBVIOUS
  <2> HIDE DEF Bad
  <2> QED BY <2>1, WFMin, NatLessThanWellFounded
<1>2. n \in b.rev..hi /\ g[n] # h[n] /\ n \in Nat
  OBVIOUS
<1>3. /\ g[n] = IF n = b.rev THEN b ELSE Migrated(g[n - 1], n, tools)
      /\ h[n] = IF n = b.rev THEN b ELSE Migrated(h[n - 1], n, tools)
  <2>1. n \in b.rev..hi + 1
    BY <1>2
  <2> QED BY <1>2, <2>1 DEF Chain
<1>4. n # b.rev
  BY <1>2, <1>3
<1>5. n - 1 \in b.rev..hi /\ <<n - 1, n>> \in OpToRel(<, Nat)
  BY <1>2, <1>4 DEF OpToRel
<1>6. g[n - 1] = h[n - 1]
  BY <1>1, <1>5
<1> QED BY <1>2, <1>3, <1>4, <1>6

\* An upgrade is one migration after the other.
LEMMA UpgradeUnfolds ==
    ASSUME NEW b, b.rev \in Nat, NEW tools
    PROVE  /\ Upgraded(b, b.rev, tools) = b
           /\ \A n \in Nat : n >= b.rev =>
                Upgraded(b, n + 1, tools) = Migrated(Upgraded(b, n, tools), n + 1, tools)
           /\ \A n \in Nat : n < b.rev => Upgraded(b, n, tools) = Failed
<1>1. ASSUME NEW n \in Nat, n >= b.rev
      PROVE  Chain(b, n, tools, CHOOSE g : Chain(b, n, tools, g))
  <2>1. n - b.rev \in Nat /\ b.rev + (n - b.rev) = n
    BY <1>1
  <2>2. \E g : Chain(b, n, tools, g)
    BY <2>1, ChainExists
  <2> QED BY <2>2
<1>2. ASSUME NEW n \in Nat, n >= b.rev
      PROVE  Upgraded(b, n, tools) = (CHOOSE g : Chain(b, n, tools, g))[n]
  BY <1>2, UpgradeIsChain
<1>3. Upgraded(b, b.rev, tools) = b
  <2> DEFINE one == CHOOSE g : Chain(b, b.rev, tools, g)
  <2>1. b.rev \in b.rev..b.rev /\ b.rev >= b.rev
    OBVIOUS
  <2>2. Chain(b, b.rev, tools, one) /\ Upgraded(b, b.rev, tools) = one[b.rev]
    BY <1>1, <1>2, <2>1
  <2> HIDE DEF one
  <2> QED BY <2>1, <2>2 DEF Chain
<1>4. ASSUME NEW n \in Nat, n >= b.rev
      PROVE  Upgraded(b, n + 1, tools) = Migrated(Upgraded(b, n, tools), n + 1, tools)
  <2> DEFINE one == CHOOSE g : Chain(b, n, tools, g)
             two == CHOOSE g : Chain(b, n + 1, tools, g)
  <2>1. Chain(b, n, tools, one) /\ Upgraded(b, n, tools) = one[n]
    BY <1>1, <1>2, <1>4
  <2>2. n + 1 \in Nat /\ n + 1 >= b.rev
    BY <1>4
  <2>3. Chain(b, n + 1, tools, two) /\ Upgraded(b, n + 1, tools) = two[n + 1]
    BY <1>1, <1>2, <2>2
  <2> HIDE DEF one, two
  <2>4. one[n] = two[n]
    <3>1. n \in b.rev..n
      BY <1>4
    <3> QED BY <2>1, <2>3, <3>1, ChainsAgree
  <2>5. n + 1 \in b.rev..n + 1 /\ n + 1 # b.rev /\ (n + 1) - 1 = n
    BY <1>4
  <2>6. two[n + 1] = Migrated(two[n], n + 1, tools)
    BY <2>3, <2>5 DEF Chain
  <2> QED BY <2>1, <2>3, <2>4, <2>6
<1>5. ASSUME NEW n \in Nat, n < b.rev PROVE Upgraded(b, n, tools) = Failed
  BY <1>5, UpgradeIsChain
<1> QED BY <1>3, <1>4, <1>5

\* What each migration makes, without the form of its record.
InitialTables ==
    {"service_settings", "request_events", "url_cache", "url_snapshots",
     "error_events", "bot_audit_log"}
PaymentTables == {"payment_events", "payment_attempts"}
TemplateTables == {"message_templates", "message_template_usage"}
CatalogTables ==
    {"tool_catalog", "settings_catalog", "runtime_settings", "settings_change_log"}

CreatedBy(n) ==
    IF n = 1 THEN InitialTables
    ELSE IF n = 2 THEN PaymentTables
    ELSE IF n = 3 THEN TemplateTables
    ELSE IF n = 4 THEN CatalogTables
    ELSE IF n = 6 THEN {"payment_funnel_events"}
    ELSE IF n = 7 THEN {"free_demo_usage"}
    ELSE {}

AddedBy(n) == IF n = 5 THEN Traced ELSE IF n = 8 THEN Referred ELSE {}

SeededBy(n, tools) == IF n = 4 THEN tools ELSE IF n = 9 THEN NewTools ELSE {}

LEMMA MigrationParts ==
    ASSUME NEW n \in 1..9, NEW tools
    PROVE  /\ Migration(n, tools).creates = CreatedBy(n)
           /\ Migration(n, tools).adds = AddedBy(n)
           /\ Migration(n, tools).seeds = SeededBy(n, tools)
<1>1. CASE n = 1
  <2>1. Migration(n, tools) = Initial
    BY <1>1 DEF Migration
  <2>2. /\ Initial.creates = InitialTables
        /\ Initial.adds = {}
        /\ Initial.seeds = {}
    BY DEF Initial, Nothing, InitialTables
  <2> QED BY <1>1, <2>1, <2>2 DEF CreatedBy, AddedBy, SeededBy
<1>2. CASE n = 2
  <2>1. Migration(n, tools) = Payments
    BY <1>2 DEF Migration
  <2>2. /\ Payments.creates = PaymentTables
        /\ Payments.adds = {}
        /\ Payments.seeds = {}
    BY DEF Payments, Nothing, PaymentTables
  <2> QED BY <1>2, <2>1, <2>2 DEF CreatedBy, AddedBy, SeededBy
<1>3. CASE n = 3
  <2>1. Migration(n, tools) = Templates
    BY <1>3 DEF Migration
  <2>2. /\ Templates.creates = TemplateTables
        /\ Templates.adds = {}
        /\ Templates.seeds = {}
    BY DEF Templates, Nothing, TemplateTables
  <2> QED BY <1>3, <2>1, <2>2 DEF CreatedBy, AddedBy, SeededBy
<1>4. CASE n = 4
  <2>1. Migration(n, tools) = Catalog(tools)
    BY <1>4 DEF Migration
  <2>2. /\ Catalog(tools).creates = CatalogTables
        /\ Catalog(tools).adds = {}
        /\ Catalog(tools).seeds = tools
    BY DEF Catalog, Nothing, CatalogTables
  <2> QED BY <1>4, <2>1, <2>2 DEF CreatedBy, AddedBy, SeededBy
<1>5. CASE n = 5
  <2>1. Migration(n, tools) = Tracing
    BY <1>5 DEF Migration
  <2>2. /\ Tracing.creates = {}
        /\ Tracing.adds = Traced
        /\ Tracing.seeds = {}
    BY DEF Tracing, Nothing
  <2> QED BY <1>5, <2>1, <2>2 DEF CreatedBy, AddedBy, SeededBy
<1>6. CASE n = 6
  <2>1. Migration(n, tools) = Funnel
    BY <1>6 DEF Migration
  <2>2. /\ Funnel.creates = {"payment_funnel_events"}
        /\ Funnel.adds = {}
        /\ Funnel.seeds = {}
    BY DEF Funnel, Nothing
  <2> QED BY <1>6, <2>1, <2>2 DEF CreatedBy, AddedBy, SeededBy
<1>7. CASE n = 7
  <2>1. Migration(n, tools) = Demo
    BY <1>7 DEF Migration
  <2>2. /\ Demo.creates = {"free_demo_usage"}
        /\ Demo.adds = {}
        /\ Demo.seeds = {}
    BY DEF Demo, Nothing
  <2> QED BY <1>7, <2>1, <2>2 DEF CreatedBy, AddedBy, SeededBy
<1>8. CASE n = 8
  <2>1. Migration(n, tools) = Referral
    BY <1>8 DEF Migration
  <2>2. /\ Referral.creates = {}
        /\ Referral.adds = Referred
        /\ Referral.seeds = {}
    BY DEF Referral, Nothing
  <2> QED BY <1>8, <2>1, <2>2 DEF CreatedBy, AddedBy, SeededBy
<1>9. CASE n = 9
  <2>1. Migration(n, tools) = Coverage
    BY <1>9 DEF Migration
  <2>2. /\ Coverage.creates = {}
        /\ Coverage.adds = {}
        /\ Coverage.seeds = NewTools
    BY DEF Coverage, Nothing
  <2> QED BY <1>9, <2>1, <2>2 DEF CreatedBy, AddedBy, SeededBy
<1> QED BY <1>1, <1>2, <1>3, <1>4, <1>5, <1>6, <1>7, <1>8, <1>9

\* The migration that creates a table.
Birth(table) ==
    IF table \in InitialTables THEN 1
    ELSE IF table \in PaymentTables THEN 2
    ELSE IF table \in TemplateTables THEN 3
    ELSE IF table \in CatalogTables THEN 4
    ELSE IF table = "payment_funnel_events" THEN 6
    ELSE IF table = "free_demo_usage" THEN 7
    ELSE 10

AllTables ==
    InitialTables \cup PaymentTables \cup TemplateTables \cup CatalogTables
      \cup {"payment_funnel_events", "free_demo_usage"}

\* The layout of each revision.
TablesAt(n) == {table \in AllTables : Birth(table) <= n}
ColumnsAt(n) ==
    (IF n >= 5 THEN Traced ELSE {}) \cup (IF n >= 8 THEN Referred ELSE {})

LEMMA Births ==
    ASSUME NEW n \in 1..9
    PROVE  CreatedBy(n) = {table \in AllTables : Birth(table) = n}
<1>1. /\ \A table \in InitialTables : Birth(table) = 1
      /\ \A table \in PaymentTables : Birth(table) = 2
      /\ \A table \in TemplateTables : Birth(table) = 3
      /\ \A table \in CatalogTables : Birth(table) = 4
      /\ Birth("payment_funnel_events") = 6
      /\ Birth("free_demo_usage") = 7
  BY DEF Birth, InitialTables, PaymentTables, TemplateTables, CatalogTables
<1>2. CreatedBy(n) \subseteq {table \in AllTables : Birth(table) = n}
  BY <1>1 DEF CreatedBy, AllTables
<1>3. {table \in AllTables : Birth(table) = n} \subseteq CreatedBy(n)
  BY <1>1 DEF CreatedBy, AllTables
<1> QED BY <1>2, <1>3

\* No column is added twice, and none before its table.
LEMMA ColumnsFit ==
    /\ Traced \cap Referred = {}
    /\ \A column \in Traced : column[1] \in TablesAt(4)
    /\ \A column \in Referred : column[1] \in TablesAt(7)
<1>1. Traced \subseteq {"payment_attempts", "payment_events", "request_events", "error_events"} \X
        {"normalized_user_agent", "endpoint", "request_id", "source", "client_fingerprint",
         "attribution"}
  BY DEF Traced, Common
<1>2. \A table \in {"payment_attempts", "payment_events", "request_events", "error_events"} :
        table \in TablesAt(4)
  BY DEF TablesAt, AllTables, Birth, InitialTables, PaymentTables
<1>3. \A table \in {"request_events", "payment_attempts", "payment_events",
                    "payment_funnel_events", "error_events"} : table \in TablesAt(7)
  BY DEF TablesAt, AllTables, Birth, InitialTables, PaymentTables, TemplateTables, CatalogTables
<1> QED BY <1>1, <1>2, <1>3 DEF Referred

\* What an upgrade makes, the downgrade takes away again.
LEMMA UndoingParts ==
    ASSUME NEW n \in 1..9
    PROVE  /\ Undoing(n).drops = CreatedBy(n)
           /\ Undoing(n).removes = AddedBy(n)
           /\ Undoing(n).deletes = IF n = 9 THEN NewTools ELSE {}
<1>1. TracingRemoved = Traced
  BY DEF TracingRemoved, Traced
<1>2. InitialDropped = InitialTables
  BY DEF InitialDropped, InitialTables
<1>3. PaymentsDropped = PaymentTables
  BY DEF PaymentsDropped, PaymentTables
<1>4. TemplatesDropped = TemplateTables
  BY DEF TemplatesDropped, TemplateTables
<1>5. CatalogDropped = CatalogTables
  BY DEF CatalogDropped, CatalogTables
<1> QED
  BY <1>1, <1>2, <1>3, <1>4, <1>5 DEF Undoing, CreatedBy, AddedBy, FunnelDropped, DemoDropped,
     CoverageDeleted

\* A database that has the layout of revision n.
Framed(d) ==
    d = [rev |-> d.rev, tables |-> d.tables, columns |-> d.columns, tools |-> d.tools,
         payments |-> d.payments]

LaidOut(d, n) ==
    /\ Framed(d)
    /\ d.rev = n /\ d.tables = TablesAt(n) /\ d.columns = ColumnsAt(n)

LEMMA LaidOutIsNotFailed ==
    ASSUME NEW d, NEW n, LaidOut(d, n)
    PROVE  d # Failed
<1>1. DOMAIN d = {"rev", "tables", "columns", "tools", "payments"}
  BY DEF LaidOut, Framed
<1>2. DOMAIN Failed = {"failed"}
  BY DEF Failed
<1> QED BY <1>1, <1>2

LEMMA LayoutGrows ==
    ASSUME NEW n \in 0..8
    PROVE  /\ TablesAt(n + 1) = TablesAt(n) \cup CreatedBy(n + 1)
           /\ CreatedBy(n + 1) \cap TablesAt(n) = {}
           /\ ColumnsAt(n + 1) = ColumnsAt(n) \cup AddedBy(n + 1)
           /\ AddedBy(n + 1) \cap ColumnsAt(n) = {}
           /\ {column[1] : column \in AddedBy(n + 1)} \subseteq TablesAt(n)
           /\ \A column \in ColumnsAt(n) : column[1] \in TablesAt(n)
<1>1. CreatedBy(n + 1) = {table \in AllTables : Birth(table) = n + 1}
  BY Births
<1>2. \A table \in AllTables : Birth(table) \in Int
  BY DEF AllTables, Birth
<1>3. /\ TablesAt(n + 1) = TablesAt(n) \cup CreatedBy(n + 1)
      /\ CreatedBy(n + 1) \cap TablesAt(n) = {}
  BY <1>1, <1>2 DEF TablesAt
<1>4. ColumnsAt(n + 1) = ColumnsAt(n) \cup AddedBy(n + 1)
  BY DEF ColumnsAt, AddedBy
<1>5. AddedBy(n + 1) \cap ColumnsAt(n) = {}
  BY ColumnsFit DEF ColumnsAt, AddedBy
<1>6. \A a, b \in 0..9 : a <= b => TablesAt(a) \subseteq TablesAt(b)
  BY <1>2 DEF TablesAt
<1>7. /\ n >= 4 => TablesAt(4) \subseteq TablesAt(n)
      /\ n >= 7 => TablesAt(7) \subseteq TablesAt(n)
  BY <1>6
<1>8. {column[1] : column \in AddedBy(n + 1)} \subseteq TablesAt(n)
  BY <1>7, ColumnsFit DEF AddedBy
<1>9. \A column \in ColumnsAt(n) : column[1] \in TablesAt(n)
  BY <1>7, ColumnsFit DEF ColumnsAt
<1> QED BY <1>3, <1>4, <1>5, <1>8, <1>9

LEMMA LayoutsAscend ==
    /\ \A a, b \in 0..9 : a <= b => TablesAt(a) \subseteq TablesAt(b)
    /\ \A a, b \in 0..9 : a <= b => ColumnsAt(a) \subseteq ColumnsAt(b)
    /\ TablesAt(0) = {} /\ ColumnsAt(0) = {}
    /\ \A n \in 0..9 : "tool_catalog" \in TablesAt(n) <=> n >= 4
<1>1. \A table \in AllTables : Birth(table) \in 1..7
  BY DEF AllTables, Birth
<1>2. "tool_catalog" \in AllTables /\ Birth("tool_catalog") = 4
  BY DEF AllTables, CatalogTables, Birth, InitialTables, PaymentTables, TemplateTables
<1> QED BY <1>1, <1>2 DEF TablesAt, ColumnsAt

\* One migration: it fails only over the rows it inserts.
LEMMA MigrationStep ==
    ASSUME NEW n \in 0..8, NEW d, LaidOut(d, n), NEW tools
    PROVE  LET after == Migrated(d, n + 1, tools) IN
           /\ \/ after = Failed
              \/ /\ LaidOut(after, n + 1)
                 /\ DOMAIN after.tools = SeededBy(n + 1, tools) \cup DOMAIN d.tools
           /\ SeededBy(n + 1, tools) \cap DOMAIN d.tools = {} => after # Failed
<1> DEFINE m == Migration(n + 1, tools)
<1>1. /\ m.creates = CreatedBy(n + 1)
      /\ m.adds = AddedBy(n + 1)
      /\ m.seeds = SeededBy(n + 1, tools)
  BY MigrationParts
<1> HIDE DEF m
<1>2. d # Failed
  BY LaidOutIsNotFailed
<1>3. Fits(d, m) <=> SeededBy(n + 1, tools) \cap DOMAIN d.tools = {}
  BY <1>1, LayoutGrows DEF Fits, LaidOut
<1>4. Migrated(d, n + 1, tools) = IF Fits(d, m) THEN Applied(d, n + 1, m) ELSE Failed
  BY <1>2 DEF Migrated, m
<1>5. /\ LaidOut(Applied(d, n + 1, m), n + 1)
      /\ DOMAIN Applied(d, n + 1, m).tools = SeededBy(n + 1, tools) \cup DOMAIN d.tools
  <2> DEFINE more == [tool \in m.seeds \cup DOMAIN d.tools |->
                        IF tool \in m.seeds THEN "catalog" ELSE d.tools[tool]]
             new == Applied(d, n + 1, m)
  <2>1. DOMAIN more = m.seeds \cup DOMAIN d.tools
    OBVIOUS
  <2>2. new = [rev |-> n + 1, tables |-> d.tables \cup m.creates,
               columns |-> d.columns \cup m.adds, tools |-> more, payments |-> d.payments]
    BY DEF Applied
  <2> HIDE DEF more, new
  <2>4. /\ new.rev = n + 1 /\ new.tables = TablesAt(n + 1) /\ new.columns = ColumnsAt(n + 1)
        /\ new.tools = more
    BY <1>1, <2>2, LayoutGrows DEF LaidOut
  <2>5. Framed(new)
    BY <2>2 DEF Framed
  <2> QED BY <1>1, <2>1, <2>4, <2>5 DEF LaidOut, new
<1>6. Applied(d, n + 1, m) # Failed
  BY <1>5, LaidOutIsNotFailed
<1> QED BY <1>3, <1>4, <1>5, <1>6

\* One downgrade
LEMMA UndoingStep ==
    ASSUME NEW n \in 1..9, NEW d, LaidOut(d, n)
    PROVE  /\ LaidOut(Undone(d, n), n - 1)
           /\ DOMAIN Undone(d, n).tools =
                IF n <= 4 THEN {}
                ELSE IF n = 9 THEN DOMAIN d.tools \ NewTools ELSE DOMAIN d.tools
<1>1. n - 1 \in 0..8 /\ (n - 1) + 1 = n
  OBVIOUS
<1>2. /\ TablesAt(n) = TablesAt(n - 1) \cup CreatedBy(n)
      /\ CreatedBy(n) \cap TablesAt(n - 1) = {}
      /\ ColumnsAt(n) = ColumnsAt(n - 1) \cup AddedBy(n)
      /\ AddedBy(n) \cap ColumnsAt(n - 1) = {}
      /\ \A column \in ColumnsAt(n - 1) : column[1] \in TablesAt(n - 1)
  BY <1>1, LayoutGrows
<1> DEFINE undo == Undoing(n)
           tables == d.tables \ undo.drops
<1>3. /\ undo.drops = CreatedBy(n)
      /\ undo.removes = AddedBy(n)
      /\ undo.deletes = IF n = 9 THEN NewTools ELSE {}
  BY UndoingParts
<1>4. tables = TablesAt(n - 1)
  BY <1>2, <1>3 DEF LaidOut
<1>5. Undone(d, n) =
        [rev |-> n - 1,
         tables |-> tables,
         columns |-> {column \in d.columns \ undo.removes : column[1] \in tables},
         tools |-> [tool \in {t \in DOMAIN d.tools \ undo.deletes : "tool_catalog" \in tables}
                      |-> d.tools[tool]],
         payments |-> IF "payment_events" \in tables THEN d.payments ELSE 0]
  BY DEF Undone
<1> HIDE DEF undo, tables
<1>6. {column \in d.columns \ undo.removes : column[1] \in tables} = ColumnsAt(n - 1)
  BY <1>2, <1>3, <1>4 DEF LaidOut
<1>7. {t \in DOMAIN d.tools \ undo.deletes : "tool_catalog" \in tables} =
        IF n <= 4 THEN {}
        ELSE IF n = 9 THEN DOMAIN d.tools \ NewTools ELSE DOMAIN d.tools
  BY <1>1, <1>3, <1>4, LayoutsAscend
<1> QED BY <1>4, <1>5, <1>6, <1>7 DEF LaidOut, Framed

\* What an upgrade from revision r to revision n inserts.
Inserted(r, n, tools) ==
    (IF r < 4 /\ n >= 4 THEN tools ELSE {}) \cup (IF r < 9 /\ n = 9 THEN NewTools ELSE {})

\* An upgrade of a database that has the layout of its revision.
LEMMA UpgradeLaysOut ==
    ASSUME NEW r \in 0..9, NEW d, LaidOut(d, r), NEW tools
    PROVE  \A n \in r..9 :
             /\ \/ Upgraded(d, n, tools) = Failed
                \/ /\ LaidOut(Upgraded(d, n, tools), n)
                   /\ DOMAIN Upgraded(d, n, tools).tools =
                        Inserted(r, n, tools) \cup DOMAIN d.tools
             /\ /\ r < 4 => tools \cap DOMAIN d.tools = {}
                /\ n = 9 /\ r < 9 => NewTools \cap (DOMAIN d.tools \cup tools) = {}
                => Upgraded(d, n, tools) # Failed
<1> DEFINE Laid(n) ==
             \/ Upgraded(d, n, tools) = Failed
             \/ /\ LaidOut(Upgraded(d, n, tools), n)
                /\ DOMAIN Upgraded(d, n, tools).tools = Inserted(r, n, tools) \cup DOMAIN d.tools
           Free(n) ==
             /\ r < 4 => tools \cap DOMAIN d.tools = {}
             /\ n = 9 /\ r < 9 => NewTools \cap (DOMAIN d.tools \cup tools) = {}
           Good(n) == n >= r => Laid(n) /\ (Free(n) => Upgraded(d, n, tools) # Failed)
<1>1. /\ Upgraded(d, r, tools) = d
      /\ \A n \in Nat : n >= r =>
           Upgraded(d, n + 1, tools) = Migrated(Upgraded(d, n, tools), n + 1, tools)
  BY UpgradeUnfolds DEF LaidOut
<1>2. Inserted(r, r, tools) = {}
  BY DEF Inserted
<1>3. Good(r)
  BY <1>1, <1>2, LaidOutIsNotFailed
<1>4. ASSUME NEW n \in 0..8, Good(n) PROVE Good(n + 1)
  <2>1. CASE n + 1 < r
    BY <2>1
  <2>2. CASE n + 1 = r
    BY <1>3, <2>2
  <2>3. CASE n >= r
    <3> DEFINE before == Upgraded(d, n, tools)
               after == Upgraded(d, n + 1, tools)
    <3>1. after = Migrated(before, n + 1, tools)
      BY <1>1, <2>3
    <3>2. Laid(n) /\ (Free(n) => before # Failed)
      BY <1>4, <2>3
    <3> HIDE DEF before, after
    <3>3. before = Failed => after = Failed
      BY <3>1 DEF Migrated
    <3>4. ASSUME before # Failed
          PROVE  /\ \/ after = Failed
                    \/ /\ LaidOut(after, n + 1)
                       /\ DOMAIN after.tools = SeededBy(n + 1, tools) \cup DOMAIN before.tools
                 /\ SeededBy(n + 1, tools) \cap DOMAIN before.tools = {} => after # Failed
                 /\ DOMAIN before.tools = Inserted(r, n, tools) \cup DOMAIN d.tools
      <4>1. LaidOut(before, n) /\ DOMAIN before.tools = Inserted(r, n, tools) \cup DOMAIN d.tools
        BY <3>2, <3>4 DEF before
      <4> QED BY <3>1, <4>1, MigrationStep
    <3>5. Inserted(r, n + 1, tools) = SeededBy(n + 1, tools) \cup Inserted(r, n, tools)
      BY <2>3 DEF Inserted, SeededBy
    <3>6. Laid(n + 1)
      BY <3>3, <3>4, <3>5 DEF after
    <3>7. ASSUME Free(n + 1) PROVE after # Failed
      <4>1. Free(n)
        BY <3>7
      <4>2. before # Failed
        BY <3>2, <4>1 DEF before
      <4>3. SeededBy(n + 1, tools) \cap (Inserted(r, n, tools) \cup DOMAIN d.tools) = {}
        BY <2>3, <3>7 DEF SeededBy, Inserted
      <4> QED BY <3>4, <4>2, <4>3
    <3> QED BY <3>6, <3>7 DEF after
  <2> QED BY <2>1, <2>2, <2>3
<1> HIDE DEF Good
<1>5. Good(0)
  <2>1. CASE r = 0
    BY <1>3, <2>1
  <2>2. CASE r > 0
    BY <2>2 DEF Good
  <2> QED BY <2>1, <2>2
<1>6. Good(1) /\ Good(2) /\ Good(3)
  <2>1. Good(0 + 1)
    BY <1>4, <1>5
  <2>2. Good(1 + 1)
    BY <1>4, <2>1
  <2>3. Good(2 + 1)
    BY <1>4, <2>2
  <2> QED BY <2>1, <2>2, <2>3
<1>7. Good(4) /\ Good(5) /\ Good(6)
  <2>1. Good(3 + 1)
    BY <1>4, <1>6
  <2>2. Good(4 + 1)
    BY <1>4, <2>1
  <2>3. Good(5 + 1)
    BY <1>4, <2>2
  <2> QED BY <2>1, <2>2, <2>3
<1>8. Good(7) /\ Good(8) /\ Good(9)
  <2>1. Good(6 + 1)
    BY <1>4, <1>7
  <2>2. Good(7 + 1)
    BY <1>4, <2>1
  <2>3. Good(8 + 1)
    BY <1>4, <2>2
  <2> QED BY <2>1, <2>2, <2>3
<1>9. \A n \in r..9 : Good(n)
  BY <1>5, <1>6, <1>7, <1>8
<1> QED BY <1>9 DEF Good

\* The tools that a release made from revision From has at each revision.
ToolsAt(n) == IF n = 9 THEN Tools ELSE IF n >= 4 THEN OldTools ELSE {}

\* A downgrade of the present schema.
LEMMA DowngradeLaysOut ==
    ASSUME OldTools \cap NewTools = {},
           NEW d, LaidOut(d, 9), DOMAIN d.tools = Tools, NEW r \in 0..8
    PROVE  LaidOut(Downgraded(d, r), r) /\ DOMAIN Downgraded(d, r).tools = ToolsAt(r)
<1> DEFINE s8 == Undone(d, 9)
           s7 == Undone(s8, 8)
           s6 == Undone(s7, 7)
           s5 == Undone(s6, 6)
           s4 == Undone(s5, 5)
           s3 == Undone(s4, 4)
           s2 == Undone(s3, 3)
           s1 == Undone(s2, 2)
           s0 == Undone(s1, 1)
           Walk(g) == g = [n \in r..d.rev |-> IF n = d.rev THEN d ELSE Undone(g[n + 1], n + 1)]
           one == CHOOSE g : Walk(g)
<1>1. d.rev = 9
  BY DEF LaidOut
<1>2. Downgraded(d, r) = one[r]
  BY DEF Downgraded
<1>3. \E g : Walk(g)
  <2>1. /\ s8 = Undone(d, 9) /\ s7 = Undone(s8, 8) /\ s6 = Undone(s7, 7)
        /\ s5 = Undone(s6, 6) /\ s4 = Undone(s5, 5) /\ s3 = Undone(s4, 4)
        /\ s2 = Undone(s3, 3) /\ s1 = Undone(s2, 2) /\ s0 = Undone(s1, 1)
    OBVIOUS
  <2> HIDE DEF s8, s7, s6, s5, s4, s3, s2, s1, s0
  <2> DEFINE g == [n \in r..9 |->
                IF n = 9 THEN d ELSE IF n = 8 THEN s8 ELSE IF n = 7 THEN s7
                ELSE IF n = 6 THEN s6 ELSE IF n = 5 THEN s5 ELSE IF n = 4 THEN s4
                ELSE IF n = 3 THEN s3 ELSE IF n = 2 THEN s2 ELSE IF n = 1 THEN s1 ELSE s0]
  <2>2. \A n \in r..9 : n # 9 => g[n] = Undone(g[n + 1], n + 1)
    <3> SUFFICES ASSUME NEW n \in r..9, n # 9 PROVE g[n] = Undone(g[n + 1], n + 1)
      OBVIOUS
    <3>1. n \in 0..8 /\ n + 1 \in r..9
      OBVIOUS
    <3>2. CASE n = 8
      BY <2>1, <3>1, <3>2
    <3>3. CASE n = 7
      BY <2>1, <3>1, <3>3
    <3>4. CASE n = 6
      BY <2>1, <3>1, <3>4
    <3>5. CASE n = 5
      BY <2>1, <3>1, <3>5
    <3>6. CASE n = 4
      BY <2>1, <3>1, <3>6
    <3>7. CASE n = 3
      BY <2>1, <3>1, <3>7
    <3>8. CASE n = 2
      BY <2>1, <3>1, <3>8
    <3>9. CASE n = 1
      BY <2>1, <3>1, <3>9
    <3>10. CASE n = 0
      BY <2>1, <3>1, <3>10
    <3> QED BY <3>1, <3>2, <3>3, <3>4, <3>5, <3>6, <3>7, <3>8, <3>9, <3>10
  <2>3. /\ g = [n \in r..9 |-> g[n]]
        /\ g[9] = d
    BY <1>1
  <2> HIDE DEF g
  <2>4. g = [n \in r..9 |-> IF n = 9 THEN d ELSE Undone(g[n + 1], n + 1)]
    BY <2>2, <2>3
  <2> QED BY <1>1, <2>4
<1>4. Walk(one)
  BY <1>3
<1> HIDE DEF one
<1>5. /\ one[9] = d
      /\ \A n \in r..9 : n # 9 => one[n] = Undone(one[n + 1], n + 1)
  <2>1. one = [n \in r..9 |-> IF n = 9 THEN d ELSE Undone(one[n + 1], n + 1)]
    BY <1>1, <1>4
  <2> HIDE DEF Walk
  <2> QED BY <2>1
<1> HIDE DEF Walk
<1> DEFINE Good(n) == n >= r => LaidOut(one[n], n) /\ DOMAIN one[n].tools = ToolsAt(n)
<1>6. Good(9)
  BY <1>5 DEF ToolsAt
<1>7. ASSUME NEW n \in 1..9, Good(n) PROVE Good(n - 1)
  <2> SUFFICES ASSUME n - 1 >= r
               PROVE  LaidOut(one[n - 1], n - 1) /\ DOMAIN one[n - 1].tools = ToolsAt(n - 1)
    OBVIOUS
  <2>1. LaidOut(one[n], n) /\ DOMAIN one[n].tools = ToolsAt(n)
    BY <1>7
  <2>2. one[n - 1] = Undone(one[n], n)
    BY <1>5
  <2>3. Tools \ NewTools = OldTools
    BY DEF Tools
  <2>4. /\ LaidOut(Undone(one[n], n), n - 1)
        /\ DOMAIN Undone(one[n], n).tools =
             IF n <= 4 THEN {} ELSE IF n = 9 THEN ToolsAt(n) \ NewTools ELSE ToolsAt(n)
    BY <2>1, UndoingStep
  <2>5. (IF n <= 4 THEN {} ELSE IF n = 9 THEN ToolsAt(n) \ NewTools ELSE ToolsAt(n))
          = ToolsAt(n - 1)
    BY <2>3 DEF ToolsAt
  <2> QED BY <2>2, <2>4, <2>5
<1> HIDE DEF Good
<1>8. Good(8) /\ Good(7) /\ Good(6)
  <2>1. Good(8)
    <3>1. 9 \in 1..9 /\ 9 - 1 = 8
      OBVIOUS
    <3> QED BY <1>6, <1>7, <3>1
  <2>2. Good(7)
    <3>1. 8 \in 1..9 /\ 8 - 1 = 7
      OBVIOUS
    <3> QED BY <1>7, <2>1, <3>1
  <2>3. Good(7 - 1)
    BY <1>7, <2>2
  <2> QED BY <2>1, <2>2, <2>3
<1>9. Good(5) /\ Good(4) /\ Good(3)
  <2>1. Good(6 - 1)
    BY <1>7, <1>8
  <2>2. Good(5 - 1)
    BY <1>7, <2>1
  <2>3. Good(4 - 1)
    BY <1>7, <2>2
  <2> QED BY <2>1, <2>2, <2>3
<1>10. Good(2) /\ Good(1) /\ Good(0)
  <2>1. Good(3 - 1)
    BY <1>7, <1>9
  <2>2. Good(2 - 1)
    BY <1>7, <2>1
  <2>3. Good(1 - 1)
    BY <1>7, <2>2
  <2> QED BY <2>1, <2>2, <2>3
<1>11. Good(r)
  BY <1>8, <1>9, <1>10
<1> QED BY <1>2, <1>11 DEF Good

-----------------------------------------------------------------------------
(* What a release and its rollback make of the database *)

LEMMA RowsOfDatabase ==
    ASSUME NEW d, NEW n, LaidOut(d, n), NEW rows
    PROVE  /\ LaidOut([d EXCEPT !.tools = rows], n)
           /\ [d EXCEPT !.tools = rows].tools = rows
           /\ LaidOut([d EXCEPT !.payments = rows], n)
           /\ [d EXCEPT !.payments = rows].tools = d.tools
<1>1. DOMAIN d = {"rev", "tables", "columns", "tools", "payments"}
  BY DEF LaidOut, Framed
<1>2. ASSUME NEW e, DOMAIN e = DOMAIN d, e = [x \in DOMAIN e |-> e[x]]
      PROVE  Framed(e)
  <2>1. e = [x \in {"rev", "tables", "columns", "tools", "payments"} |-> e[x]]
    BY <1>1, <1>2
  <2> QED BY <2>1 DEF Framed
<1> DEFINE e == [d EXCEPT !.tools = rows]
           f == [d EXCEPT !.payments = rows]
<1>3. /\ DOMAIN e = DOMAIN d /\ e = [x \in DOMAIN e |-> e[x]]
      /\ e.rev = d.rev /\ e.tables = d.tables /\ e.columns = d.columns /\ e.tools = rows
  BY <1>1
<1>4. /\ DOMAIN f = DOMAIN d /\ f = [x \in DOMAIN f |-> f[x]]
      /\ f.rev = d.rev /\ f.tables = d.tables /\ f.columns = d.columns /\ f.tools = d.tools
  BY <1>1
<1> HIDE DEF e, f
<1>5. Framed(e) /\ Framed(f)
  BY <1>2, <1>3, <1>4
<1> QED BY <1>3, <1>4, <1>5 DEF LaidOut, e, f

\* What the release before left, and what the two releases read.
LEMMA EmptyIsLaidOut == LaidOut(Empty, 0) /\ DOMAIN Empty.tools = {}
<1>1. Framed(Empty)
  BY DEF Empty, Framed
<1>2. /\ Empty.rev = 0 /\ Empty.tables = {} /\ Empty.columns = {} /\ Empty.tools = <<>>
  BY DEF Empty
<1> QED BY <1>1, <1>2, LayoutsAscend DEF LaidOut

LEMMA BeforeIsLaidOut == LaidOut(Before, From) /\ DOMAIN Before.tools = ToolsAt(From)
<1>1. From \in 0..9 /\ From # 9
  BY DeploymentAssumption DEF HeadRevision
<1>2. ToolsOf("old") = OldTools
  BY DEF ToolsOf
<1>3. /\ 0 \in 0..9 /\ From \in 0..9 /\ LaidOut(Empty, 0) /\ DOMAIN Empty.tools = {}
      /\ Before = Upgraded(Empty, From, OldTools)
  BY <1>1, <1>2, EmptyIsLaidOut DEF Before
<1>4. /\ Before # Failed
      /\ Before = Failed \/ /\ LaidOut(Before, From)
                            /\ DOMAIN Before.tools = Inserted(0, From, OldTools) \cup DOMAIN Empty.tools
  <2>1. OldTools \cap {} = {}
    OBVIOUS
  <2> QED BY <1>1, <1>3, <2>1, UpgradeLaysOut
<1> QED BY <1>1, <1>3, <1>4 DEF Inserted, ToolsAt

LEMMA NeedsOfRelease ==
    ASSUME NEW image
    PROVE  /\ Needs(image).tables = TablesAt(HeadOf(image))
           /\ Needs(image).columns = ColumnsAt(HeadOf(image))
           /\ HeadOf(image) \in 0..9
<1>1. HeadOf(image) \in 0..9
  BY DeploymentAssumption DEF HeadRevision, HeadOf
<1>2. Needs(image) # Failed
  BY <1>1, EmptyIsLaidOut, UpgradeLaysOut DEF Needs
<1>3. LaidOut(Needs(image), HeadOf(image))
  BY <1>1, <1>2, EmptyIsLaidOut, UpgradeLaysOut DEF Needs
<1> QED BY <1>1, <1>3 DEF LaidOut

\* The two layouts a release goes between.
Sound(d, n) == n \in {From, 9} /\ LaidOut(d, n) /\ DOMAIN d.tools = ToolsAt(n)

LEMMA MigrateIsSound ==
    ASSUME NEW d, NEW n, Sound(d, n), NEW image \in {"old", "new"}
    PROVE  LET after == Upgraded(d, HeadOf(image), ToolsOf(image)) IN
           after = Failed \/ Sound(after, HeadOf(image))
<1>1. From \in 0..8 /\ n \in 0..9
  BY DeploymentAssumption DEF HeadRevision, Sound
<1>2. CASE image = "old" /\ n = From
  <2>1. Upgraded(d, n, OldTools) = d
    BY <1>1, UpgradeUnfolds DEF Sound, LaidOut
  <2> QED BY <1>2, <2>1 DEF Sound, HeadOf, ToolsOf
<1>3. CASE image = "old" /\ n # From
  <2>1. d.rev = 9
    BY <1>3 DEF Sound, LaidOut
  <2>2. Upgraded(d, From, OldTools) = Failed
    <3>1. d.rev \in Nat /\ From \in Nat /\ From < d.rev
      BY <1>1, <2>1
    <3> QED BY <3>1, UpgradeUnfolds
  <2> QED BY <1>3, <2>2 DEF HeadOf, ToolsOf
<1>4. CASE image = "new"
  <2> DEFINE after == Upgraded(d, 9, Tools)
  <2>1. \/ after = Failed
        \/ LaidOut(after, 9) /\ DOMAIN after.tools = Inserted(n, 9, Tools) \cup ToolsAt(n)
    BY <1>1, UpgradeLaysOut DEF Sound
  <2>2. Inserted(n, 9, Tools) \cup ToolsAt(n) = ToolsAt(9)
    BY <1>1 DEF Inserted, ToolsAt, Tools
  <2>3. HeadOf(image) = 9 /\ ToolsOf(image) = Tools
    BY <1>4 DEF HeadOf, HeadRevision, ToolsOf
  <2> QED BY <2>1, <2>2, <2>3 DEF Sound
<1> QED BY <1>2, <1>3, <1>4

LEMMA DowngradeIsSound ==
    ASSUME NEW d, NEW n, Sound(d, n)
    PROVE  Sound(Downgraded(d, From), From)
<1>1. From \in 0..8
  BY DeploymentAssumption DEF HeadRevision
<1>2. CASE n = 9
  BY <1>1, <1>2, DowngradeLaysOut, DeploymentAssumption DEF Sound, ToolsAt
<1>3. CASE n = From
  <2> DEFINE Walk(g) == g = [k \in From..d.rev |-> IF k = d.rev THEN d
                                                    ELSE Undone(g[k + 1], k + 1)]
             one == CHOOSE g : Walk(g)
             alone == [k \in From..From |-> d]
  <2>1. d.rev = From
    BY <1>3 DEF Sound, LaidOut
  <2>2. \A k \in From..From : k = From
    BY <1>1
  <2>3. Walk(alone)
    BY <2>1, <2>2
  <2>4. Downgraded(d, From) = one[From]
    BY DEF Downgraded
  <2>5. Walk(one)
    BY <2>3
  <2> HIDE DEF one
  <2>6. From \in From..From
    BY <1>1
  <2>7. one[From] = d
    BY <2>1, <2>5, <2>6
  <2> QED BY <1>3, <2>4, <2>7
<1> QED BY <1>2, <1>3 DEF Sound

DatabaseSound == Sound(db, db.rev)

PromoSound == promo # NoPromo => DOMAIN promo \in {ToolsAt(From), Tools}

ContainerSound ==
    /\ DOMAIN api = {"image", "state"}
    /\ {api.image, latest} \subseteq {"old", "new"}

\* Unless the stop has failed, nothing answers while the database goes back.
ServedSound ==
    "stop" \notin failures =>
      /\ scriptPc = "downgrade" => api.state = "stopped"
      /\ api.image = "new" /\ api.state = "up" => db.rev = 9

ScriptSound ==
    /\ scriptPc \in {"pause", "upgrade"} => latest = "new"
    /\ scriptPc \in {"stop", "downgrade", "recreate"} => switched

\* How far a rollback has come none of whose commands has failed.
UndoneSound ==
    switched /\ failures \subseteq {"resume"} =>
      /\ scriptPc \in {"downgrade", "files", "retag", "recreate"} => api.state = "stopped"
      /\ scriptPc \in {"files", "retag", "recreate", "resume", "exit", "ended"} => db.rev = From
      /\ scriptPc = "recreate" => latest = "old"
      /\ scriptPc \in {"resume", "exit", "ended"} => api.image = "old"

Restoring ==
    /\ DatabaseSound /\ PromoSound /\ ContainerSound
    /\ ServedSound /\ ScriptSound /\ UndoneSound

\* What a step makes of the database, and of its revision.
LEMMA DatabaseStep ==
    ASSUME Restoring, [ReleaseNext]_releaseVars
    PROVE  /\ DatabaseSound'
           /\ \/ db'.rev = db.rev
              \/ ContainerStarts /\ api'.state = "up" /\ db'.rev = HeadOf(api.image)
              \/ Upgrade /\ db'.rev = 9
              \/ Downgrade /\ db'.rev = From
<1>1. LaidOut(db, db.rev) /\ DOMAIN db.tools = ToolsAt(db.rev) /\ db.rev \in {From, 9}
  BY DEF Restoring, DatabaseSound, Sound
<1>2. {api.image, latest} \subseteq {"old", "new"}
  BY DEF Restoring, ContainerSound
<1>3. ASSUME NEW n, Sound(db', n) PROVE DatabaseSound' /\ db'.rev = n
  BY <1>3 DEF DatabaseSound, Sound, LaidOut
<1>4. ASSUME NEW rows, db' = [db EXCEPT !.tools = rows], DOMAIN rows = DOMAIN db.tools
      PROVE  DatabaseSound' /\ db'.rev = db.rev
  <2>1. LaidOut(db', db.rev) /\ db'.tools = rows
    BY <1>1, <1>4, RowsOfDatabase
  <2>2. Sound(db', db.rev)
    BY <1>1, <1>4, <2>1 DEF Sound
  <2> QED BY <1>3, <2>2
<1>5. CASE ContainerStarts
  <2>1. CASE Migrate(api.image) = Failed
    BY <1>5, <2>1 DEF ContainerStarts, Restoring, DatabaseSound
  <2>2. CASE Migrate(api.image) # Failed
    <3>1. db' = Migrate(api.image) /\ api' = [api EXCEPT !.state = "up"]
      BY <1>5, <2>2 DEF ContainerStarts
    <3>2. Sound(db', HeadOf(api.image))
      BY <1>2, <2>2, <3>1, MigrateIsSound DEF Migrate, Restoring, DatabaseSound
    <3>3. api'.state = "up"
      BY <3>1 DEF Restoring, ContainerSound
    <3> QED BY <1>3, <1>5, <3>2, <3>3
  <2> QED BY <2>1, <2>2
<1>6. CASE Upgrade
  <2>1. latest = "new" /\ Migrate(latest) # Failed /\ db' = Migrate(latest)
    BY <1>6 DEF Upgrade, Restoring, ScriptSound
  <2>2. Sound(db', HeadOf("new"))
    BY <2>1, MigrateIsSound DEF Migrate, Restoring, DatabaseSound
  <2> QED BY <1>3, <1>6, <2>2 DEF HeadOf, HeadRevision
<1>7. CASE Downgrade
  <2>1. CASE db' = Downgraded(db, From)
    <3>1. Sound(db', From)
      BY <2>1, DowngradeIsSound DEF Restoring, DatabaseSound
    <3> QED BY <1>3, <1>7, <2>1, <3>1
  <2>2. CASE UNCHANGED db
    BY <2>2 DEF Restoring, DatabaseSound
  <2> QED BY <1>7, <2>1, <2>2 DEF Downgrade
<1>8. CASE BuyerPays
  <2>1. db' = [db EXCEPT !.payments = db.payments + 1]
    BY <1>8 DEF BuyerPays
  <2>2. LaidOut(db', db.rev) /\ db'.tools = db.tools
    BY <1>1, <2>1, RowsOfDatabase
  <2>3. Sound(db', db.rev)
    BY <1>1, <2>2 DEF Sound
  <2> QED BY <1>3, <2>3
<1>9. ASSUME NEW tool \in DOMAIN db.tools, OwnerPrices(tool)
      PROVE  DatabaseSound' /\ db'.rev = db.rev
  <2>1. db' = [db EXCEPT !.tools = [db.tools EXCEPT ![tool] = "owner"]]
    BY <1>9 DEF OwnerPrices
  <2>2. DOMAIN [db.tools EXCEPT ![tool] = "owner"] = DOMAIN db.tools
    OBVIOUS
  <2> QED BY <1>4, <2>1, <2>2
<1>10. CASE StartPromo
  <2>1. db' = [db EXCEPT !.tools = [tool \in DOMAIN db.tools |-> "promo"]]
    BY <1>10 DEF StartPromo
  <2>2. DOMAIN [tool \in DOMAIN db.tools |-> "promo"] = DOMAIN db.tools
    OBVIOUS
  <2> QED BY <1>4, <2>1, <2>2
<1>11. CASE EndPromo
  <2>1. /\ db' = [db EXCEPT !.tools = promo] /\ promo # NoPromo
        /\ Cardinality(DOMAIN promo) = Cardinality(DOMAIN db.tools)
    BY <1>11 DEF EndPromo, Restorable
  <2>2. DOMAIN promo \in {ToolsAt(From), Tools}
    BY <2>1 DEF Restoring, PromoSound
  <2>3. ToolsAt(From) \subseteq Tools /\ ToolsAt(9) = Tools /\ IsFiniteSet(Tools)
    BY DeploymentAssumption DEF ToolsAt, Tools, HeadRevision
  <2>4. \A one, two \in {ToolsAt(From), Tools} : Cardinality(one) = Cardinality(two) => one = two
    <3>1. IsFiniteSet(ToolsAt(From))
      BY <2>3, FS_Subset
    <3>2. Cardinality(ToolsAt(From)) = Cardinality(Tools) => ToolsAt(From) = Tools
      BY <2>3, FS_Subset
    <3> QED BY <3>2
  <2>5. DOMAIN promo = DOMAIN db.tools
    BY <1>1, <2>1, <2>2, <2>3, <2>4
  <2> QED BY <1>4, <2>1, <2>5
<1>12. CASE UNCHANGED db
  BY <1>12 DEF Restoring, DatabaseSound
<1>13. CASE Others
  <2>1. CASE ContainerRestarts \/ OwnerPauses \/ OwnerResumes
    <3>1. UNCHANGED db
      BY <2>1 DEF ContainerRestarts, OwnerPauses, OwnerResumes
    <3> QED BY <1>12, <3>1
  <2> QED BY <1>8, <1>9, <1>10, <1>11, <1>13, <2>1 DEF Others
<1>14. CASE \/ BeginRelease \/ Build \/ Pause \/ Replace \/ ResumeService \/ Complete
            \/ Fail \/ Trap \/ Stop \/ RestoreFiles \/ Retag \/ Recreate \/ Resume \/ Exit
            \/ TrapAgain \/ Killed \/ UNCHANGED releaseVars
  <2>1. UNCHANGED db
    BY <1>14 DEF BeginRelease, Build, Pause, Replace, ResumeService, Complete, Fail, Trap, Stop,
       RestoreFiles, Retag, Recreate, Resume, Exit, TrapAgain, Killed, releaseVars
  <2> QED BY <1>12, <2>1
<1> QED BY <1>5, <1>6, <1>7, <1>13, <1>14 DEF ReleaseNext, Script

LEMMA PromoStep ==
    ASSUME Restoring, [ReleaseNext]_releaseVars
    PROVE  PromoSound'
<1>1. CASE StartPromo
  <2>1. promo' = db.tools
    BY <1>1 DEF StartPromo
  <2>2. DOMAIN db.tools \in {ToolsAt(From), ToolsAt(9)}
    BY DEF Restoring, DatabaseSound, Sound
  <2> QED BY <2>1, <2>2 DEF PromoSound, ToolsAt
<1>2. CASE EndPromo
  BY <1>2 DEF EndPromo, PromoSound
<1>3. CASE UNCHANGED promo
  BY <1>3 DEF Restoring, PromoSound, NoPromo
<1>4. CASE Script \/ TrapAgain \/ Killed \/ ContainerStarts \/ UNCHANGED releaseVars
  <2>1. UNCHANGED promo
    BY <1>4 DEF Script, BeginRelease, Build, Pause, Upgrade, Replace, ResumeService, Complete,
       Fail, Trap, Stop, Downgrade, RestoreFiles, Retag, Recreate, Resume, Exit, TrapAgain, Killed,
       ContainerStarts, releaseVars
  <2> QED BY <1>3, <2>1
<1>5. CASE Others
  <2>1. CASE \/ ContainerRestarts \/ BuyerPays \/ OwnerPauses \/ OwnerResumes
             \/ \E tool \in DOMAIN db.tools : OwnerPrices(tool)
    <3>1. UNCHANGED promo
      BY <2>1 DEF ContainerRestarts, BuyerPays, OwnerPauses, OwnerResumes, OwnerPrices
    <3> QED BY <1>3, <3>1
  <2> QED BY <1>1, <1>2, <1>5, <2>1 DEF Others
<1> QED BY <1>4, <1>5 DEF ReleaseNext

\* What a step makes of the container, the script and the rollback.
LEMMA RollbackStep ==
    ASSUME Restoring, [ReleaseNext]_releaseVars
    PROVE  ContainerSound' /\ ServedSound' /\ ScriptSound' /\ UndoneSound'
<1> DEFINE Sounds == ContainerSound /\ ServedSound /\ ScriptSound /\ UndoneSound
<1>1. /\ \/ db'.rev = db.rev
         \/ ContainerStarts /\ api'.state = "up" /\ db'.rev = HeadOf(api.image)
         \/ Upgrade /\ db'.rev = 9
         \/ Downgrade /\ db'.rev = From
      /\ ContainerSound /\ ServedSound /\ ScriptSound /\ UndoneSound
      /\ db.rev \in {From, 9}
  BY DatabaseStep DEF Restoring, DatabaseSound, Sound
<1>2. ASSUME NEW state, api' = [api EXCEPT !.state = state]
      PROVE  /\ DOMAIN api' = {"image", "state"}
             /\ api'.image = api.image /\ api'.state = state
  BY <1>1, <1>2 DEF ContainerSound
<1>3. ASSUME UNCHANGED <<api, latest, script>>, db'.rev = db.rev
      PROVE  Sounds'
  BY <1>1, <1>3 DEF ContainerSound, ServedSound, ScriptSound, UndoneSound, script
<1>4. CASE UNCHANGED releaseVars
  BY <1>3, <1>4 DEF releaseVars
<1>5. CASE ContainerStarts
  <2>1. CASE Migrate(api.image) = Failed
    <3>1. api' = [api EXCEPT !.state = "crashed"] /\ UNCHANGED <<db, latest, script>>
          /\ api.state = "starting"
      BY <1>5, <2>1 DEF ContainerStarts
    <3>2. DOMAIN api' = {"image", "state"} /\ api'.image = api.image /\ api'.state = "crashed"
      BY <1>2, <3>1
    <3> QED BY <1>1, <3>1, <3>2 DEF ContainerSound, ServedSound, ScriptSound, UndoneSound, script
  <2>2. CASE Migrate(api.image) # Failed
    <3>1. api' = [api EXCEPT !.state = "up"] /\ UNCHANGED <<latest, script>>
          /\ api.state = "starting" /\ db' = Migrate(api.image)
      BY <1>5, <2>2 DEF ContainerStarts
    <3>2. DOMAIN api' = {"image", "state"} /\ api'.image = api.image /\ api'.state = "up"
      BY <1>2, <3>1
    <3>3. db'.rev = HeadOf(api.image)
      <4>1. Sound(db', HeadOf(api.image))
        BY <1>1, <2>2, <3>1, MigrateIsSound
           DEF Migrate, Restoring, DatabaseSound, ContainerSound
      <4> QED BY <4>1 DEF Sound, LaidOut
    <3> QED BY <1>1, <3>1, <3>2, <3>3
        DEF ContainerSound, ServedSound, ScriptSound, UndoneSound, script, HeadOf, HeadRevision
  <2> QED BY <2>1, <2>2
<1>6. CASE ContainerRestarts
  <2>1. api' = [api EXCEPT !.state = "starting"] /\ api.state \in {"up", "crashed"}
        /\ UNCHANGED <<db, latest, script>>
    BY <1>6 DEF ContainerRestarts
  <2>2. DOMAIN api' = {"image", "state"} /\ api'.image = api.image /\ api'.state = "starting"
    BY <1>2, <2>1
  <2> QED BY <1>1, <2>1, <2>2 DEF ContainerSound, ServedSound, ScriptSound, UndoneSound, script
<1>7. CASE \/ BuyerPays \/ OwnerPauses \/ OwnerResumes \/ StartPromo \/ EndPromo
           \/ \E tool \in DOMAIN db.tools : OwnerPrices(tool)
  <2>1. UNCHANGED <<api, latest, script>>
    BY <1>7 DEF BuyerPays, OwnerPauses, OwnerResumes, StartPromo, EndPromo, OwnerPrices
  <2>2. ~(api.state = "starting" /\ api'.state = "up")
    BY <2>1
  <2>3. db'.rev = db.rev
    BY <1>1, <1>7, <2>2 DEF ContainerStarts, Upgrade, Downgrade, BuyerPays, OwnerPauses,
       OwnerResumes, StartPromo, EndPromo, OwnerPrices, ScriptGoto, script
  <2> QED BY <1>3, <2>1, <2>3
<1>8. CASE \/ BeginRelease \/ Build \/ Pause \/ ResumeService \/ Complete \/ Fail
           \/ TrapAgain \/ Killed
  <2>1. UNCHANGED <<db, api, switched, failures>> /\ (latest' = latest \/ latest' = "new")
    BY <1>8 DEF BeginRelease, Build, Pause, ResumeService, Complete, Fail, TrapAgain, Killed
  <2>2. /\ scriptPc' \in {"build", "pause", "upgrade", "trap", "check", "done", "dead"}
        /\ scriptPc' = "pause" => latest' = "new"
        /\ scriptPc' = "upgrade" => latest' = "new"
    BY <1>1, <1>8 DEF BeginRelease, Build, Pause, ResumeService, Complete, Fail, TrapAgain,
       Killed, ScriptGoto, ScriptSound
  <2> QED BY <1>1, <2>1, <2>2 DEF ContainerSound, ServedSound, ScriptSound, UndoneSound
<1>9. CASE Upgrade
  <2>1. scriptPc' \in {"replace", "trap"} /\ UNCHANGED <<api, latest, failures>>
    BY <1>9 DEF Upgrade, ScriptGoto
  <2>2. db'.rev = 9
    <3>1. Sound(db', HeadOf("new"))
      BY <1>1, <1>9, MigrateIsSound DEF Upgrade, Migrate, Restoring, DatabaseSound, ScriptSound
    <3> QED BY <3>1 DEF Sound, LaidOut, HeadOf, HeadRevision
  <2> QED BY <1>1, <2>1, <2>2 DEF ContainerSound, ServedSound, ScriptSound, UndoneSound
<1>10. ASSUME api' \in PartlyCreated, UNCHANGED <<db, latest>>,
              scriptPc' \notin {"pause", "upgrade", "stop", "downgrade", "recreate"},
              failures \subseteq failures'
       PROVE  ContainerSound' /\ ServedSound' /\ ScriptSound'
  <2>1. /\ DOMAIN api' = {"image", "state"} /\ api'.image \in {"old", "new"}
        /\ api' = api \/ api'.state # "up"
    BY <1>1, <1>10 DEF PartlyCreated, Created, ContainerSound
  <2> QED BY <1>1, <1>10, <2>1 DEF ContainerSound, ServedSound, ScriptSound
<1>11. CASE Replace
  <2>1. api' \in PartlyCreated /\ scriptPc' \in {"await", "trap"}
        /\ UNCHANGED <<db, latest, failures>>
    BY <1>11 DEF Replace, PartlyCreated, ScriptGoto
  <2> QED BY <1>10, <2>1 DEF UndoneSound
<1>12. CASE Recreate
  <2>1. /\ api' \in PartlyCreated /\ scriptPc = "recreate" /\ scriptPc' = "resume"
        /\ UNCHANGED <<db, latest, switched>> /\ failures \subseteq failures'
        /\ failures' \subseteq {"resume"} => api' = Created
    BY <1>12 DEF Recreate, PartlyCreated, Failing, ScriptGoto
  <2>2. UndoneSound'
    BY <1>1, <2>1 DEF UndoneSound, Created
  <2> QED BY <1>10, <2>1, <2>2
<1>13. CASE Trap \/ RestoreFiles
  <2>1. /\ UNCHANGED <<db, api, latest, switched>> /\ failures \subseteq failures'
        /\ \/ scriptPc = "trap" /\ scriptPc' = "stop" /\ switched
           \/ scriptPc' \in {"files", "resume", "exit"} /\ ~switched
           \/ scriptPc = "files" /\ scriptPc' = "retag"
           \/ scriptPc' = "exit" /\ "files" \in failures'
    BY <1>13 DEF Trap, RestoreFiles, TrapBranch, Failing, ScriptGoto
  <2> QED BY <1>1, <2>1 DEF ContainerSound, ServedSound, ScriptSound, UndoneSound
<1>14. CASE Retag
  <2>1. /\ UNCHANGED <<db, api, switched>> /\ failures \subseteq failures'
        /\ latest' \in {latest, "old"}
        /\ failures' \subseteq {"resume"} => latest' = "old"
        /\ scriptPc = "retag"
        /\ \/ scriptPc' = "recreate" /\ switched
           \/ scriptPc' = "exit" /\ ~switched
    BY <1>14 DEF Retag, Failing, ScriptGoto
  <2> QED BY <1>1, <2>1 DEF ContainerSound, ServedSound, ScriptSound, UndoneSound
<1>15. CASE Resume \/ Exit
  <2>1. /\ UNCHANGED <<db, api, latest, switched>> /\ failures \subseteq failures'
        /\ \/ scriptPc = "resume" /\ scriptPc' = "exit"
           \/ scriptPc = "exit" /\ scriptPc' = "ended"
    BY <1>15 DEF Resume, Exit, Failing, ScriptGoto
  <2> QED BY <1>1, <2>1 DEF ContainerSound, ServedSound, ScriptSound, UndoneSound
<1>16. CASE Stop
  <2>1. /\ scriptPc = "stop" /\ scriptPc' = "downgrade" /\ UNCHANGED <<db, latest, switched>>
        /\ api' \in {api, [image |-> api.image, state |-> "stopped"]}
        /\ failures \subseteq failures'
        /\ "stop" \notin failures' => api' = [image |-> api.image, state |-> "stopped"]
    BY <1>16 DEF Stop, Failing, ScriptGoto
  <2>2. /\ DOMAIN api' = {"image", "state"} /\ api'.image = api.image
        /\ "stop" \notin failures' => api'.state = "stopped"
    BY <1>1, <2>1 DEF ContainerSound
  <2> QED BY <1>1, <2>1, <2>2 DEF ContainerSound, ServedSound, ScriptSound, UndoneSound
<1>17. CASE Downgrade
  <2>1. /\ scriptPc = "downgrade" /\ scriptPc' = "files" /\ UNCHANGED <<api, latest, switched>>
        /\ failures \subseteq failures'
        /\ \/ db' = Downgraded(db, From)
           \/ UNCHANGED db /\ "downgrade" \in failures'
    BY <1>17 DEF Downgrade, Failing, ScriptGoto
  <2>2. \/ db'.rev = From
        \/ UNCHANGED db /\ "downgrade" \in failures'
    <3>1. CASE db' = Downgraded(db, From)
      <4>1. Sound(db', From)
        BY <3>1, DowngradeIsSound DEF Restoring, DatabaseSound
      <4> QED BY <4>1 DEF Sound, LaidOut
    <3> QED BY <2>1, <3>1
  <2> QED BY <1>1, <2>1, <2>2 DEF ContainerSound, ServedSound, ScriptSound, UndoneSound
<1> QED BY <1>4, <1>5, <1>6, <1>7, <1>8, <1>9, <1>11, <1>12, <1>13, <1>14, <1>15, <1>16, <1>17
    DEF ReleaseNext, Script, Others

\* Restoring is an invariant, whatever fails and whoever restarts.
THEOREM RestoringHolds == ReleaseSpec => []Restoring
<1>1. ReleaseInit => Restoring
  <2> SUFFICES ASSUME ReleaseInit PROVE Restoring
    OBVIOUS
  <2>1. Sound(db, From)
    BY BeforeIsLaidOut DEF ReleaseInit, Sound
  <2>2. DatabaseSound
    BY <2>1 DEF DatabaseSound, Sound, LaidOut
  <2>3. PromoSound
    BY DEF ReleaseInit, PromoSound
  <2>4. /\ DOMAIN api = {"image", "state"} /\ api.image \in {"old", "new"}
        /\ latest = api.image /\ api.state = "starting"
    BY DEF ReleaseInit
  <2>5. ContainerSound /\ ServedSound /\ ScriptSound /\ UndoneSound
    BY <2>4 DEF ReleaseInit, ContainerSound, ServedSound, ScriptSound, UndoneSound
  <2> QED BY <2>2, <2>3, <2>5 DEF Restoring
<1>2. Restoring /\ [ReleaseNext]_releaseVars => Restoring'
  BY DatabaseStep, PromoStep, RollbackStep DEF Restoring
<1> QED BY <1>1, <1>2, PTL DEF ReleaseSpec

\* In the midst of a release or of its rollback, with containers that restart on
\* their own, an API that answers has the tables and columns it reads, whatever
\* fails but the stop that goes before the downgrade.
THEOREM AnswersWithItsSchema == ReleaseSpec => []ServesItsSchema
<1>1. Restoring => ServesItsSchema
  <2> SUFFICES ASSUME Restoring, api.state = "up", "stop" \notin failures
               PROVE  /\ Needs(api.image).tables \subseteq db.tables
                      /\ Needs(api.image).columns \subseteq db.columns
    BY DEF ServesItsSchema
  <2>1. /\ db.tables = TablesAt(db.rev) /\ db.columns = ColumnsAt(db.rev)
        /\ db.rev \in {From, 9} /\ From \in 0..9
    BY DeploymentAssumption DEF Restoring, DatabaseSound, Sound, LaidOut, HeadRevision
  <2>2. HeadOf(api.image) \in 0..9 /\ HeadOf(api.image) <= db.rev
    BY <2>1 DEF Restoring, ContainerSound, ServedSound, HeadOf, HeadRevision
  <2> QED BY <2>1, <2>2, NeedsOfRelease, LayoutsAscend
<1> QED BY <1>1, RestoringHolds, PTL

\* A rollback whose commands go through gives the release before back, however
\* often a signal has it begin again: image, tables, columns and the tools of its
\* catalog.
THEOREM RollbackGivesBack == ReleaseSpec => []RollbackRestores
<1>1. Restoring => RollbackRestores
  <2> SUFFICES ASSUME Restoring, scriptPc = "ended", switched, failures \subseteq {"resume"}
               PROVE  api.image = "old" /\ Layout(db) = Layout(Before)
    BY DEF RollbackRestores
  <2>1. api.image = "old" /\ db.rev = From
    BY DEF Restoring, UndoneSound
  <2>2. LaidOut(db, From) /\ DOMAIN db.tools = ToolsAt(From)
    BY <2>1 DEF Restoring, DatabaseSound, Sound
  <2> QED BY <2>1, <2>2, BeforeIsLaidOut DEF Layout, LaidOut
<1> QED BY <1>1, RestoringHolds, PTL
=============================================================================
