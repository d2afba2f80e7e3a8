--------------------------- MODULE RouteSurfaceProofs ---------------------------
(***************************************************************************)
(* Theorems about RouteSurface for every set of branches and every way in  *)
(* which the API may fail.                                                 *)
(***************************************************************************)
EXTENDS RouteSurface, TLAPS

(* A result has data, and an error has a reason.                           *)
ResultOK(query) ==
  /\ query.status = "success" => query.data # None
  /\ query.status = "error" <=> query.error # None

(* The query of a branch has that branch's tree and asks for no other one. *)
TreeOK(query, branch) ==
  /\ query.data \in {None, branch}
  /\ query.fetch # "idle" => query.asked = branch /\ branch # None

Good(k, query) ==
  /\ query \in Query
  /\ ResultOK(query)
  /\ \A b \in Branches \cup {None} : k = TreeKey(b) => TreeOK(query, b)

(* A query that has settled with data does not become pending.             *)
Kept(before, after) ==
  before.status # "pending" /\ before.data # None => after.status # "pending"

FlagsOK == route \in BOOLEAN /\ ready \in BOOLEAN /\ online \in BOOLEAN /\ visible \in BOOLEAN

IInv ==
  /\ FlagsOK
  /\ queries \in [Keys -> Query]
  /\ \A k \in Keys : Good(k, queries[k])
-----------------------------------------------------------------------------
LEMMA KeyFacts ==
  /\ RepositoryKey \in Keys
  /\ \A b \in Branches \cup {None} :
       /\ TreeKey(b) \in Keys
       /\ TreeKey(b) # RepositoryKey
       /\ \A c \in Branches \cup {None} : TreeKey(b) = TreeKey(c) => b = c
  /\ \A k \in Keys : k = RepositoryKey \/ \E b \in Branches \cup {None} : k = TreeKey(b)
  BY DEF Keys, RepositoryKey, Repository, TreeKey

LEMMA UnfetchedIsGood ==
  ASSUME NEW k \in Keys
  PROVE  Good(k, Unfetched)
  BY NoneAssumption DEF Good, ResultOK, TreeOK, Unfetched, Query

LEMMA FetchingIsGood ==
  ASSUME NEW k \in Keys, NEW query, Good(k, query),
         NEW branch \in Branches \cup {None}, NEW connected \in BOOLEAN,
         k = RepositoryKey \/ (branch # None /\ k = TreeKey(branch))
  PROVE  Good(k, Fetching(query, branch, connected))
           /\ Kept(query, Fetching(query, branch, connected))
  <1> DEFINE f == Fetching(query, branch, connected)
  <1>1. query \in Query /\ ResultOK(query)
    BY DEF Good
  <1>2. f \in Query
    <2>1. \A fetch \in {"fetching", "paused"}, n \in 0 .. 2,
             status \in {"pending", "error", "success"}, error \in Failures \cup {None} :
            [query EXCEPT !.fetch = fetch, !.asked = branch, !.failures = n,
                          !.cancelled = FALSE, !.status = status, !.error = error] \in Query
      BY <1>1 DEF Query
    <2>2. 0 \in 0 .. 2 /\ query.status \in {"pending", "error", "success"}
            /\ query.error \in Failures \cup {None}
      BY <1>1 DEF Query
    <2>3. PICK fetch \in {"fetching", "paused"}, status \in {"pending", "error", "success"},
               error \in Failures \cup {None} :
            f = [query EXCEPT !.fetch = fetch, !.asked = branch, !.failures = 0,
                              !.cancelled = FALSE, !.status = status, !.error = error]
      <3>1. CASE query.data = None
        BY <3>1 DEF Fetching
      <3>2. CASE query.data # None
        BY <2>2, <3>2 DEF Fetching
      <3> QED
        BY <3>1, <3>2
    <2> HIDE DEF f
    <2> QED
      BY <2>1, <2>2, <2>3
  <1>3. /\ f.data = query.data /\ f.asked = branch
        /\ f.status = IF query.data = None THEN "pending" ELSE query.status
        /\ f.error = IF query.data = None THEN None ELSE query.error
    BY <1>1 DEF Fetching, Query
  <1>4. ResultOK(f) /\ Kept(query, f)
    BY <1>1, <1>3 DEF ResultOK, Kept
  <1>5. ASSUME NEW b \in Branches \cup {None}, k = TreeKey(b)
        PROVE  TreeOK(f, b)
    <2>1. b = branch /\ branch # None
      BY <1>5, KeyFacts
    <2>2. TreeOK(query, b)
      BY <1>5 DEF Good
    <2> QED
      BY <1>3, <2>1, <2>2 DEF TreeOK
  <1> QED
    BY <1>2, <1>4, <1>5 DEF Good

LEMMA SucceededIsGood ==
  ASSUME NEW k \in Keys, NEW query, Good(k, query), query.fetch # "idle",
         NEW branch \in Branches \cup {None},
         k = RepositoryKey => branch # None,
         k # RepositoryKey => branch = query.asked
  PROVE  Good(k, Succeeded(query, branch)) /\ Kept(query, Succeeded(query, branch))
  <1> DEFINE s == Succeeded(query, branch)
  <1>1. query \in Query
    BY DEF Good
  <1>2. s \in Query
    <2>1. \A n \in 0 .. 2 :
            [query EXCEPT !.status = "success", !.data = branch, !.error = None,
                          !.fetch = "idle", !.failures = n, !.stale = FALSE] \in Query
      BY <1>1 DEF Query
    <2> QED
      BY <2>1 DEF Succeeded
  <1>3. s.data = branch /\ s.fetch = "idle" /\ s.status = "success" /\ s.error = None
    BY <1>1 DEF Succeeded, Query
  <1>4. ASSUME NEW b \in Branches \cup {None}, k = TreeKey(b)
        PROVE  TreeOK(s, b) /\ branch # None
    <2>1. TreeOK(query, b)
      BY <1>4 DEF Good
    <2>2. branch = query.asked
      BY <1>4, KeyFacts
    <2>3. branch = b /\ branch # None
      BY <2>1, <2>2 DEF TreeOK
    <2> QED
      BY <1>3, <2>3 DEF TreeOK
  <1>5. ResultOK(s) /\ Kept(query, s)
    BY <1>3, <1>4, KeyFacts DEF ResultOK, Kept
  <1> QED
    BY <1>2, <1>4, <1>5 DEF Good

LEMMA FailedIsGood ==
  ASSUME NEW k \in Keys, NEW query, Good(k, query), NEW error \in Failures
  PROVE  Good(k, Failed(query, error)) /\ Kept(query, Failed(query, error))
  <1> DEFINE f == Failed(query, error)
  <1>1. query \in Query
    BY DEF Good
  <1>2. f \in Query
    <2>1. \A n \in 0 .. 2 :
            [query EXCEPT !.status = "error", !.error = error,
                          !.fetch = "idle", !.failures = n, !.stale = TRUE] \in Query
      BY <1>1 DEF Query
    <2> QED
      BY <2>1 DEF Failed
  <1>3. f.data = query.data /\ f.fetch = "idle" /\ f.status = "error" /\ f.error = error
    BY <1>1 DEF Failed, Query
  <1>4. ResultOK(f) /\ Kept(query, f)
    BY <1>3, NoneAssumption DEF ResultOK, Kept
  <1>5. ASSUME NEW b \in Branches \cup {None}, k = TreeKey(b)
        PROVE  TreeOK(f, b)
    <2>1. TreeOK(query, b)
      BY <1>5 DEF Good
    <2> QED
      BY <1>3, <2>1 DEF TreeOK
  <1> QED
    BY <1>2, <1>4, <1>5 DEF Good

(* The bookkeeping of a fetch leaves its result alone.                     *)
LEMMA SameResultIsGood ==
  ASSUME NEW k \in Keys, NEW query, Good(k, query), NEW other \in Query,
         other.status = query.status, other.data = query.data,
         other.error = query.error, other.asked = query.asked,
         other.fetch # "idle" => query.fetch # "idle"
  PROVE  Good(k, other) /\ Kept(query, other)
  BY DEF Good, ResultOK, TreeOK, Kept

LEMMA WaitingIsGood ==
  ASSUME NEW k \in Keys, NEW query, Good(k, query),
         query.fetch = "fetching", query.failures < 2
  PROVE  Good(k, Waiting(query)) /\ Kept(query, Waiting(query))
  <1>1. query \in Query
    BY DEF Good
  <1> DEFINE w == Waiting(query)
  <1>2. w \in Query
    <2>1. \A n \in 0 .. 2 : [query EXCEPT !.fetch = "waiting", !.failures = n] \in Query
      BY <1>1 DEF Query
    <2>2. (IF query.failures < 3 THEN query.failures + 1 ELSE query.failures) \in 0 .. 2
      BY <1>1 DEF Query
    <2> QED
      BY <2>1, <2>2 DEF Waiting
  <1>3. /\ w.status = query.status /\ w.data = query.data
        /\ w.error = query.error /\ w.asked = query.asked
    BY <1>1 DEF Waiting, Query
  <1> QED
    BY <1>2, <1>3, SameResultIsGood

LEMMA ContinuedIsGood ==
  ASSUME NEW k \in Keys, NEW query, Good(k, query), query.fetch # "idle"
  PROVE  Good(k, Continued(query)) /\ Kept(query, Continued(query))
  <1>1. query \in Query
    BY DEF Good
  <1>2. CASE query.cancelled /\ query.failures > 0
    BY <1>2, FailedIsGood DEF Continued, Failures
  <1>3. CASE ~(query.cancelled /\ query.failures > 0)
    <2> DEFINE c == [query EXCEPT !.fetch = "fetching"]
    <2>1. c \in Query /\ c.status = query.status /\ c.data = query.data
            /\ c.error = query.error /\ c.asked = query.asked
      BY <1>1 DEF Query
    <2>2. Good(k, c) /\ Kept(query, c)
      BY <2>1, SameResultIsGood
    <2> QED
      BY <1>3, <2>2 DEF Continued
  <1> QED
    BY <1>2, <1>3

LEMMA WokenIsGood ==
  ASSUME NEW k \in Keys, NEW query, Good(k, query), NEW awake \in BOOLEAN
  PROVE  Good(k, Woken(query, awake)) /\ Kept(query, Woken(query, awake))
  BY ContinuedIsGood DEF Woken, Kept

LEMMA CancelledIsGood ==
  ASSUME NEW k \in Keys, NEW query, Good(k, query), NEW c \in BOOLEAN
  PROVE  Good(k, [query EXCEPT !.cancelled = c]) /\ Kept(query, [query EXCEPT !.cancelled = c])
  <1> DEFINE d == [query EXCEPT !.cancelled = c]
  <1>1. query \in Query
    BY DEF Good
  <1>2. d \in Query /\ d.status = query.status /\ d.data = query.data
          /\ d.error = query.error /\ d.asked = query.asked /\ d.fetch = query.fetch
    BY <1>1 DEF Query
  <1> QED
    BY <1>2, SameResultIsGood

LEMMA ObservedIsGood ==
  ASSUME NEW k \in Keys, NEW query, Good(k, query), online \in BOOLEAN,
         NEW branch \in Branches \cup {None},
         k = RepositoryKey \/ (branch # None /\ k = TreeKey(branch))
  PROVE  Good(k, Observed(query, branch)) /\ Kept(query, Observed(query, branch))
  <1>1. CASE query.fetch # "idle"
    BY <1>1, CancelledIsGood DEF Observed
  <1>2. CASE query.fetch = "idle" /\ query.stale
    BY <1>2, FetchingIsGood DEF Observed
  <1>3. CASE query.fetch = "idle" /\ ~query.stale
    BY <1>3 DEF Observed, Kept
  <1> QED
    BY <1>1, <1>2, <1>3

LEMMA EnabledFacts ==
  ASSUME NEW q \in [Keys -> Query], NEW k \in Enabled(q)
  PROVE  /\ k \in Keys
         /\ DefaultBranch(q) \in Branches \cup {None}
         /\ k = RepositoryKey \/ (DefaultBranch(q) # None /\ k = TreeKey(DefaultBranch(q)))
  <1>1. DefaultBranch(q) \in Branches \cup {None}
    BY KeyFacts DEF DefaultBranch, Query
  <1> QED
    BY <1>1, KeyFacts DEF Enabled

LEMMA RenderedIsGood ==
  ASSUME online \in BOOLEAN, NEW q \in [Keys -> Query], \A k \in Keys : Good(k, q[k]),
         NEW k \in Keys
  PROVE  Good(k, Rendered(q)[k]) /\ Kept(q[k], Rendered(q)[k])
  <1>1. CASE k \in Enabled(q) \ Enabled(queries)
    BY <1>1, EnabledFacts, ObservedIsGood DEF Rendered
  <1>2. CASE k \in Enabled(q) \cap Enabled(queries)
    BY <1>2 DEF Rendered, Kept
  <1>3. CASE k \notin Enabled(q)
    <2>1. Rendered(q)[k] = [q[k] EXCEPT !.cancelled = q[k].fetch # "idle"]
      BY <1>3 DEF Rendered
    <2>2. CASE q[k].fetch # "idle"
      <3>1. Rendered(q)[k] = [q[k] EXCEPT !.cancelled = TRUE]
        BY <2>1, <2>2
      <3> QED
        BY <3>1, CancelledIsGood
    <2>3. CASE q[k].fetch = "idle"
      <3>1. Rendered(q)[k] = [q[k] EXCEPT !.cancelled = FALSE]
        BY <2>1, <2>3
      <3> QED
        BY <3>1, CancelledIsGood
    <2> QED
      BY <2>2, <2>3
  <1> QED
    BY <1>1, <1>2, <1>3
-----------------------------------------------------------------------------
(* What every step does to every query that stays observed.                *)
StepOK == \A k \in Keys : Good(k, queries'[k]) /\ (k \in Enabled(queries) => Kept(queries[k], queries'[k]))

LEMMA InitIInv == Init => IInv
  <1> SUFFICES ASSUME Init PROVE IInv
    OBVIOUS
  <1>1. \A k \in Keys : Good(k, queries[k])
    <2> SUFFICES ASSUME NEW k \in Keys PROVE Good(k, queries[k])
      OBVIOUS
    <2>1. Good(k, Unfetched) /\ (k = RepositoryKey => Good(k, Fetching(Unfetched, None, TRUE)))
      BY UnfetchedIsGood, FetchingIsGood
    <2> QED
      BY <2>1 DEF Init
  <1>2. queries = [k \in Keys |-> queries[k]]
    BY DEF Init
  <1>3. queries \in [Keys -> Query]
    BY <1>1, <1>2 DEF Good
  <1> QED
    BY <1>1, <1>3 DEF Init, IInv, FlagsOK

LEMMA NextOK == IInv /\ Next => StepOK /\ FlagsOK' /\ queries' \in [Keys -> Query]
  <1> SUFFICES ASSUME IInv, Next PROVE StepOK /\ FlagsOK' /\ queries' \in [Keys -> Query]
    OBVIOUS
  <1>0. FlagsOK /\ queries \in [Keys -> Query] /\ \A k \in Keys : Good(k, queries[k])
    BY DEF IInv
  <1> USE <1>0
  <1>1. StepOK /\ queries' = [k \in Keys |-> queries'[k]]
    <2>1. ASSUME NEW j \in Keys, Answer(j)
          PROVE  StepOK /\ queries' = [k \in Keys |-> queries'[k]]
      <3>1. CASE \E b \in AnswersOf(j) :
                   queries' = Rendered([queries EXCEPT ![j] = Succeeded(@, b)])
        <4>1. PICK b \in AnswersOf(j) :
                     queries' = Rendered([queries EXCEPT ![j] = Succeeded(@, b)])
          BY <3>1
        <4> DEFINE q == [queries EXCEPT ![j] = Succeeded(@, b)]
        <4>2. /\ b \in Branches \cup {None}
              /\ j = RepositoryKey => b # None
              /\ j # RepositoryKey => b = queries[j].asked
          BY NoneAssumption DEF AnswersOf, Good, Query
        <4>3. Good(j, Succeeded(queries[j], b)) /\ Kept(queries[j], Succeeded(queries[j], b))
          BY <2>1, <4>2, SucceededIsGood DEF Answer
        <4>4. q \in [Keys -> Query] /\ \A k \in Keys : Good(k, q[k]) /\ Kept(queries[k], q[k])
          BY <4>3 DEF Good, Kept
        <4>5. \A k \in Keys : queries[k].data # None => q[k].data # None
          <5>1. Succeeded(queries[j], b).data = b
            BY DEF Succeeded, Query
          <5>2. queries[j].data # None => b # None
            <6>1. CASE j = RepositoryKey
              BY <4>2, <6>1
            <6>2. ASSUME NEW c \in Branches \cup {None}, j = TreeKey(c)
                  PROVE  b # None
              BY <2>1, <4>2, <6>2, KeyFacts DEF Answer, Good, TreeOK
            <6> QED
              BY <6>1, <6>2, KeyFacts
          <5> QED
            BY <5>1, <5>2
        <4>6. \A k \in Keys : Good(k, Rendered(q)[k]) /\ Kept(q[k], Rendered(q)[k])
          BY <4>4, RenderedIsGood DEF FlagsOK
        <4>7. \A k \in Keys : Kept(queries[k], Rendered(q)[k])
          BY <4>4, <4>5, <4>6 DEF Kept
        <4> QED
          BY <4>1, <4>6, <4>7 DEF StepOK, Rendered
      <3>2. CASE \E f \in FailuresOf(j) :
                   queries' = [queries EXCEPT ![j] = IF ~@.cancelled /\ Retry(@.failures, f)
                                                     THEN Waiting(@) ELSE Failed(@, f)]
        <4>1. PICK f \in FailuresOf(j) :
                queries' = [queries EXCEPT ![j] = IF ~@.cancelled /\ Retry(@.failures, f)
                                                  THEN Waiting(@) ELSE Failed(@, f)]
          BY <3>2
        <4>2. f \in Failures
          BY FailuresAssumption DEF FailuresOf
        <4>3. \/ queries'[j] = Waiting(queries[j]) /\ queries[j].failures < 2
              \/ queries'[j] = Failed(queries[j], f)
          BY <4>1 DEF Retry
        <4>4. Good(j, queries'[j]) /\ Kept(queries[j], queries'[j])
          BY <2>1, <4>2, <4>3, WaitingIsGood, FailedIsGood DEF Answer
        <4>5. \A k \in Keys \ {j} : queries'[k] = queries[k]
          BY <4>1
        <4> QED
          BY <4>1, <4>4, <4>5 DEF StepOK, Kept
      <3> QED
        BY <2>1, <3>1, <3>2 DEF Answer
    <2>2. ASSUME NEW j \in Keys, Resume(j)
          PROVE  StepOK /\ queries' = [k \in Keys |-> queries'[k]]
      <3>1. queries'[j] = Continued(queries[j])
              \/ queries'[j] = [queries[j] EXCEPT !.fetch = "paused"]
        BY <2>2 DEF Resume
      <3>2. CASE queries'[j] = Continued(queries[j])
        <4>1. Good(j, queries'[j]) /\ Kept(queries[j], queries'[j])
          BY <2>2, <3>2, ContinuedIsGood DEF Resume
        <4> QED
          BY <2>2, <4>1 DEF Resume, StepOK, Kept
      <3>3. CASE queries'[j] = [queries[j] EXCEPT !.fetch = "paused"]
        <4> DEFINE p == [queries[j] EXCEPT !.fetch = "paused"]
        <4>1. p \in Query /\ p.status = queries[j].status /\ p.data = queries[j].data
                /\ p.error = queries[j].error /\ p.asked = queries[j].asked
          BY DEF Query
        <4>2. Good(j, p) /\ Kept(queries[j], p)
          BY <2>2, <4>1, SameResultIsGood DEF Resume
        <4> QED
          BY <2>2, <3>3, <4>2 DEF Resume, StepOK, Kept
      <3> QED
        BY <3>1, <3>2, <3>3
    <2>3. ASSUME GoOnline
          PROVE  StepOK /\ queries' = [k \in Keys |-> queries'[k]]
      <3>1. ASSUME NEW k \in Keys
            PROVE  Good(k, queries'[k]) /\ Kept(queries[k], queries'[k])
        <4>1. CASE k \in Enabled(queries) /\ queries[k].fetch = "idle" /\ queries[k].stale
          <5>1. queries'[k] = Fetching(queries[k], DefaultBranch(queries), TRUE)
            BY <2>3, <4>1 DEF GoOnline
          <5> QED
            BY <4>1, <5>1, EnabledFacts, FetchingIsGood
        <4>2. CASE ~(k \in Enabled(queries) /\ queries[k].fetch = "idle" /\ queries[k].stale)
          <5>1. queries'[k] = Woken(queries[k], visible)
            BY <2>3, <4>2 DEF GoOnline
          <5> QED
            BY <5>1, WokenIsGood DEF FlagsOK
        <4> QED
          BY <4>1, <4>2
      <3> QED
        BY <2>3, <3>1 DEF GoOnline, StepOK
    <2>4. ASSUME Show
          PROVE  StepOK /\ queries' = [k \in Keys |-> queries'[k]]
      <3>1. ASSUME NEW k \in Keys
            PROVE  Good(k, queries'[k]) /\ Kept(queries[k], queries'[k])
        <4>1. queries'[k] = Woken(queries[k], online)
          BY <2>4 DEF Show
        <4> QED
          BY <4>1, WokenIsGood DEF FlagsOK
      <3> QED
        BY <2>4, <3>1 DEF Show, StepOK
    <2>5. ASSUME GoOffline \/ Hide
          PROVE  StepOK /\ queries' = [k \in Keys |-> queries'[k]]
      BY <2>5 DEF GoOffline, Hide, StepOK, Kept
    <2>6. ASSUME NEW j \in Keys, Age(j)
          PROVE  StepOK /\ queries' = [k \in Keys |-> queries'[k]]
      <3> DEFINE a == [queries[j] EXCEPT !.stale = TRUE]
      <3>1. a \in Query /\ a.status = queries[j].status /\ a.data = queries[j].data
              /\ a.error = queries[j].error /\ a.asked = queries[j].asked
              /\ a.fetch = queries[j].fetch
        BY DEF Query
      <3>2. Good(j, a) /\ Kept(queries[j], a)
        BY <3>1, SameResultIsGood
      <3>3. queries'[j] = a /\ \A k \in Keys \ {j} : queries'[k] = queries[k]
        BY <2>6 DEF Age
      <3> QED
        BY <2>6, <3>2, <3>3 DEF Age, StepOK, Kept
    <2>7. ASSUME NEW j \in Keys, Collect(j)
          PROVE  StepOK /\ queries' = [k \in Keys |-> queries'[k]]
      <3>1. queries' = [queries EXCEPT ![j] = Unfetched] /\ j \notin Enabled(queries)
        BY <2>7 DEF Collect
      <3> QED
        BY <3>1, UnfetchedIsGood DEF StepOK, Kept
    <2> QED
      BY <2>1, <2>2, <2>3, <2>4, <2>5, <2>6, <2>7 DEF Next, Browser
  <1>2. FlagsOK'
    BY DEF Next, Browser, Answer, Resume, GoOnline, GoOffline, Show, Hide, Age, Collect, FlagsOK
  <1>3. queries' \in [Keys -> Query]
    BY <1>1 DEF StepOK, Good
  <1> QED
    BY <1>1, <1>2, <1>3
-----------------------------------------------------------------------------
(* The conjunction is an invariant of every behaviour of a document.       *)
THEOREM InductiveInvariant == Spec => []IInv
  <1>1. IInv /\ UNCHANGED vars => IInv'
    BY DEF IInv, FlagsOK, vars
  <1>2. IInv /\ Next => IInv'
    BY NextOK DEF StepOK, IInv
  <1> QED
    BY InitIInv, <1>1, <1>2, PTL DEF Spec

(* Type correctness, which bounds the failures that are counted: no        *)
(* request is made a fourth time by the retry function of providers.tsx.   *)
THEOREM TypeCorrect == Spec => []TypeOK
  <1>1. IInv => TypeOK
    BY DEF IInv, FlagsOK, TypeOK
  <1> QED
    BY <1>1, InductiveInvariant, PTL

LEMMA AppHasData ==
  ASSUME IInv, View = "app", route
  PROVE  LET d == DefaultBranch(queries) IN
         /\ d \in Branches
         /\ queries[RepositoryKey].status = "success"
         /\ TreeOf(queries).status = "success" /\ TreeOf(queries).data = d
  <1> DEFINE d == DefaultBranch(queries)
  <1>1. ~IsPending /\ ~HasError
    BY DEF View
  <1>2. d \in Branches \cup {None} /\ TreeKey(d) \in Keys /\ RepositoryKey \in Keys
    BY KeyFacts DEF IInv, DefaultBranch, Query
  <1>3. /\ Good(RepositoryKey, queries[RepositoryKey])
        /\ Good(TreeKey(d), queries[TreeKey(d)])
    BY <1>2 DEF IInv
  <1>4. queries[RepositoryKey].status = "success" /\ queries[TreeKey(d)].status = "success"
    BY <1>1, <1>3 DEF IsPending, HasError, TreeOf, Good, ResultOK, Query
  <1>5. d # None
    BY <1>3, <1>4 DEF Good, ResultOK, DefaultBranch
  <1>6. queries[TreeKey(d)].data = d
    BY <1>2, <1>3, <1>4 DEF Good, ResultOK, TreeOK
  <1> QED
    BY <1>2, <1>4, <1>5, <1>6 DEF TreeOf

(* The tree on the repository page is the one of the default branch of the *)
(* repository shown beside it.                                             *)
THEOREM TreeBelongsToBranch == Spec => []TreeIsOfDefaultBranch
  <1>1. IInv => TreeIsOfDefaultBranch
    BY AppHasData DEF TreeIsOfDefaultBranch
  <1> QED
    BY <1>1, InductiveInvariant, PTL

(* No refetch turns a page that is shown back into the loading page, but   *)
(* one that finds another default branch.                                  *)
THEOREM ShownPageStays == Spec => ShownStaysShown
  <1>1. ASSUME IInv, Next, View = "app", View' = "loading",
               DefaultBranch(queries)' = DefaultBranch(queries)
        PROVE  FALSE
    <2> DEFINE d == DefaultBranch(queries)
    <2>1. route' = route /\ ready' = ready
      BY <1>1 DEF Next, Browser, Answer, Resume, GoOnline, GoOffline, Show, Hide, Age, Collect
    <2>2. route' /\ IsPending'
      BY <1>1 DEF View
    <2>3. /\ d \in Branches
          /\ queries[RepositoryKey].status = "success"
          /\ queries[TreeKey(d)].status = "success" /\ queries[TreeKey(d)].data = d
      BY <1>1, <2>1, <2>2, AppHasData DEF TreeOf
    <2>4. d # None /\ queries[RepositoryKey].data # None
      BY <2>3, NoneAssumption DEF DefaultBranch
    <2>5. RepositoryKey \in Enabled(queries) /\ TreeKey(d) \in Enabled(queries)
      BY <2>1, <2>2, <2>4 DEF Enabled
    <2>6. RepositoryKey \in Keys /\ TreeKey(d) \in Keys
      BY <2>3, KeyFacts
    <2>7. /\ Kept(queries[RepositoryKey], queries'[RepositoryKey])
          /\ Kept(queries[TreeKey(d)], queries'[TreeKey(d)])
      BY <1>1, <2>5, <2>6, NextOK DEF StepOK
    <2>8. /\ queries'[RepositoryKey].status # "pending"
          /\ queries'[TreeKey(d)].status # "pending"
      BY <2>3, <2>4, <2>7 DEF Kept
    <2> QED
      BY <1>1, <2>2, <2>8 DEF IsPending, TreeOf
  <1>2. IInv /\ [Next]_vars =>
          [View = "app" /\ View' = "loading" =>
             DefaultBranch(queries)' # DefaultBranch(queries)]_vars
    BY <1>1
  <1> QED
    BY <1>2, InductiveInvariant, PTL DEF Spec, ShownStaysShown
-----------------------------------------------------------------------------
(* What has paused is waiting for the browser to come back.                *)
PausedOnlyAway == \A k \in Keys : queries[k].fetch = "paused" => ~online \/ ~visible

(* A document is loaded online, with nothing paused.                       *)
LEMMA InitPausedOnlyAway == Init => PausedOnlyAway
  <1> SUFFICES ASSUME Init, NEW k \in Keys PROVE queries[k].fetch # "paused"
    BY DEF PausedOnlyAway
  <1>1. Unfetched.fetch = "idle"
    BY DEF Unfetched
  <1>2. Fetching(Unfetched, None, TRUE).fetch = "fetching"
    BY DEF Fetching, Unfetched
  <1> QED
    BY <1>1, <1>2 DEF Init

(* A fetch that begins while the browser is offline waits for it.          *)
LEMMA FetchingFetch ==
  ASSUME NEW query \in Query, NEW b, NEW connected \in BOOLEAN
  PROVE  Fetching(query, b, connected).fetch = IF connected THEN "fetching" ELSE "paused"
  BY DEF Query, Fetching

(* What a fetch is after each of the updates of a query.                   *)
LEMMA FetchAfter ==
  ASSUME NEW query \in Query
  PROVE  /\ \A b \in Branches \cup {None} : Succeeded(query, b).fetch = "idle"
         /\ \A f \in Failures : Failed(query, f).fetch = "idle"
         /\ Waiting(query).fetch = "waiting"
         /\ Continued(query).fetch \in {"idle", "fetching"}
         /\ \A c \in BOOLEAN :
              /\ [query EXCEPT !.cancelled = c].fetch = query.fetch
              /\ [query EXCEPT !.cancelled = c].failures = query.failures
  BY DEF Query, Succeeded, Failed, Waiting, Continued

(* A query that succeeded is one of the queries.                           *)
LEMMA SucceededInQuery ==
  ASSUME NEW query \in Query, NEW b \in Branches \cup {None}
  PROVE  Succeeded(query, b) \in Query
  <1>1. \A n \in 0 .. 2 :
          [query EXCEPT !.status = "success", !.data = b, !.error = None,
                        !.fetch = "idle", !.failures = n, !.stale = FALSE] \in Query
    BY DEF Query
  <1> QED
    BY <1>1 DEF Succeeded

(* A render leaves every fetch as it is but that of an idle query whose    *)
(* key it begins to observe.                                               *)
LEMMA RenderedFetch ==
  ASSUME online \in BOOLEAN, NEW q \in [Keys -> Query], NEW k \in Keys
  PROVE  \/ /\ Rendered(q)[k].fetch = q[k].fetch
            /\ Rendered(q)[k].failures = q[k].failures
         \/ /\ k \in Enabled(q) \ Enabled(queries) /\ q[k].fetch = "idle"
            /\ Rendered(q)[k] = Fetching(q[k], DefaultBranch(q), online)
  <1>1. q[k] \in Query
    OBVIOUS
  <1>2. CASE k \in Enabled(q) \ Enabled(queries)
    <2>1. Rendered(q)[k] = Observed(q[k], DefaultBranch(q))
      BY <1>2 DEF Rendered
    <2> QED
      BY <1>1, <1>2, <2>1, FetchAfter DEF Observed
  <1>3. CASE k \in Enabled(q) \cap Enabled(queries)
    BY <1>3 DEF Rendered
  <1>4. CASE k \notin Enabled(q)
    <2>1. Rendered(q)[k] = [q[k] EXCEPT !.cancelled = q[k].fetch # "idle"]
      BY <1>4 DEF Rendered
    <2>2. (q[k].fetch # "idle") \in BOOLEAN
      OBVIOUS
    <2> QED
      BY <1>1, <2>1, <2>2, FetchAfter
  <1> QED
    BY <1>2, <1>3, <1>4

(* Fetching and Resume pause only what cannot go on; GoOnline and Show     *)
(* wake it.                                                                *)
LEMMA NextPausedOnlyAway == IInv /\ PausedOnlyAway /\ [Next]_vars => PausedOnlyAway'
  <1> SUFFICES ASSUME IInv, PausedOnlyAway, [Next]_vars, NEW k \in Keys,
                      queries'[k].fetch = "paused"
               PROVE  ~online' \/ ~visible'
    BY DEF PausedOnlyAway
  <1>0. /\ FlagsOK /\ queries \in [Keys -> Query]
        /\ queries[k].fetch = "paused" => ~online \/ ~visible
    BY DEF IInv, PausedOnlyAway
  <1>00. queries[k] \in Query /\ queries = [i \in Keys |-> queries[i]]
    BY <1>0
  <1>1. ASSUME NEW j \in Keys, Answer(j)
        PROVE  ~online' \/ ~visible'
    <2>1. online' = online /\ visible' = visible
      BY <1>1 DEF Answer
    <2>2. CASE \E b \in AnswersOf(j) :
                 queries' = Rendered([queries EXCEPT ![j] = Succeeded(@, b)])
      <3>1. PICK b \in AnswersOf(j) :
                   queries' = Rendered([queries EXCEPT ![j] = Succeeded(@, b)])
        BY <2>2
      <3> DEFINE q == [queries EXCEPT ![j] = Succeeded(@, b)]
      <3>2. b \in Branches \cup {None}
        BY <1>0 DEF AnswersOf, Query
      <3>3. q \in [Keys -> Query] /\ (k # j => q[k] = queries[k]) /\ q[j].fetch = "idle"
        BY <1>0, <3>2, FetchAfter, SucceededInQuery
      <3>4. queries'[k] = Rendered(q)[k]
        BY <3>1
      <3> HIDE DEF q
      <3>5. \/ Rendered(q)[k].fetch = q[k].fetch
            \/ q[k].fetch = "idle" /\ Rendered(q)[k] = Fetching(q[k], DefaultBranch(q), online)
        BY <1>0, <3>3, RenderedFetch DEF FlagsOK
      <3>6. q[k] \in Query
        BY <3>3
      <3> QED
        <4>1. Fetching(q[k], DefaultBranch(q), online).fetch
                = IF online THEN "fetching" ELSE "paused"
          BY <1>0, <3>6, FetchingFetch DEF FlagsOK
        <4>2. q[k].fetch = queries[k].fetch \/ q[k].fetch = "idle"
          BY <3>3
        <4> QED
          BY <1>0, <2>1, <3>4, <3>5, <4>1, <4>2
    <2>3. CASE \E f \in FailuresOf(j) :
                 queries' = [queries EXCEPT ![j] = IF ~@.cancelled /\ Retry(@.failures, f)
                                                   THEN Waiting(@) ELSE Failed(@, f)]
      <3>1. PICK f \in FailuresOf(j) :
              queries' = [queries EXCEPT ![j] = IF ~@.cancelled /\ Retry(@.failures, f)
                                                THEN Waiting(@) ELSE Failed(@, f)]
        BY <2>3
      <3>2. f \in Failures
        BY FailuresAssumption DEF FailuresOf
      <3>3. \/ k # j /\ queries'[k] = queries[k]
            \/ k = j /\ queries'[k].fetch \in {"waiting", "idle"}
        <4>1. Failed(queries[j], f).fetch = "idle" /\ Waiting(queries[j]).fetch = "waiting"
          BY <1>0, <3>2, FetchAfter
        <4>2. CASE k = j
          <5>1. queries'[k] = Waiting(queries[j]) \/ queries'[k] = Failed(queries[j], f)
            BY <1>0, <3>1, <4>2
          <5> QED
            BY <4>1, <4>2, <5>1
        <4>3. \A i \in Keys \ {j} : queries'[i] = queries[i]
          BY <3>1, <1>00
        <4> QED
          BY <4>2, <4>3
      <3> QED
        BY <1>0, <2>1, <3>3
    <2> QED
      BY <1>1, <2>2, <2>3 DEF Answer
  <1>2. ASSUME NEW j \in Keys, Resume(j)
        PROVE  ~online' \/ ~visible'
    BY <1>0, <1>2, FetchAfter DEF Resume
  <1>3. CASE GoOnline
    <2>1. CASE k \in Enabled(queries) /\ queries[k].fetch = "idle" /\ queries[k].stale
      <3>1. queries'[k] = Fetching(queries[k], DefaultBranch(queries), TRUE)
        BY <1>3, <2>1 DEF GoOnline
      <3>2. Fetching(queries[k], DefaultBranch(queries), TRUE).fetch = "fetching"
        BY <1>00, FetchingFetch
      <3> QED
        BY <3>1, <3>2
    <2>2. CASE ~(k \in Enabled(queries) /\ queries[k].fetch = "idle" /\ queries[k].stale)
      <3>1. queries'[k] = Woken(queries[k], visible) /\ visible' = visible
        BY <1>3, <2>2 DEF GoOnline
      <3> QED
        BY <1>0, <3>1, FetchAfter DEF Woken
    <2> QED
      BY <2>1, <2>2
  <1>4. CASE Show
    <2>1. queries'[k] = Woken(queries[k], online) /\ online' = online
      BY <1>4 DEF Show
    <2> QED
      BY <1>0, <2>1, FetchAfter DEF Woken
  <1>5. CASE GoOffline \/ Hide
    BY <1>5, <1>0 DEF GoOffline, Hide, FlagsOK
  <1>6. ASSUME NEW j \in Keys, Age(j)
        PROVE  ~online' \/ ~visible'
    <2>1. queries'[k].fetch = queries[k].fetch
      BY <1>0, <1>6 DEF Age, Query
    <2> QED
      BY <1>0, <1>6, <2>1 DEF Age
  <1>7. ASSUME NEW j \in Keys, Collect(j)
        PROVE  ~online' \/ ~visible'
    BY <1>0, <1>7 DEF Collect, Unfetched
  <1>8. CASE UNCHANGED vars
    BY <1>0, <1>8 DEF vars
  <1> QED
    BY <1>1, <1>2, <1>3, <1>4, <1>5, <1>6, <1>7, <1>8 DEF Next, Browser

(* No wake-up is lost: whatever a query is asked while the browser goes    *)
(* offline, comes back, is hidden or shown, no fetch or retry of the query *)
(* library stays paused once the browser is online and visible.            *)
THEOREM NothingStaysPaused == Spec => []PausedOnlyAway
  <1> QED
    BY InitPausedOnlyAway, NextPausedOnlyAway, InductiveInvariant, PTL DEF Spec
-----------------------------------------------------------------------------
(* How many changes of its fetch a query has left, at most: three          *)
(* requests, and a delay and a pause before each retry.                    *)
Left(query) ==
  IF query.fetch = "idle" THEN 0
  ELSE 3 * (2 - query.failures) +
         (CASE query.fetch = "fetching" -> 1
            [] query.fetch = "paused"   -> 2
            [] query.fetch = "waiting"  -> 3)

(* A step that leaves a fetch as it is, or brings it nearer to its end.    *)
Onward(before, after) ==
  \/ after.fetch = before.fetch /\ Left(after) = Left(before)
  \/ Left(after) < Left(before)

(* What fetches an idle query: the browser came back online, or the        *)
(* repository has another default branch, whose tree it is.                *)
Begins(k) ==
  /\ queries[k].fetch = "idle"
  /\ \/ ~online /\ online'
     \/ k # RepositoryKey /\ DefaultBranch(queries)' # DefaultBranch(queries)

(* No fetch goes on without end: each of its changes brings it nearer.     *)
FetchesRunOut == [][\A k \in Keys : Onward(queries[k], queries'[k]) \/ Begins(k)]_vars

(* What is under way has something left to do.                             *)
LEMMA LeftIsPositive ==
  ASSUME NEW query \in Query, query.fetch # "idle"
  PROVE  Left(query) \in Nat \ {0}
  BY DEF Query, Left

(* A step that leaves the fetch and its failures alone goes onward.        *)
LEMMA SameIsOnward ==
  ASSUME NEW before, NEW after,
         after.fetch = before.fetch, after.failures = before.failures
  PROVE  Onward(before, after)
  BY DEF Onward, Left

(* The end of a fetch.                                                     *)
LEMMA EndIsOnward ==
  ASSUME NEW before \in Query, before.fetch # "idle", NEW after, after.fetch = "idle"
  PROVE  Onward(before, after)
  <1>1. Left(after) = 0
    BY DEF Left
  <1> QED
    BY <1>1, LeftIsPositive DEF Onward

(* A retry: Retry lets two happen, so that there is one less left.         *)
LEMMA WaitingIsOnward ==
  ASSUME NEW query \in Query, query.fetch = "fetching", query.failures < 2
  PROVE  Onward(query, Waiting(query))
  <1>1. Waiting(query).fetch = "waiting" /\ Waiting(query).failures = query.failures + 1
    BY DEF Query, Waiting
  <1>2. Left(query) = 3 * (2 - query.failures) + 1
    BY DEF Left
  <1>3. Left(Waiting(query)) = 3 * (2 - (query.failures + 1)) + 3
    BY <1>1 DEF Left
  <1>4. query.failures \in 0 .. 2
    BY DEF Query
  <1> QED
    BY <1>2, <1>3, <1>4 DEF Onward

(* A pause after the delay.                                                *)
LEMMA PausingIsOnward ==
  ASSUME NEW query \in Query, query.fetch = "waiting"
  PROVE  Onward(query, [query EXCEPT !.fetch = "paused"])
  <1> DEFINE p == [query EXCEPT !.fetch = "paused"]
  <1>1. p.fetch = "paused" /\ p.failures = query.failures /\ query.failures \in 0 .. 2
    BY DEF Query
  <1> HIDE DEF p
  <1>2. Left(query) = 3 * (2 - query.failures) + 3 /\ Left(p) = 3 * (2 - query.failures) + 2
    BY <1>1 DEF Left
  <1>3. Onward(query, p)
    BY <1>1, <1>2 DEF Onward
  <1> QED
    BY <1>3 DEF p

(* The request after a delay or a pause, or the end of what was cancelled. *)
LEMMA ContinuedIsOnward ==
  ASSUME NEW query \in Query, query.fetch \in {"waiting", "paused"}
  PROVE  Onward(query, Continued(query))
  <1>1. CASE query.cancelled /\ query.failures > 0
    <2>1. Continued(query).fetch = "idle"
      BY <1>1, FetchAfter DEF Continued, Failures
    <2> QED
      BY <2>1, EndIsOnward
  <1>2. CASE ~(query.cancelled /\ query.failures > 0)
    <2> DEFINE c == Continued(query)
    <2>1. c.fetch = "fetching" /\ c.failures = query.failures /\ query.failures \in 0 .. 2
      BY <1>2 DEF Query, Continued
    <2> HIDE DEF c
    <2>2. Left(c) = 3 * (2 - query.failures) + 1
      BY <2>1 DEF Left
    <2>3. Left(query) \in {3 * (2 - query.failures) + 2, 3 * (2 - query.failures) + 3}
      BY DEF Left
    <2>4. Onward(query, c)
      BY <2>1, <2>2, <2>3 DEF Onward
    <2> QED
      BY <2>4 DEF c
  <1> QED
    BY <1>1, <1>2

(* The browser's return goes on with what was paused.                      *)
LEMMA WokenIsOnward ==
  ASSUME NEW query \in Query, NEW awake \in BOOLEAN
  PROVE  Onward(query, Woken(query, awake))
  <1>1. CASE query.fetch = "paused" /\ awake
    BY <1>1, ContinuedIsOnward DEF Woken
  <1>2. CASE ~(query.fetch = "paused" /\ awake)
    BY <1>2, SameIsOnward DEF Woken
  <1> QED
    BY <1>1, <1>2

(* What an answer begins to fetch, beside ending its own fetch, is the     *)
(* tree of another default branch.                                         *)
LEMMA SuccessIsOnward ==
  ASSUME IInv, NEW j \in Keys, queries[j].fetch = "fetching", NEW b \in AnswersOf(j),
         queries' = Rendered([queries EXCEPT ![j] = Succeeded(@, b)]), UNCHANGED online,
         NEW k \in Keys
  PROVE  Onward(queries[k], queries'[k]) \/ Begins(k)
  <1> DEFINE q == [queries EXCEPT ![j] = Succeeded(@, b)]
  <1>1. queries \in [Keys -> Query] /\ online \in BOOLEAN
    BY DEF IInv, FlagsOK
  <1>2. b \in Branches \cup {None}
    BY <1>1 DEF AnswersOf, Query
  <1>3. /\ q \in [Keys -> Query]
        /\ q[j].fetch = "idle"
        /\ \A i \in Keys \ {j} : q[i] = queries[i]
    BY <1>1, <1>2, FetchAfter, SucceededInQuery
  <1>4. \A i \in Keys : queries'[i] = Rendered(q)[i]
    OBVIOUS
  <1> HIDE DEF q
  <1>5. CASE queries'[k].fetch = q[k].fetch /\ queries'[k].failures = q[k].failures
    <2>1. CASE k = j
      BY <1>1, <1>3, <1>5, <2>1, EndIsOnward
    <2>2. CASE k # j
      BY <1>3, <1>5, <2>2, SameIsOnward
    <2> QED
      BY <2>1, <2>2
  <1>6. CASE k \in Enabled(q) \ Enabled(queries) /\ q[k].fetch = "idle"
    <2>1. route /\ k # RepositoryKey /\ DefaultBranch(q) # DefaultBranch(queries)
      BY <1>6 DEF Enabled
    <2>2. j = RepositoryKey
      BY <1>3, <2>1, KeyFacts DEF DefaultBranch
    <2>3. RepositoryKey \in Enabled(q) \cap Enabled(queries)
      BY <2>1 DEF Enabled
    <2>4. queries'[RepositoryKey] = q[RepositoryKey]
      BY <1>4, <2>3, KeyFacts DEF Rendered
    <2>5. DefaultBranch(queries)' = DefaultBranch(q)
      BY <2>4 DEF DefaultBranch
    <2>6. queries[k].fetch = "idle"
      BY <1>3, <1>6, <2>1, <2>2
    <2> QED
      BY <2>1, <2>5, <2>6 DEF Begins
  <1>7. \/ /\ Rendered(q)[k].fetch = q[k].fetch
           /\ Rendered(q)[k].failures = q[k].failures
        \/ k \in Enabled(q) \ Enabled(queries) /\ q[k].fetch = "idle"
    BY <1>1, <1>3, RenderedFetch
  <1>8. queries'[k] = Rendered(q)[k]
    BY <1>4
  <1> QED
    BY <1>5, <1>6, <1>7, <1>8

(* Every step, for every query.                                            *)
LEMMA NextIsOnward ==
  ASSUME IInv, Next, NEW k \in Keys
  PROVE  Onward(queries[k], queries'[k]) \/ Begins(k)
  <1>0. FlagsOK /\ queries \in [Keys -> Query] /\ queries[k] \in Query
    BY DEF IInv
  <1>1. ASSUME NEW j \in Keys, Answer(j)
        PROVE  Onward(queries[k], queries'[k]) \/ Begins(k)
    <2>1. CASE \E b \in AnswersOf(j) :
                 queries' = Rendered([queries EXCEPT ![j] = Succeeded(@, b)])
      BY <1>1, <2>1, SuccessIsOnward DEF Answer
    <2>2. CASE \E f \in FailuresOf(j) :
                 queries' = [queries EXCEPT ![j] = IF ~@.cancelled /\ Retry(@.failures, f)
                                                   THEN Waiting(@) ELSE Failed(@, f)]
      <3>1. PICK f \in FailuresOf(j) :
              queries' = [queries EXCEPT ![j] = IF ~@.cancelled /\ Retry(@.failures, f)
                                                THEN Waiting(@) ELSE Failed(@, f)]
        BY <2>2
      <3>2. f \in Failures
        BY FailuresAssumption DEF FailuresOf
      <3>3. queries[j].fetch = "fetching" /\ queries[j] \in Query
        BY <1>0, <1>1 DEF Answer
      <3>4. \/ queries'[j] = Waiting(queries[j]) /\ queries[j].failures < 2
            \/ queries'[j] = Failed(queries[j], f)
        BY <1>0, <3>1 DEF Retry
      <3>5. Onward(queries[j], queries'[j])
        <4>1. Failed(queries[j], f).fetch = "idle"
          BY <3>2, <3>3, FetchAfter
        <4> QED
          BY <3>3, <3>4, <4>1, WaitingIsOnward, EndIsOnward
      <3>6. \A i \in Keys \ {j} : queries'[i] = queries[i]
        BY <1>0, <3>1
      <3> QED
        BY <3>5, <3>6, SameIsOnward
    <2> QED
      BY <1>1, <2>1, <2>2 DEF Answer
  <1>2. ASSUME NEW j \in Keys, Resume(j)
        PROVE  Onward(queries[k], queries'[k])
    <2>1. queries[j].fetch = "waiting" /\ queries[j] \in Query
      BY <1>0, <1>2 DEF Resume
    <2>2. \/ queries'[j] = Continued(queries[j])
          \/ queries'[j] = [queries[j] EXCEPT !.fetch = "paused"]
      BY <1>0, <1>2 DEF Resume
    <2>3. Onward(queries[j], queries'[j])
      BY <2>1, <2>2, ContinuedIsOnward, PausingIsOnward
    <2>4. \A i \in Keys \ {j} : queries'[i] = queries[i]
      BY <1>0, <1>2 DEF Resume
    <2> QED
      BY <2>3, <2>4, SameIsOnward
  <1>3. CASE GoOnline
    <2>1. CASE k \in Enabled(queries) /\ queries[k].fetch = "idle" /\ queries[k].stale
      BY <1>3, <2>1 DEF GoOnline, Begins
    <2>2. CASE ~(k \in Enabled(queries) /\ queries[k].fetch = "idle" /\ queries[k].stale)
      <3>1. queries'[k] = Woken(queries[k], visible)
        BY <1>3, <2>2 DEF GoOnline
      <3> QED
        BY <1>0, <3>1, WokenIsOnward DEF FlagsOK
    <2> QED
      BY <2>1, <2>2
  <1>4. CASE Show
    <2>1. queries'[k] = Woken(queries[k], online)
      BY <1>4 DEF Show
    <2> QED
      BY <1>0, <2>1, WokenIsOnward DEF FlagsOK
  <1>5. CASE GoOffline \/ Hide
    BY <1>5, SameIsOnward DEF GoOffline, Hide
  <1>6. ASSUME NEW j \in Keys, Age(j)
        PROVE  Onward(queries[k], queries'[k])
    <2>1. /\ queries'[k].fetch = queries[k].fetch
          /\ queries'[k].failures = queries[k].failures
      BY <1>0, <1>6 DEF Age, Query
    <2> QED
      BY <2>1, SameIsOnward
  <1>7. ASSUME NEW j \in Keys, Collect(j)
        PROVE  Onward(queries[k], queries'[k])
    <2>1. CASE k = j
      <3>1. queries[k].fetch = "idle" /\ queries'[k].fetch = "idle"
        BY <1>0, <1>7, <2>1 DEF Collect, Unfetched
      <3> QED
        BY <3>1 DEF Onward, Left
    <2>2. CASE k # j
      <3>1. queries'[k] = queries[k]
        BY <1>0, <1>7, <2>2 DEF Collect
      <3> QED
        BY <3>1, SameIsOnward
    <2> QED
      BY <2>1, <2>2
  <1> QED
    BY <1>1, <1>2, <1>3, <1>4, <1>5, <1>6, <1>7 DEF Next, Browser

(* However the API fails, and whatever the browser does meanwhile, a fetch *)
(* of the query library has at most eight changes to make: only the        *)
(* browser's return and another default branch begin a new one.  What      *)
(* RequestsEnd asks of FairSpec besides is that answers come and delays    *)
(* end.                                                                    *)
THEOREM FetchesEnd == Spec => FetchesRunOut
  <1>1. IInv /\ [Next]_vars =>
          [\A k \in Keys : Onward(queries[k], queries'[k]) \/ Begins(k)]_vars
    BY NextIsOnward
  <1> QED
    BY <1>1, InductiveInvariant, PTL DEF Spec, FetchesRunOut
-----------------------------------------------------------------------------
(* What is fresh has been answered, and an enabled query that has neither  *)
(* data nor an error is under way.                                         *)
Answered(query) == ~query.stale => query.status = "success"
UnderWay(query) == query.status = "pending" => query.fetch # "idle"

PendingIsUnderWay ==
  /\ \A k \in Keys : Answered(queries[k])
  /\ \A k \in Enabled(queries) : UnderWay(queries[k])

(* The loading page waits for something: for the repository, or for the    *)
(* tree of its default branch; or else the repository has failed.          *)
LoadingIsUnderWay ==
  View = "loading" =>
    \/ queries[RepositoryKey].fetch # "idle"
    \/ DefaultBranch(queries) # None /\ TreeOf(queries).fetch # "idle"
    \/ queries[RepositoryKey].error # None

(* A fetch begins under way, and of something stale.                       *)
LEMMA FetchingSettles ==
  ASSUME NEW query \in Query, query.stale, NEW b, NEW connected \in BOOLEAN
  PROVE  /\ Answered(Fetching(query, b, connected)) /\ UnderWay(Fetching(query, b, connected))
         /\ Fetching(query, b, connected).data = query.data
  <1> DEFINE f == Fetching(query, b, connected)
  <1>1. f.fetch # "idle" /\ f.stale = query.stale /\ f.data = query.data
    BY DEF Query, Fetching
  <1> QED
    BY <1>1 DEF Answered, UnderWay

(* A fetch that succeeded is fresh.                                        *)
LEMMA SucceededSettles ==
  ASSUME NEW query \in Query, NEW b
  PROVE  Answered(Succeeded(query, b)) /\ UnderWay(Succeeded(query, b))
  <1>1. Succeeded(query, b).status = "success"
    BY DEF Query, Succeeded
  <1> QED
    BY <1>1 DEF Answered, UnderWay

(* A failure leaves the data, stale.                                       *)
LEMMA FailedSettles ==
  ASSUME NEW query \in Query, NEW f
  PROVE  /\ Answered(Failed(query, f)) /\ UnderWay(Failed(query, f))
         /\ Failed(query, f).data = query.data
  <1>1. /\ Failed(query, f).status = "error" /\ Failed(query, f).stale = TRUE
        /\ Failed(query, f).data = query.data
    BY DEF Query, Failed
  <1> QED
    BY <1>1 DEF Answered, UnderWay

(* A retry is under way.                                                   *)
LEMMA WaitingSettles ==
  ASSUME NEW query \in Query, Answered(query)
  PROVE  /\ Answered(Waiting(query)) /\ UnderWay(Waiting(query))
         /\ Waiting(query).data = query.data
  <1>1. /\ Waiting(query).fetch = "waiting" /\ Waiting(query).status = query.status
        /\ Waiting(query).stale = query.stale /\ Waiting(query).data = query.data
    BY DEF Query, Waiting
  <1> QED
    BY <1>1 DEF Answered, UnderWay

(* What has waited goes on, or has failed.                                 *)
LEMMA ContinuedSettles ==
  ASSUME NEW query \in Query, Answered(query)
  PROVE  /\ Answered(Continued(query)) /\ UnderWay(Continued(query))
         /\ Continued(query).data = query.data
  <1>1. CASE query.cancelled /\ query.failures > 0
    BY <1>1, FailedSettles DEF Continued
  <1>2. CASE ~(query.cancelled /\ query.failures > 0)
    <2>1. /\ Continued(query).fetch = "fetching" /\ Continued(query).status = query.status
          /\ Continued(query).stale = query.stale /\ Continued(query).data = query.data
      BY <1>2 DEF Query, Continued
    <2> QED
      BY <2>1 DEF Answered, UnderWay
  <1> QED
    BY <1>1, <1>2

(* What is woken stays under way, or has ended.                            *)
LEMMA WokenSettles ==
  ASSUME NEW query \in Query, Answered(query), NEW awake \in BOOLEAN
  PROVE  /\ Answered(Woken(query, awake))
         /\ UnderWay(query) => UnderWay(Woken(query, awake))
         /\ Woken(query, awake).data = query.data
  BY ContinuedSettles DEF Woken

(* What nobody observes any more keeps its result.                         *)
LEMMA CancelledSettles ==
  ASSUME NEW query \in Query, Answered(query), NEW c \in BOOLEAN
  PROVE  LET d == [query EXCEPT !.cancelled = c] IN
         Answered(d) /\ (UnderWay(query) => UnderWay(d)) /\ d.data = query.data
  <1> DEFINE d == [query EXCEPT !.cancelled = c]
  <1>1. /\ d.status = query.status /\ d.stale = query.stale
        /\ d.fetch = query.fetch /\ d.data = query.data
    BY DEF Query
  <1> QED
    BY <1>1 DEF Answered, UnderWay

(* A key that begins to be observed is fetched unless it has its answer.   *)
LEMMA ObservedSettles ==
  ASSUME NEW query \in Query, Answered(query), NEW b, online \in BOOLEAN
  PROVE  /\ Answered(Observed(query, b)) /\ UnderWay(Observed(query, b))
         /\ Observed(query, b).data = query.data
  <1>1. CASE query.fetch # "idle"
    <2>1. Observed(query, b) = [query EXCEPT !.cancelled = FALSE]
      BY <1>1 DEF Observed
    <2>2. UnderWay(query)
      BY <1>1 DEF UnderWay
    <2> QED
      BY <2>1, <2>2, CancelledSettles
  <1>2. CASE query.fetch = "idle" /\ query.stale
    BY <1>2, FetchingSettles DEF Observed
  <1>3. CASE query.fetch = "idle" /\ ~query.stale
    BY <1>3 DEF Observed, Answered, UnderWay
  <1> QED
    BY <1>1, <1>2, <1>3

(* A render keeps every query's data and observes what it enables.         *)
LEMMA RenderedSettles ==
  ASSUME online \in BOOLEAN, NEW q \in [Keys -> Query], \A i \in Keys : Answered(q[i]),
         NEW k \in Keys
  PROVE  /\ Answered(Rendered(q)[k])
         /\ Rendered(q)[k].data = q[k].data
         /\ k \in Enabled(q) \ Enabled(queries) => UnderWay(Rendered(q)[k])
         /\ k \in Enabled(q) /\ UnderWay(q[k]) => UnderWay(Rendered(q)[k])
  <1>0. q[k] \in Query /\ Answered(q[k])
    OBVIOUS
  <1>1. CASE k \in Enabled(q) \ Enabled(queries)
    <2>1. Rendered(q)[k] = Observed(q[k], DefaultBranch(q))
      BY <1>1 DEF Rendered
    <2> QED
      BY <1>0, <2>1, ObservedSettles
  <1>2. CASE k \in Enabled(q) \cap Enabled(queries)
    <2>1. Rendered(q)[k] = q[k]
      BY <1>2 DEF Rendered
    <2> QED
      BY <1>0, <1>2, <2>1
  <1>3. CASE k \notin Enabled(q)
    <2>1. Rendered(q)[k] = [q[k] EXCEPT !.cancelled = q[k].fetch # "idle"]
      BY <1>3 DEF Rendered
    <2>2. (q[k].fetch # "idle") \in BOOLEAN
      OBVIOUS
    <2>3. Answered(Rendered(q)[k]) /\ Rendered(q)[k].data = q[k].data
      BY <1>0, <2>1, <2>2, CancelledSettles
    <2> QED
      BY <1>3, <2>3
  <1> QED
    BY <1>1, <1>2, <1>3

(* The keys a document observes change only with the default branch.       *)
LEMMA SameEnabled ==
  ASSUME route' = route, queries'[RepositoryKey].data = queries[RepositoryKey].data
  PROVE  Enabled(queries)' = Enabled(queries)
  BY DEF Enabled, DefaultBranch

(* A document asks for its repository at once.                             *)
LEMMA InitPendingIsUnderWay == Init => PendingIsUnderWay
  <1> SUFFICES ASSUME Init PROVE PendingIsUnderWay
    OBVIOUS
  <1>1. Unfetched \in Query /\ Unfetched.stale /\ Unfetched.data = None
    BY NoneAssumption DEF Unfetched, Query
  <1>2. Answered(Unfetched)
    BY <1>1 DEF Answered
  <1> DEFINE f == Fetching(Unfetched, None, TRUE)
  <1>3. Answered(f) /\ UnderWay(f) /\ f.data = None
    BY <1>1, FetchingSettles
  <1>4. \A k \in Keys : queries[k] = IF route /\ k = RepositoryKey THEN f ELSE Unfetched
    BY DEF Init
  <1> HIDE DEF f
  <1>5. \A k \in Keys : Answered(queries[k])
    BY <1>2, <1>3, <1>4
  <1>6. DefaultBranch(queries) = None
    BY <1>1, <1>3, <1>4, KeyFacts DEF DefaultBranch
  <1>7. ASSUME NEW k \in Enabled(queries) PROVE UnderWay(queries[k])
    <2>1. route /\ k = RepositoryKey
      BY <1>6 DEF Enabled
    <2> QED
      BY <1>3, <1>4, <2>1, KeyFacts
  <1> QED
    BY <1>5, <1>7 DEF PendingIsUnderWay

(* An answer with data: what it enables is fetched in the same render.     *)
LEMMA SuccessKeepsUnderWay ==
  ASSUME IInv, PendingIsUnderWay, NEW j \in Keys, NEW b \in AnswersOf(j),
         queries' = Rendered([queries EXCEPT ![j] = Succeeded(@, b)]), route' = route
  PROVE  PendingIsUnderWay'
  <1> DEFINE q == [queries EXCEPT ![j] = Succeeded(@, b)]
  <1>1. queries \in [Keys -> Query] /\ online \in BOOLEAN
    BY DEF IInv, FlagsOK
  <1>2. b \in Branches \cup {None}
    BY <1>1 DEF AnswersOf, Query
  <1>3. /\ q \in [Keys -> Query]
        /\ Answered(q[j]) /\ UnderWay(q[j])
        /\ \A i \in Keys \ {j} : q[i] = queries[i]
    BY <1>1, <1>2, SucceededSettles, SucceededInQuery
  <1>4. \A i \in Keys : queries'[i] = Rendered(q)[i]
    OBVIOUS
  <1> HIDE DEF q
  <1>5. \A i \in Keys : Answered(q[i])
    BY <1>3 DEF PendingIsUnderWay
  <1>6. \A i \in Keys :
          /\ Answered(queries'[i])
          /\ queries'[i].data = q[i].data
          /\ i \in Enabled(q) \ Enabled(queries) => UnderWay(queries'[i])
          /\ i \in Enabled(q) /\ UnderWay(q[i]) => UnderWay(queries'[i])
    <2> SUFFICES ASSUME NEW i \in Keys
                 PROVE  /\ Answered(queries'[i])
                        /\ queries'[i].data = q[i].data
                        /\ i \in Enabled(q) \ Enabled(queries) => UnderWay(queries'[i])
                        /\ i \in Enabled(q) /\ UnderWay(q[i]) => UnderWay(queries'[i])
      OBVIOUS
    <2>1. queries'[i] = Rendered(q)[i]
      BY <1>4
    <2>2. /\ Answered(Rendered(q)[i])
          /\ Rendered(q)[i].data = q[i].data
          /\ i \in Enabled(q) \ Enabled(queries) => UnderWay(Rendered(q)[i])
          /\ i \in Enabled(q) /\ UnderWay(q[i]) => UnderWay(Rendered(q)[i])
      BY <1>1, <1>3, <1>5, RenderedSettles
    <2> QED
      BY <2>1, <2>2
  <1>7. Enabled(queries)' = Enabled(q)
    BY <1>6, KeyFacts DEF Enabled, DefaultBranch
  <1>8. ASSUME NEW k \in Enabled(q) PROVE UnderWay(queries'[k])
    <2>1. k \in Keys
      BY <1>3, EnabledFacts
    <2>2. CASE k \notin Enabled(queries)
      BY <1>6, <2>1, <2>2
    <2>3. CASE k \in Enabled(queries)
      <3>1. UnderWay(q[k])
        BY <1>3, <2>1, <2>3 DEF PendingIsUnderWay
      <3> QED
        BY <1>6, <2>1, <3>1
    <2> QED
      BY <2>2, <2>3
  <1> QED
    BY <1>6, <1>7, <1>8 DEF PendingIsUnderWay

(* Any other step: no query begins to be observed, and none stops being    *)
(* under way without an answer.                                            *)
LEMMA OthersKeepUnderWay ==
  ASSUME IInv, PendingIsUnderWay, route' = route,
         \A k \in Keys : /\ Answered(queries'[k])
                         /\ k \in Enabled(queries) /\ UnderWay(queries[k]) =>
                              UnderWay(queries'[k]) /\ queries'[k].data = queries[k].data
  PROVE  PendingIsUnderWay'
  <1>1. queries \in [Keys -> Query]
    BY DEF IInv
  <1>2. \A k \in Enabled(queries) : k \in Keys
    BY <1>1, EnabledFacts
  <1>3. Enabled(queries)' = Enabled(queries)
    <2>1. CASE route
      <3>1. RepositoryKey \in Enabled(queries)
        BY <2>1 DEF Enabled
      <3> QED
        BY <1>2, <3>1, SameEnabled DEF PendingIsUnderWay
    <2>2. CASE ~route
      BY <2>2 DEF Enabled
    <2> QED
      BY <2>1, <2>2
  <1>4. \A k \in Enabled(queries) : UnderWay(queries'[k])
    BY <1>2 DEF PendingIsUnderWay
  <1> QED
    BY <1>3, <1>4 DEF PendingIsUnderWay

(* Every step keeps what is pending under way.                             *)
LEMMA NextPendingIsUnderWay == IInv /\ PendingIsUnderWay /\ [Next]_vars => PendingIsUnderWay'
  <1> SUFFICES ASSUME IInv, PendingIsUnderWay, [Next]_vars PROVE PendingIsUnderWay'
    OBVIOUS
  <1> DEFINE Keeps(k) ==
        /\ Answered(queries'[k])
        /\ k \in Enabled(queries) /\ UnderWay(queries[k]) =>
             UnderWay(queries'[k]) /\ queries'[k].data = queries[k].data
  <1>0. /\ FlagsOK /\ queries \in [Keys -> Query]
        /\ \A k \in Keys : queries[k] \in Query /\ Answered(queries[k])
    BY DEF IInv, PendingIsUnderWay
  <1>a. ASSUME NEW k \in Keys, queries'[k] = queries[k] PROVE Keeps(k)
    BY <1>0, <1>a
  <1>b. ASSUME route' = route, \A k \in Keys : Keeps(k) PROVE PendingIsUnderWay'
    BY <1>b, OthersKeepUnderWay
  <1>c. ASSUME NEW j \in Keys, Keeps(j), \A i \in Keys \ {j} : queries'[i] = queries[i]
        PROVE  \A k \in Keys : Keeps(k)
    BY <1>a, <1>c
  <1>1. ASSUME NEW j \in Keys, Answer(j) PROVE PendingIsUnderWay'
    <2>0. route' = route
      BY <1>1 DEF Answer
    <2>1. CASE \E b \in AnswersOf(j) :
                 queries' = Rendered([queries EXCEPT ![j] = Succeeded(@, b)])
      BY <2>0, <2>1, SuccessKeepsUnderWay
    <2>2. CASE \E f \in FailuresOf(j) :
                 queries' = [queries EXCEPT ![j] = IF ~@.cancelled /\ Retry(@.failures, f)
                                                   THEN Waiting(@) ELSE Failed(@, f)]
      <3>1. PICK f \in FailuresOf(j) :
              queries' = [queries EXCEPT ![j] = IF ~@.cancelled /\ Retry(@.failures, f)
                                                THEN Waiting(@) ELSE Failed(@, f)]
        BY <2>2
      <3>2. queries'[j] = Waiting(queries[j]) \/ queries'[j] = Failed(queries[j], f)
        BY <1>0, <3>1
      <3>3. \A i \in Keys \ {j} : queries'[i] = queries[i]
        BY <1>0, <3>1
      <3>4. Keeps(j)
        BY <1>0, <3>2, WaitingSettles, FailedSettles
      <3> HIDE DEF Keeps
      <3> QED
        BY <1>b, <1>c, <2>0, <3>3, <3>4
    <2> QED
      BY <1>1, <2>1, <2>2 DEF Answer
  <1>2. ASSUME NEW j \in Keys, Resume(j) PROVE PendingIsUnderWay'
    <2> DEFINE p == [queries[j] EXCEPT !.fetch = "paused"]
    <2>1. queries'[j] = Continued(queries[j]) \/ queries'[j] = p
      BY <1>0, <1>2 DEF Resume
    <2>2. route' = route /\ \A i \in Keys \ {j} : queries'[i] = queries[i]
      BY <1>0, <1>2 DEF Resume
    <2>3. /\ p.fetch = "paused" /\ p.status = queries[j].status
          /\ p.stale = queries[j].stale /\ p.data = queries[j].data
      BY <1>0 DEF Query
    <2>4. Answered(p) /\ UnderWay(p)
      BY <1>0, <2>3 DEF Answered, UnderWay
    <2> HIDE DEF p
    <2>5. Keeps(j)
      BY <1>0, <2>1, <2>3, <2>4, ContinuedSettles
    <2> HIDE DEF Keeps
    <2> QED
      BY <1>b, <1>c, <2>2, <2>5
  <1>3. CASE GoOnline
    <2>0. route' = route
      BY <1>3 DEF GoOnline
    <2>1. ASSUME NEW k \in Keys PROVE Keeps(k)
      <3>1. CASE k \in Enabled(queries) /\ queries[k].fetch = "idle" /\ queries[k].stale
        <4>1. queries'[k] = Fetching(queries[k], DefaultBranch(queries), TRUE)
          BY <1>3, <3>1 DEF GoOnline
        <4>2. queries[k] \in Query /\ queries[k].stale
          BY <1>0, <3>1
        <4> DEFINE f == Fetching(queries[k], DefaultBranch(queries), TRUE)
        <4>3. Answered(f) /\ UnderWay(f) /\ f.data = queries[k].data
          BY <4>2, FetchingSettles
        <4> HIDE DEF f
        <4> QED
          BY <4>1, <4>3 DEF f
      <3>2. CASE ~(k \in Enabled(queries) /\ queries[k].fetch = "idle" /\ queries[k].stale)
        <4>1. queries'[k] = Woken(queries[k], visible)
          BY <1>3, <3>2 DEF GoOnline
        <4> QED
          BY <1>0, <4>1, WokenSettles DEF FlagsOK
      <3> QED
        BY <3>1, <3>2
    <2> HIDE DEF Keeps
    <2> QED
      BY <1>b, <2>0, <2>1
  <1>4. CASE Show
    <2>0. route' = route
      BY <1>4 DEF Show
    <2>1. ASSUME NEW k \in Keys PROVE Keeps(k)
      <3>1. queries'[k] = Woken(queries[k], online)
        BY <1>4 DEF Show
      <3> QED
        BY <1>0, <3>1, WokenSettles DEF FlagsOK
    <2> HIDE DEF Keeps
    <2> QED
      BY <1>b, <2>0, <2>1
  <1>5. CASE GoOffline \/ Hide \/ UNCHANGED vars
    <2>1. queries' = queries /\ route' = route
      BY <1>5 DEF GoOffline, Hide, vars
    <2> HIDE DEF Keeps
    <2> QED
      BY <1>a, <1>b, <2>1
  <1>6. ASSUME NEW j \in Keys, Age(j) PROVE PendingIsUnderWay'
    <2> DEFINE a == [queries[j] EXCEPT !.stale = TRUE]
    <2>1. /\ queries'[j] = a /\ route' = route
          /\ \A i \in Keys \ {j} : queries'[i] = queries[i]
      BY <1>0, <1>6 DEF Age
    <2>2. /\ a.fetch = queries[j].fetch /\ a.status = queries[j].status
          /\ a.stale = TRUE /\ a.data = queries[j].data
      BY <1>0 DEF Query
    <2> HIDE DEF a
    <2>3. Keeps(j)
      BY <2>1, <2>2 DEF Answered, UnderWay
    <2> HIDE DEF Keeps
    <2> QED
      BY <1>b, <1>c, <2>1, <2>3
  <1>7. ASSUME NEW j \in Keys, Collect(j) PROVE PendingIsUnderWay'
    <2>1. /\ queries'[j] = Unfetched /\ route' = route /\ j \notin Enabled(queries)
          /\ \A i \in Keys \ {j} : queries'[i] = queries[i]
      BY <1>0, <1>7 DEF Collect
    <2>2. Keeps(j)
      BY <2>1 DEF Answered, Unfetched
    <2> HIDE DEF Keeps
    <2> QED
      BY <1>b, <1>c, <2>1, <2>2
  <1> QED
    BY <1>1, <1>2, <1>3, <1>4, <1>5, <1>6, <1>7 DEF Next, Browser

(* The loading page is never shown with nothing on its way: the            *)
(* repository, or the tree of its default branch, is being fetched, waits  *)
(* for a retry or for the browser, or else the repository query has        *)
(* failed, which is the page RouteFailure shows to stay.                   *)
THEOREM LoadingWaitsForSomething == Spec => []LoadingIsUnderWay
  <1>1. IInv /\ PendingIsUnderWay => LoadingIsUnderWay
    <2> SUFFICES ASSUME IInv, PendingIsUnderWay, View = "loading",
                        queries[RepositoryKey].error = None,
                        queries[RepositoryKey].fetch = "idle"
                 PROVE  DefaultBranch(queries) # None /\ TreeOf(queries).fetch # "idle"
      BY DEF LoadingIsUnderWay
    <2>1. route /\ IsPending
      BY DEF View
    <2>2. Good(RepositoryKey, queries[RepositoryKey]) /\ RepositoryKey \in Enabled(queries)
      BY <2>1, KeyFacts DEF IInv, Enabled
    <2>3. queries[RepositoryKey].status = "success"
      BY <2>2 DEF PendingIsUnderWay, UnderWay, Good, ResultOK, Query
    <2>4. DefaultBranch(queries) # None
      BY <2>2, <2>3 DEF Good, ResultOK, DefaultBranch
    <2>5. TreeOf(queries).status = "pending"
      BY <2>1, <2>3 DEF IsPending
    <2>6. TreeKey(DefaultBranch(queries)) \in Enabled(queries)
      BY <2>1, <2>4 DEF Enabled
    <2> QED
      BY <2>4, <2>5, <2>6 DEF PendingIsUnderWay, UnderWay, TreeOf
  <1>2. IInv /\ PendingIsUnderWay /\ [Next]_vars => PendingIsUnderWay'
    BY NextPendingIsUnderWay
  <1> QED
    BY <1>1, <1>2, InitPendingIsUnderWay, InductiveInvariant, PTL DEF Spec
=============================================================================
