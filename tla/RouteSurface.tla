------------------------------ MODULE RouteSurface ------------------------------
(***************************************************************************)
(* What a document of the web application shows for its route              *)
(* (apps/web/app/route-surface.tsx): the repository query, the tree query  *)
(* that depends on it, and the policy of apps/web/app/providers.tsx for    *)
(* retries and for the age of what was fetched.                            *)
(*                                                                         *)
(* Every link of the application loads a new document, so a document has   *)
(* one route and starts with an empty cache.  The query library            *)
(* (TanStack Query 5) is modelled from how the two queries use it: a query *)
(* is fetched when it becomes enabled and has nothing fresh, and again     *)
(* when the browser comes back online and what it has is stale; it keeps   *)
(* its data through a failure; a fetch, or a retry, waits while the        *)
(* browser is offline, a retry also while the document is hidden.          *)
(***************************************************************************)
EXTENDS Integers

CONSTANTS Branches,            \* what a repository's default branch may be
          RepositoryFailures,  \* how the API may fail on the repository
          TreeFailures,        \* how the API may fail on a tree
          None                 \* no data, no error

(* 404; 401, 403 or 422; everything else, an unreachable API included.     *)
Failures == {"missing", "refused", "failed"}

ASSUME FailuresAssumption ==
  RepositoryFailures \subseteq Failures /\ TreeFailures \subseteq Failures
ASSUME NoneAssumption == None \notin Branches \cup Failures

Repository == "repository"

KeyWithoutBranch(branch) == <<"tree", None>>   \* mutation: one key for every branch
TreeKey(branch) == <<"tree", branch>>

Keys == {<<Repository, None>>} \cup {<<"tree", b>> : b \in Branches \cup {None}}
RepositoryKey == <<Repository, None>>

VARIABLES
  route,    \* whether the route of the document is a repository's
  ready,    \* whether the bootstrap has the metadata of the instance
  online,   \* whether the browser is online
  visible,  \* whether the document is visible
  queries   \* the query cache, by key

vars == <<route, ready, online, visible, queries>>

(* status, data and error are the result; "asked" is the branch a fetch    *)
(* was made for; "cancelled" forbids further retries of a fetch nobody     *)
(* observes.                                                               *)
Query ==
  [status : {"pending", "error", "success"},
   data : Branches \cup {None},
   error : Failures \cup {None},
   fetch : {"idle", "fetching", "waiting", "paused"},
   asked : Branches \cup {None},
   failures : 0 .. 2,
   cancelled : BOOLEAN,
   stale : BOOLEAN]

Unfetched ==
  [status |-> "pending", data |-> None, error |-> None, fetch |-> "idle",
   asked |-> None, failures |-> 0, cancelled |-> FALSE, stale |-> TRUE]

DefaultBranch(q) == q[RepositoryKey].data

(* Mutation: the default branch does not enable the tree query.            *)
RepositoryOnly(q) == IF route THEN {RepositoryKey} ELSE {}

(* The keys a document observes: the tree query is enabled by the default  *)
(* branch in the repository's data.                                        *)
Enabled(q) ==
  IF ~route THEN {}
  ELSE {RepositoryKey} \cup IF DefaultBranch(q) = None THEN {}
                            ELSE {TreeKey(DefaultBranch(q))}

TreeOf(q) == q[TreeKey(DefaultBranch(q))]

(* A fetch of a query that has no data forgets the error before it.        *)
Fetching(query, branch, connected) ==
  [query EXCEPT !.fetch = IF connected THEN "fetching" ELSE "paused",
                !.asked = branch,
                !.failures = 0,
                !.cancelled = FALSE,
                !.status = IF query.data = None THEN "pending" ELSE @,
                !.error = IF query.data = None THEN None ELSE @]

(* A key that begins to be observed.                                       *)
Observed(query, branch) ==
  IF query.fetch # "idle" THEN [query EXCEPT !.cancelled = FALSE]
  ELSE IF query.stale THEN Fetching(query, branch, online)
  ELSE query

(* The render after an answer: what it enables is fetched, what it does    *)
(* not observe any more is not retried.                                    *)
Rendered(q) ==
  [k \in Keys |->
     IF k \in Enabled(q) \ Enabled(queries) THEN Observed(q[k], DefaultBranch(q))
     ELSE IF k \in Enabled(q) THEN q[k]
     ELSE [q[k] EXCEPT !.cancelled = q[k].fetch # "idle"]]

RetryForever(failures, error) == error = "failed"   \* mutation: no limit

(* retry: a request that was answered 401, 403, 404 or 422 is not repeated *)
(* and any other one is made three times.                                  *)
Retry(failures, error) == error = "failed" /\ failures < 2
-----------------------------------------------------------------------------
(* A document has been loaded: its bootstrap has the metadata or does not, *)
(* and the query of its repository, if it has one, is on its way.          *)
Init ==
  /\ route \in BOOLEAN /\ ready \in BOOLEAN
  /\ online = TRUE /\ visible = TRUE
  /\ queries = [k \in Keys |-> IF route /\ k = RepositoryKey
                               THEN Fetching(Unfetched, None, TRUE) ELSE Unfetched]

Succeeded(query, branch) ==
  [query EXCEPT !.status = "success", !.data = branch, !.error = None,
                !.fetch = "idle", !.failures = 0, !.stale = FALSE]

Failed(query, error) ==
  [query EXCEPT !.status = "error", !.error = error,
                !.fetch = "idle", !.failures = 0, !.stale = TRUE]

(* The failures are counted up to three, one more than Retry lets happen.  *)
Waiting(query) ==
  [query EXCEPT !.fetch = "waiting", !.failures = IF @ < 3 THEN @ + 1 ELSE @]

(* hubgitApi.repository and hubgitApi.tree: the answer to a request, with  *)
(* the repository's present default branch or with the tree of a branch.   *)
AnswersOf(k) == IF k = RepositoryKey THEN Branches ELSE {queries[k].asked}
FailuresOf(k) == IF k = RepositoryKey THEN RepositoryFailures ELSE TreeFailures

Answer(k) ==
  /\ queries[k].fetch = "fetching"
  /\ \/ \E b \in AnswersOf(k) :
          queries' = Rendered([queries EXCEPT ![k] = Succeeded(@, b)])
     \/ \E f \in FailuresOf(k) :
          queries' = [queries EXCEPT ![k] = IF ~@.cancelled /\ Retry(@.failures, f)
                                            THEN Waiting(@) ELSE Failed(@, f)]
  /\ UNCHANGED <<route, ready, online, visible>>

(* What was paused, or has waited, goes on unless nobody wants it any more.*)
Continued(query) ==
  IF query.cancelled /\ query.failures > 0 THEN Failed(query, "failed")
  ELSE [query EXCEPT !.fetch = "fetching"]

(* The delay before a retry is over.                                       *)
Resume(k) ==
  /\ queries[k].fetch = "waiting"
  /\ queries' = [queries EXCEPT ![k] = IF online /\ visible THEN Continued(@)
                                       ELSE [@ EXCEPT !.fetch = "paused"]]
  /\ UNCHANGED <<route, ready, online, visible>>

Woken(query, awake) == IF query.fetch = "paused" /\ awake THEN Continued(query) ELSE query

(* refetchOnReconnect: what is observed and stale is fetched again.        *)
GoOnline ==
  /\ ~online
  /\ online' = TRUE
  /\ queries' = [k \in Keys |->
       IF k \in Enabled(queries) /\ queries[k].fetch = "idle" /\ queries[k].stale
       THEN Fetching(queries[k], DefaultBranch(queries), TRUE)
       ELSE Woken(queries[k], visible)]
  /\ UNCHANGED <<route, ready, visible>>

GoOffline == online /\ online' = FALSE /\ UNCHANGED <<route, ready, visible, queries>>

(* refetchOnWindowFocus is off: only what was paused goes on.              *)
Show ==
  /\ ~visible
  /\ visible' = TRUE
  /\ queries' = [k \in Keys |-> Woken(queries[k], online)]
  /\ UNCHANGED <<route, ready, online>>

Hide == visible /\ visible' = FALSE /\ UNCHANGED <<route, ready, online, queries>>

(* staleTime: fifteen seconds after an answer its data is stale.           *)
Age(k) ==
  /\ ~queries[k].stale
  /\ queries' = [queries EXCEPT ![k].stale = TRUE]
  /\ UNCHANGED <<route, ready, online, visible>>

(* A query that nobody has observed for five minutes leaves the cache.     *)
Collect(k) ==
  /\ k \notin Enabled(queries)
  /\ queries[k].fetch = "idle" /\ queries[k] # Unfetched
  /\ queries' = [queries EXCEPT ![k] = Unfetched]
  /\ UNCHANGED <<route, ready, online, visible>>

Browser == GoOnline \/ GoOffline \/ Show \/ Hide

Next ==
  \/ Browser
  \/ \E k \in Keys : Answer(k) \/ Resume(k) \/ Age(k) \/ Collect(k)

Spec == Init /\ [][Next]_vars

(* A request is answered or fails, and the delay before a retry ends.      *)
FairSpec == Spec /\ \A k \in Keys : WF_vars(Answer(k)) /\ WF_vars(Resume(k))
-----------------------------------------------------------------------------
(* Mutation: the loading page is shown during every fetch.                 *)
IsFetching == queries[RepositoryKey].fetch # "idle" \/ TreeOf(queries).fetch # "idle"

(* The page that RouteSurface renders.                                     *)
IsPending == queries[RepositoryKey].status = "pending" \/ TreeOf(queries).status = "pending"
HasError == queries[RepositoryKey].error # None \/ TreeOf(queries).error # None

View ==
  CASE ~ready -> "unavailable"
    [] ready /\ route /\ IsPending -> "loading"
    [] ready /\ route /\ ~IsPending /\ HasError ->
         IF queries[RepositoryKey].error = "missing" THEN "not_found" ELSE "error"
    [] OTHER -> "app"

TypeOK ==
  /\ route \in BOOLEAN /\ ready \in BOOLEAN
  /\ online \in BOOLEAN /\ visible \in BOOLEAN
  /\ queries \in [Keys -> Query]

(* The repository page shows the tree of the branch that the repository    *)
(* shown beside it has as its default, also when a refetch of the          *)
(* repository finds another default branch while trees of the old one are  *)
(* in the cache or on their way.                                           *)
TreeIsOfDefaultBranch ==
  View = "app" /\ route => TreeOf(queries).data = DefaultBranch(queries)

(* A page that has been shown does not turn back into the loading page,    *)
(* whatever is refetched behind it, unless the default branch changes.     *)
ShownStaysShown ==
  [][View = "app" /\ View' = "loading" =>
       DefaultBranch(queries)' # DefaultBranch(queries)]_vars

(* However the API fails, no query is asked for ever, and one that paused  *)
(* while the browser was offline or hidden goes on once it is back: if it  *)
(* stays online and visible, every request comes to its end for good.      *)
RequestsEnd ==
  <>[](online /\ visible) => <>[](\A k \in Keys : queries[k].fetch = "idle")

(* docs/route-state-fidelity-matrix.md, "5xx/provider unavailable": a      *)
(* failure is shown with a way to try again.  The loading page gives way   *)
(* to the repository or to an error.                                       *)
LoadingEnds == <>[](online /\ visible) => (View = "loading" ~> View # "loading")

(* However trees fail, and whatever default branches the repository has in *)
(* turn, the loading page gives way to another one, unless the repository  *)
(* itself could not be fetched.                                            *)
LoadingEndsWithRepository ==
  <>[](online /\ visible) =>
    (View = "loading" ~> View # "loading" \/ queries[RepositoryKey].error # None)
=============================================================================
