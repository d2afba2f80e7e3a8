---------------------------- MODULE CredentialBroker ----------------------------
(***************************************************************************)
(* One viewer's GitHub credentials: the pair of an access token and a      *)
(* refresh token in provider_identities, the broker that rotates it before *)
(* a read (apps/api/hubgit_api/github_provider.py), and the authorization  *)
(* callback that replaces it (provider_auth_routes.py).                    *)
(*                                                                         *)
(* GitHub is modelled from how the code uses it: a refresh token is good   *)
(* for one use, which ends both tokens of its pair, and the pair that      *)
(* replaces it is known only to whoever receives the answer.  The broker   *)
(* reads the row, waits for GitHub and only then takes the write lock of   *)
(* the database, as Collaboration describes it.                            *)
(***************************************************************************)
EXTENDS Integers

CONSTANTS Readers,    \* repository reads of the viewer, each handled at most once
          Callbacks,  \* completed authorizations of the same GitHub account
          Outages,    \* whether GitHub may fail to answer, a BOOLEAN
          Crowds,     \* bound: the sets of requests that come in one behaviour
          None        \* no request, no answer

Requests == Readers \cup Callbacks

ASSUME RequestsAssumption == Readers \cap Callbacks = {} /\ None \notin Requests
ASSUME OutagesAssumption == Outages \in BOOLEAN

Steps == {"idle", "refresh", "policy", "write", "commit", "get", "done", "lost"}
Answers == {"ok", "provider.authorization_required", "provider.unavailable",
            "signed_in", "refused", "server.internal_error"}

ASSUME NoneAssumption == None \notin Answers

VARIABLES
  issued,    \* GitHub: how many pairs it has issued; pair n is the n-th
  replaced,  \* GitHub: the pair that each one replaced, 0 after an authorization
  live,      \* GitHub: the pairs it accepts
  due,       \* the pairs whose access token expires within the minute
  expired,   \* the pairs whose access token has expired
  ended,     \* the pairs whose refresh token has expired too
  outlived,  \* the reads that had an access token when it expired
  revoked,   \* the pairs the viewer revoked at GitHub
  forgone,   \* the pairs whose answer, or whose transaction, did not survive
  stored,    \* the pair in provider_identities, 0 while there is no row
  writer,    \* the request that holds the write lock, or None
  step,      \* the await each request has reached
  loaded,    \* the pair it read from the row, 0 for no row
  held,      \* the pair whose access token it uses, or is about to store
  answer     \* what its client was answered

github == <<issued, replaced, live>>
clock == <<due, expired, ended, outlived>>
row == <<stored, writer>>
vars == <<issued, replaced, live, due, expired, ended, outlived, revoked, forgone, stored,
          writer, step, loaded, held, answer>>

Pairs == 1 .. issued

InFlight(r) == step[r] \notin {"idle", "done", "lost"}

Goto(r, s) == step' = [step EXCEPT ![r] = s] /\ UNCHANGED answer
Reply(r, a) == step' = [step EXCEPT ![r] = "done"] /\ answer' = [answer EXCEPT ![r] = a]
-----------------------------------------------------------------------------
(* The viewer has never signed in, or has one pair.  The requests outside  *)
(* the crowd never come.                                                   *)
Init ==
  \E first \in {0, 1} :
    /\ issued = first /\ stored = first
    /\ live = 1 .. first
    /\ replaced = [n \in 1 .. first |-> 0]
    /\ due = {} /\ expired = {} /\ ended = {} /\ outlived = {}
    /\ revoked = {} /\ forgone = {}
    /\ writer = None
    /\ \E crowd \in Crowds :
         step = [r \in Requests |-> IF r \in crowd THEN "idle" ELSE "lost"]
    /\ loaded = [r \in Requests |-> 0]
    /\ held = [r \in Requests |-> 0]
    /\ answer = [r \in Requests |-> None]

(* GitHub issues pair issued + 1 in place of "old", 0 for a new one.       *)
Issue(old) ==
  /\ issued' = issued + 1
  /\ replaced' = [n \in 1 .. issued + 1 |-> IF n = issued + 1 THEN old ELSE replaced[n]]
  /\ live' = (live \ {old}) \cup {issued + 1}

Accepted(pair) == pair \in live \ ended

NeverNear(pair) == FALSE          \* mutation: the expiry is not looked at
NearExpiry(pair) == pair \in due

(* access_token: SELECT the identity.  A token that is good for more than  *)
(* a minute is used as it is, another one is refreshed first, unless its   *)
(* refresh token has expired too.                                          *)
Read(r) ==
  /\ step[r] = "idle"
  /\ r \in Readers
  /\ stored # 0
  /\ loaded' = [loaded EXCEPT ![r] = stored]
  /\ IF ~NearExpiry(stored)
     THEN Goto(r, "get") /\ held' = [held EXCEPT ![r] = stored]
     ELSE /\ UNCHANGED held
          /\ IF stored \in ended THEN Reply(r, "provider.authorization_required")
             ELSE Goto(r, "refresh")
  /\ UNCHANGED <<github, clock, row, revoked, forgone>>

(* The error of a refresh is one answer, whatever its cause.               *)
RefreshFailed(r) == Reply(r, "provider.authorization_required") /\ UNCHANGED held

(* refresh_credentials: GitHub rotates the pair and answers, or rotates it *)
(* and the answer is lost, or refuses it, or is not reached.               *)
Refresh(r) ==
  /\ step[r] = "refresh"
  /\ \/ /\ Accepted(loaded[r])
        /\ Issue(loaded[r])
        /\ held' = [held EXCEPT ![r] = issued + 1]
        /\ Goto(r, "write")
        /\ UNCHANGED forgone
     \/ /\ Accepted(loaded[r])
        /\ Outages
        /\ Issue(loaded[r])
        /\ forgone' = forgone \cup {issued + 1}
        /\ RefreshFailed(r)
     \/ /\ Outages \/ ~Accepted(loaded[r])
        /\ RefreshFailed(r)
        /\ UNCHANGED <<github, forgone>>
  /\ UNCHANGED <<clock, row, revoked, loaded>>

(* The callback exchanges its code: GitHub issues a pair of its own, or    *)
(* rejects the code, or the answer is lost.                                *)
Exchange(r) ==
  /\ step[r] = "idle"
  /\ r \in Callbacks
  /\ \/ Issue(0) /\ held' = [held EXCEPT ![r] = issued + 1] /\ Goto(r, "policy")
     \/ Outages /\ Issue(0) /\ Reply(r, "refused") /\ UNCHANGED held
     \/ Reply(r, "refused") /\ UNCHANGED <<github, held>>
  /\ UNCHANGED <<clock, row, revoked, forgone, loaded>>

(* The identity lookup and the access policy, which ask GitHub too and may *)
(* refuse the account, and then the SELECT of the identity.                *)
Authorize(r) ==
  /\ step[r] = "policy"
  /\ \/ Reply(r, "refused") /\ UNCHANGED loaded
     \/ Goto(r, "write") /\ loaded' = [loaded EXCEPT ![r] = stored]
  /\ UNCHANGED <<github, clock, row, revoked, forgone, held>>

(* What a reader that ends here takes with it: the pair it was to store.   *)
Forgo(r) == forgone' = IF r \in Readers THEN forgone \cup {held[r]} ELSE forgone

NeverConflicts(r) == FALSE        \* mutation: the constraints are dropped

(* The UNIQUE constraints on the identity and the login of a new user.     *)
Conflicts(r) == r \in Callbacks /\ loaded[r] = 0 /\ stored # 0

(* Mutation: the UNIQUE violation leaves the transaction open.             *)
WriteKeepingLock(r) ==
  /\ step[r] = "write"
  /\ writer = None
  /\ writer' = r
  /\ IF Conflicts(r) THEN Reply(r, "server.internal_error") ELSE Goto(r, "commit")
  /\ UNCHANGED <<github, clock, revoked, forgone, stored, loaded, held>>

(* The first INSERT or UPDATE takes the write lock.                        *)
Write(r) ==
  /\ step[r] = "write"
  /\ writer = None
  /\ IF Conflicts(r) THEN Reply(r, "server.internal_error") /\ UNCHANGED writer
     ELSE Goto(r, "commit") /\ writer' = r
  /\ UNCHANGED <<github, clock, revoked, forgone, stored, loaded, held>>

BusyTimeout(r) ==
  /\ step[r] = "write"
  /\ writer # None
  /\ Reply(r, "server.internal_error")
  /\ Forgo(r)
  /\ UNCHANGED <<github, clock, row, revoked, loaded, held>>

(* Mutation: the refreshed pair is used and not committed.                 *)
CommitForgetting(r) ==
  /\ step[r] = "commit"
  /\ writer' = None
  /\ IF r \in Readers THEN Goto(r, "get") /\ UNCHANGED stored
     ELSE Reply(r, "signed_in") /\ stored' = held[r]
  /\ UNCHANGED <<github, clock, revoked, forgone, loaded, held>>

(* Mutation: the broker writes back the pair it decrypted.                 *)
CommitLoaded(r) ==
  /\ step[r] = "commit"
  /\ writer' = None
  /\ IF r \in Readers THEN Goto(r, "get") /\ stored' = loaded[r]
     ELSE Reply(r, "signed_in") /\ stored' = held[r]
  /\ UNCHANGED <<github, clock, revoked, forgone, loaded, held>>

(* COMMIT of the row, whatever pair it has by now: the broker goes on to   *)
(* its read, the callback signs the viewer in.                             *)
Commit(r) ==
  /\ step[r] = "commit"
  /\ writer' = None
  /\ stored' = held[r]
  /\ IF r \in Readers THEN Goto(r, "get") ELSE Reply(r, "signed_in")
  /\ UNCHANGED <<github, clock, revoked, forgone, loaded, held>>

(* GitHubRepositoryProvider._get with the access token: one request or     *)
(* several, of which this is the last.                                     *)
Get(r) ==
  /\ step[r] = "get"
  /\ \/ held[r] \in live \ expired /\ Reply(r, "ok")
     \/ held[r] \notin live \ expired /\ Reply(r, "provider.authorization_required")
     \/ Outages /\ Reply(r, "provider.unavailable")
  /\ UNCHANGED <<github, clock, row, revoked, forgone, loaded, held>>
-----------------------------------------------------------------------------
(* The pairs whose age something will look at: a read that is still to     *)
(* come, GitHub when it is asked to rotate one, or when it is shown one.   *)
InUse ==
  {stored : r \in {q \in Readers : step[q] = "idle"}}
    \cup {loaded[r] : r \in {q \in Readers : step[q] = "refresh"}}
    \cup {held[r] : r \in {q \in Readers : step[q] = "get"}}

(* Time passes: the access token of a pair comes within a minute of its    *)
(* expiry, expires, and months later the refresh token expires.  Nothing   *)
(* keeps a token from expiring under the read that uses it: list_          *)
(* repositories sends up to ten requests, whose timeout of 20 seconds is   *)
(* for each wait and not for the whole, after one look at the expiry.      *)
ComeDue ==
  /\ \E n \in (Pairs \cap InUse) \ due : due' = due \cup {n}
  /\ UNCHANGED <<github, expired, ended, outlived, row, revoked, forgone,
                 step, loaded, held, answer>>

Expire ==
  /\ \E n \in (due \cap InUse) \ expired :
       /\ expired' = expired \cup {n}
       /\ outlived' = outlived \cup {r \in Readers : InFlight(r) /\ held[r] = n}
  /\ UNCHANGED <<github, due, ended, row, revoked, forgone, step, loaded, held, answer>>

End ==
  /\ \E n \in (expired \cap InUse) \ ended : ended' = ended \cup {n}
  /\ UNCHANGED <<github, due, expired, outlived, row, revoked, forgone,
                 step, loaded, held, answer>>

(* The viewer revokes the authorization at GitHub.                         *)
Revoke ==
  /\ live # {}
  /\ live' = {}
  /\ revoked' = revoked \cup live
  /\ UNCHANGED <<issued, replaced, clock, row, forgone, step, loaded, held, answer>>

Holds(r) == r \in Readers /\ step[r] \in {"write", "commit"}

(* The process stops and starts again: the open transaction is rolled      *)
(* back, and the pairs that were on their way to the row are gone.         *)
Restart ==
  /\ \E r \in Requests : InFlight(r)
  /\ step' = [r \in Requests |-> IF InFlight(r) THEN "lost" ELSE step[r]]
  /\ writer' = None
  /\ forgone' = forgone \cup {held[r] : r \in {q \in Requests : Holds(q)}}
  /\ UNCHANGED <<github, clock, revoked, stored, loaded, held, answer>>

Handle(r) ==
  \/ Refresh(r)
  \/ Authorize(r)
  \/ Write(r)
  \/ BusyTimeout(r)
  \/ Commit(r)
  \/ Get(r)

Environment == ComeDue \/ Expire \/ End \/ Revoke \/ Restart

Next ==
  \/ Environment
  \/ \E r \in Requests : Read(r) \/ Exchange(r) \/ Handle(r)

Spec == Init /\ [][Next]_vars

(* Every await ends: the HTTP client and SQLite time out.                  *)
FairSpec == Spec /\ \A r \in Requests : WF_vars(Handle(r))
-----------------------------------------------------------------------------
(* Every variable keeps its type, and the write lock is held by the        *)
(* request between its first write and its commit.                         *)
TypeOK ==
  /\ issued \in Nat
  /\ replaced \in [Pairs -> Nat]
  /\ live \subseteq Pairs /\ due \subseteq Pairs
  /\ expired \subseteq Pairs /\ ended \subseteq Pairs /\ outlived \subseteq Readers
  /\ revoked \subseteq Pairs /\ forgone \subseteq Pairs
  /\ stored \in 0 .. issued
  /\ writer \in Requests \cup {None}
  /\ step \in [Requests -> Steps]
  /\ loaded \in [Requests -> 0 .. issued]
  /\ held \in [Requests -> 0 .. issued]
  /\ answer \in [Requests -> Answers \cup {None}]
  /\ \A r \in Requests : step[r] = "commit" <=> writer = r

(* GitHub rotated the pair n away, and a request is about to store the     *)
(* pair that replaced it.                                                  *)
SuccessorHeld(n) == \E r \in Requests : Holds(r) /\ replaced[held[r]] = n
SuccessorForgone(n) == \E m \in forgone : replaced[m] = n

(* However many reads rotate the pair at once, and whatever sign-ins store *)
(* pairs of their own meanwhile, the row never ends up with a pair that    *)
(* GitHub rotated away: it has a pair GitHub accepts, or its successor is  *)
(* about to be stored, or was lost in a failure, or the viewer revoked it. *)
StoredIsUsable ==
  stored # 0 =>
    \/ stored \in live \cup revoked
    \/ SuccessorHeld(stored)
    \/ SuccessorForgone(stored)

(* The UPDATE has no condition on the row it replaces; still, what it      *)
(* stores is never a pair that has been rotated away already, not even     *)
(* when another request stored a newer one between its read and its write. *)
RotatedIsNotStored ==
  [][stored' # stored => \A n \in Pairs : replaced[n] # stored']_vars

(* Two first sign-ins of one account may both find no identity.  One row   *)
(* is inserted, by the first of them to commit, and the other one fails.   *)
OneIdentity ==
  [][\A r \in Callbacks :
       step[r] = "commit" /\ step'[r] = "done" /\ loaded[r] = 0 => stored = 0]_vars

AsksToSignIn(r) ==
  answer[r] = None /\ answer'[r] = "provider.authorization_required"

(* What no broker could help: the refresh token expired, the viewer        *)
(* revoked the authorization, or a failure swallowed the new pair.         *)
Unusable == stored \in ended \cup revoked \/ SuccessorForgone(stored)

(* apps/api/README.md: expired user tokens rotate before a provider read.  *)
(* Unless its token expired under the read itself, the viewer is asked to  *)
(* sign in again only when the authorization in the row has come to its    *)
(* end.                                                                    *)
ValidAuthorizationIsUsed ==
  [][\A r \in Readers : AsksToSignIn(r) => Unusable' \/ r \in outlived]_vars

(* The pair a read presents to GitHub.                                     *)
Presented(r) == IF step[r] = "get" THEN held[r] ELSE loaded[r]

(* Another request has replaced the pair, or has the one that does.        *)
Overtaken(n) == stored # n \/ SuccessorHeld(n)

(* GitHub would have accepted the refresh, and was not reached.            *)
NotReached(r) == Outages /\ step[r] = "refresh" /\ Accepted(loaded[r])

(* The only other reasons to ask are a race with a request of the same     *)
(* viewer that replaced the pair under the read, an outage during its      *)
(* refresh, and a token that expired under a read that had found it good:  *)
(* no token that was near its expiry when the read looked, and no sequence *)
(* of reads and sign-ins that do not overlap, costs the viewer the         *)
(* authorization.                                                          *)
SignInHasAReason ==
  [][\A r \in Readers :
       AsksToSignIn(r) =>
         \/ Unusable'
         \/ Overtaken(Presented(r))
         \/ NotReached(r)
         \/ r \in outlived]_vars

(* A refresh that reached the broker reaches the row too, unless a failure *)
(* ends the request that had it: nothing else keeps the row as it was.     *)
RotationsAreStored ==
  \A r \in Requests : Holds(r) ~> stored = held[r] \/ held[r] \in forgone
=============================================================================
