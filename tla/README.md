# A TLA+ model of HubGit

HubGit is a provider-neutral Git collaboration frontend: a FastAPI service over SQLite
(`apps/api`), a React Router web application (`apps/web`) and a generated contract package
(`packages/contracts`). This directory specifies the behaviour of that code in TLA+,
checks it on small instances with TLC and proves the central properties with TLAPS.

    tlc -config CollabConcurrent.cfg MCCollaboration.tla
    tlapm CollaborationProofs.tla

Section 1 is the inventory, 2 the plan; 3 to 8 describe the components that are specified, 9 what
each run shows, 10 the fairness, 11 the theorems, 12 where the code and its documents disagree,
13 what else the models brought to light, 14 what is left out.

## 1. Inventory

| Component | State it keeps | Operations | Talks to |
|---|---|---|---|
| Collaboration (`collaboration.py`) | `collaboration_items` (one row per issue, comment, pull request, review; a JSON document and a version), `idempotency_records` | create issue / pull / comment / review, edit issue / pull, merge, lists and reads | SQLite, repository provider (permissions), sessions (CSRF) |
| Sessions and login (`security.py`, `main.py`) | `sessions` (token hash, CSRF token, expiry), the browser's cookie | login with rotation, logout, lookup that deletes what is expired, CSRF and origin checks | SQLite, every handler |
| Provider authorization (`provider_auth_routes.py`) | `oauth_states`, `users`, `provider_identities`, `sessions` | start, callback | GitHub token and user API, access policy |
| Access policy (`github_auth.py`) | none | evaluate rules, encrypt credentials, GitHub auth calls | GitHub |
| Credential broker (`github_provider.py`) | encrypted credentials and expiries of an identity | `access_token`: read, refresh with a rotating refresh token, store | SQLite, GitHub |
| GitHub reads (`github_provider.py`) | none | list, detail, tree walk; mapping of failures | broker, GitHub |
| Mock provider (`providers.py`) | fixtures | list, detail, tree; visibility | handlers |
| Discovery (`discovery.py`) | `notifications` | dashboard, notifications, search | provider, SQLite |
| Request size limit (`main.py`) | bytes received per request | count chunks, reject, replay once | ASGI server |
| Pagination (`main.py`, `collaboration.py`) | none: the offset is in the cursor | `_cursor`, `_offset`, `_page` | every list |
| Database (`database.py`) | connection pool, one SQLite file | one session per request, `create_all` | everything |
| Migrations (`migrate.py`, `migrations/`) | `alembic_version`, tables | stamp a baseline, upgrade | SQLite |
| Startup (`main.py`, `cli.py`) | seeded user and items | migrate, `create_all`, seed | SQLite |
| Configuration (`config.py`) | environment | validation | startup |
| Web bootstrap (`bootstrap.ts`, `root.tsx`) | the loader's result | four probes in parallel | API |
| Web data (`route-surface.tsx`, `providers.tsx`, `api-client.ts`) | query cache | repository query, tree query that depends on it, retries | API |
| Web shell (`hubgit-app.tsx`) | the document's path, branding and colours; the sign-in form | the views and their links, sign-in, the switches | bootstrap, Web data, sessions, provider authorization |
| Web UI components (`components/ui`) | none of the system's | widgets | the web shell |
| Contract client (`packages/contracts/src/generated-client.ts`) | none: a request from its URL to its data | the operations of the contract, `request` | any server of the contract |
| Contract build and fixtures (`packages/*`) | generated files, example data | generate, validate | build |
| Web server (`apps/web` server) | none | proxy, static files | API, browser |

### What is hard in this code

- Every request is a coroutine with a database session of its own, and yields at every
  `await`. SQLite, through aiosqlite in its default transaction mode, gives each `SELECT` before
  the first write a snapshot of its own; the first `INSERT` or `UPDATE` takes the only write
  lock of the file until `COMMIT` or `ROLLBACK`, and whoever waits longer than the busy timeout
  gets an error, a 500 to its client.
- A handler reads, decides and only then writes. What it read may be stale when it writes, and an
  `UPDATE` writes the whole JSON document and the version computed from the row that was loaded,
  for the row's id, whatever version the row has by then.
- UNIQUE constraints are the only thing that orders two requests that looked at the same state.
- The process may stop between any two awaits. What was not committed is gone; what was
  committed may not have been answered, so the client asks again.
- Provider calls are remote, may fail, and have effects that cannot be taken back: an authorization
  code and a refresh token are good for one use.
- Sessions and credentials expire while they are being used.
- A document of the web application outlives neither its links nor its form's last step, but its
  requests outlive it; cookies arrive in the order of the answers, not of the questions.

### What makes each component correct

- Collaboration: numbers of a kind are dense; an item and the record of the command that
  created it exist together; every success told to a client is what the record says; the count
  of comments follows the comments; a stale If-Match is not applied; a merge is not undone.
- Sessions: a request is handled for a session that exists and has not expired; a session that was
  logged out or rotated away does not come back; a login leaves exactly one new session.
- Provider authorization: one account per provider identity; an account is stored with its
  identity and its session or not at all; nothing is stored for a denied account.
- Credential broker: concurrent refreshes do not lose the newest credentials; a viewer whose
  authorization is valid gets a token.
- Size limit: an application sees a body of at most the limit, once, or none.
- Pagination: following the cursors of an unchanging list visits each item once.
- Migrations: every starting schema reaches the head; Startup: seeding is done once.
- Web data: a route never shows data of another route; it leaves the loading state when its queries
  settle.
- Web shell: a link leads to a page that is drawn, and from a repository to pages of the same one;
  a password goes only where passwords are taken; who is sent to the dashboard is signed in.
- Contract client: whatever exists can be asked for by a caller who only knows what it has read;
  what a call returns is an answer to that call.

## 2. Plan

| Order | Module | Models | Composes | State |
|---|---|---|---|---|
| 1 | `IdempotentCommands` | the promise of an Idempotency-Key, abstract | | done |
| 2 | `Collaboration` | the collaboration handlers over SQLite | implements 1 | done |
| 3 | `CollaborationProofs`, `CollaborationRowsProofs`, `CollaborationSequentialProofs` | theorems about 2: identifiers, records and refinement; what is in the rows; requests that do not overlap | extends 2 | done |
| 4 | `CredentialBroker`, `CredentialBrokerProofs` | refresh, re-authorization, GitHub's rotating tokens | | done |
| 5 | `Accounts`, `AccountsProofs` | login, logout, session lookup, expiry, provider authorization, the demo user | the lock discipline of 2 and 4, its transactions as one step | done |
| 6 | `RouteSurface`, `RouteSurfaceProofs` | queries, retries, what a route shows | | done |
| 7 | `WebPages`, `WebShell`, `WebShellProofs` | views and links; the document around them, the form, the sessions it makes | the results of 6, the promises of 5 | done |
| 8 | `ContractTypes`, `ContractOperations`, `HubGitClient`, `HubGitClientProofs` | the contract as its client has it, and a caller of it | the routes of 2 and 5 as a server | done |
| | `RequestSizeLimit`, `Pagination`, `AccessPolicy` | functions of one request | | left out, section 14 |
| | `ConnectionPool`, `Migration`, `Discovery` | resources, schema, lists | | left out, section 14 |

A module that is composed with others gets its runs first on its own. Runs are few and each one
asks several questions of one specification: the property lists of the `.cfg` files are the
unit that grows, not the number of files.

## 3. Collaboration

`Collaboration` is `collaboration.py`: what the requests of one repository do to two tables.

| In the model | In the code |
|---|---|
| `items` | `collaboration_items`, by kind and number; a row's document cut down to what the handlers decide on |
| `records` | `idempotency_records`, by scope (operation, user, parent number) and key |
| `writer` | the request whose transaction holds SQLite's write lock |
| `step[r]` | the `await` the coroutine of `r` has reached |
| `command[r]`, `loaded[r]`, `nextNumber[r]` | the request, the row `_item` returned, the number it computed |
| `response[r]` | the status, item and ETag its client was sent |

A request passes `Arrive` (permissions and validation), `LoadItem` (`_item`, and the ETag
comparison of an edit), `Replay` (`_replay`, and then a merge's own checks), `PickNumber`
(`max(number) + 1`), `Flush` (the first INSERT or UPDATE: takes the lock, or violates the UNIQUE
constraint), `Commit` (the record's INSERT, and COMMIT) and `Respond` (an edit refreshes its row
first). `BusyTimeout` is a writer that gives up waiting for the lock and `Restart` the end of the
process under everything in flight. Every operation of the file that writes is one of these paths:
create issue, create pull request, comment, review, edit issue, edit pull request, merge.

The text of titles, bodies and dates is left out: a payload is `"text"` or `"other"`, which is
all a request hash tells apart, and a date is set or not. `Put` in `Written` writes the row
computed from `loaded[r]`, as SQLAlchemy's `UPDATE ... WHERE id = ?` does, whatever the table has by
then. `Commit` writes all rows of a transaction at once, because nobody reads them before.

`IdempotentCommands` is the promise on its own, with three actions: a command is asked, performed at
most once per name, and told. `ImplementsIdempotentCommands` is the refinement, with
`asked` the scope and key of a request's command, `done` the table of records, `told` the
successes. Two merges may share a result, since a merge's result names the pull request and not
the merge (`Shared`).

## 4. CredentialBroker

`CredentialBroker` is one viewer's row in `provider_identities`, as far as its tokens go, and the two
writers of that row: `GitHubCredentialBroker.access_token` with the read that uses its result, and
the authorization callback.

A pair of an access token and a refresh token is the number GitHub issued it under.
`stored` is the pair in the row, `live` those GitHub accepts, `replaced[n]` the pair that `n` was
given in exchange for, `forgone` those whose answer or transaction did not survive. `Read` is the
SELECT and the test of the expiry; `Refresh` the request to GitHub, which may be performed and
answered, performed with its answer lost, refused, or not reach GitHub; `Write` and `Commit` the
transaction; `Get` the repository read with the access token. A callback passes `Exchange`,
`Authorize` (identity, access policy, SELECT of the identity), `Write` and `Commit`.
`Conflicts` is the UNIQUE constraint two first sign-ins run into.

GitHub is external. It is modelled from how the code uses it and from the one thing the code relies
on: a refresh token is good for one use and the old pair ends with it. Time is the three actions
`ComeDue`, `Expire` and `End`. An access token may expire at any moment, under a read that found it
good as well: the code asks for a margin of a minute once, and `list_repositories` may then send ten
requests of 20 seconds each (`github_provider.py:203`). `outlived` remembers the reads this happened
to. Only pairs something will look at again grow old (`InUse`), which removes states and no behaviour
of the row or of an answer. Encryption is left out: `CredentialCipher` gives back what it was given.

## 5. RouteSurface

`RouteSurface` is the page a document shows for its route. The state is TanStack Query's cache, one
record per query key, with the state of the browser. Links are plain anchors, so a navigation
is a new document: a document has one route, and its cache begins empty. `Enabled` is the pair of
`enabled` options, `TreeKey` the query key, `Retry` and `staleTime` the policy of `providers.tsx`,
and `View` the sequence of early returns of the component. `Answer`
is the end of a request, with data or with one of the three classes of failures that code tells
apart; `Resume` the end of a retry's delay; `GoOnline`, `GoOffline`, `Show`, `Hide` the browser;
`Age` and `Collect` the age of the cache.

The library is external: the fetch, error and success actions of a query, the retryer that waits
while the browser is offline or the document hidden, and the observer that fetches a key when it
starts to observe it, as far as two queries without mutations, invalidation or
refetch intervals use them. The default branch an answer carries is any of `Branches`, so that
it may change between two fetches; the contents of a tree are the branch it belongs to.

## 6. Accounts

`Accounts` is who is signed in: the four tables `users`, `provider_identities`, `sessions` and
`oauth_states`, one browser's requests that look at them and change them, and the workers that insert
the demo user when they start.

| In the model | In the code |
|---|---|
| `users`, `identities`, `sessions` | the rows; a session is named by the request that made its token, a user by the request or worker that inserted it |
| `states`, `consumed`, `aged` | `oauth_states`, with `consumed_at`, and past its ten minutes |
| `expired` | the sessions past `expires_at` |
| `spent` | at GitHub: the codes that were exchanged |
| `jar` | the session cookie in the browser, which every request carries from the moment it leaves |
| `step[r]`, `asked[r]`, `loaded[r]`, `chosen[r]`, `answer[r]` | the await a coroutine has reached, what it carries, the user it read, the login and email it settled on, its answer |

The operations are `GET /viewer` (for every route that asks for the current session), the
login, the logout, the start of an authorization, its callback, and `_seed_mock_user`. `Find`, `Purge` and
`RefreshSession` are `current_session` with the deletion of an expired row and the refresh that
fails if another request deleted the row in between; `Reselect` and `EndSession` the logout;
`Verify` and `InsertSession` the login; `CheckState`, `Consume`, `Exchange`, `Admit`,
`SelectIdentity`, `ChooseLogin`, `ChooseEmail` and `SignIn` or `Conflict` the callback; `LookForDemo` and
`InsertDemo` a worker. From its first write to COMMIT a transaction is alone with SQLite's write lock,
and nobody reads what is not committed, so it is one step; `Collaboration` and
`CredentialBroker`, where the rows of one transaction compete for constraints, keep the steps apart.
`Busy` is a transaction that waited too long for the lock, possible only while another actor is at
work; `Lose` the connection cut or the process stopped under one actor, at any await: what was
committed stays. `Arrive` delivers the answers in any order. `Expire` and `Age` are the clock.

Hashes, signatures and passwords are abstracted to a choice (`Verify` accepts or refuses; a
sign-out has the CSRF token and the origin, or not). The verdict of the access policy is a choice.
Logins and emails are not: what the callback makes of a name that is taken or missing is what the
rows' uniqueness depends on (`LoginFor`, `NoReply`).

## 7. The web shell

`WebPages` is which views `HubGitApp` draws for a path, and the paths each view links to: a path is
the sequence of its segments, a view the set of its links. `Drawn` compares whole segments where
`hubgit-app.tsx:292-302` asks whether the string starts with `/search` or `/settings`: for an owner
whose name begins with one of these words the code draws that view beside the repository's. `WebShell` is the document around them: what
the loader's probes found (`bootstrap.ts`: the metadata, without which there is no page, and the
methods to sign in, without which the shell does with a form for a password), the surface that is
drawn (`RouteSurface`'s loading and error pages are taken over as results here), the form
of `AuthPage`, and the sessions that the form and the provider make. A `Follow` is a new document,
so that everything but the cookie, and the requests that are under way, is gone with it.

A sign-in passes `Submit` (which takes the cookie along), `Accept` or `Refuse` (at the API,
whether or not the document is still there), then `Answer` or `AnswerIsLost`, and `Leave` for the
dashboard. Between the last two the form is enabled again, and may be submitted once more. With a
provider it passes `StartProvider`, and `Authorize` or `Deny`. The promises of the login
that `Accounts` establishes, a session replaced and a new one made in one step, are taken here as
one action. Paths a user types are `Entries`; everything else is reached by links.

Texts, layout, and the filter and tab state of single views, which no other view reads, are left out.

## 8. The contract client

`ContractTypes` says what a value of each type of the generated client carries: the handles another
request needs (a repository's owner and name, a branch, a number, a CSRF token), and the types of
its parts. `ContractOperations` gives each operation its parameters, headers, body and result
(`Inputs`), and its method and the segments of its path (`Routes`: the segments all paths of one part of
the API begin with, `Base`, and the rest; `":ref"` is the place of a parameter). A branch is the
sequence of pieces its name is made of, some of which are characters a URL gives a
meaning to. `HubGitClient` is a caller who starts with nothing, and a server: this repository's API with
the mock provider, which serves a part of the contract, or any server that conforms to all of it
(`adapter`).

`kinds` is which kinds of things the server has at the moment, `Startable` the requests the caller can
write from what it could have read there: five rounds of reading (`HeldAt`), each with what the ones before
it gave. A caller with a session needs two, which is proved (section 11). One
`call` goes from its URL (`Url`: each value percent-encoded into the template, a `#` would end it)
over the server's decoding and its choice of the route (`Segments`, `Matches`: uvicorn decodes before
it matches) and the answer to what `HubGitClient.request` returns (`Settled`, `Read`, `ReadFails`,
`Lose`). The answer is the operation's (`Serve`, in one of the media of `MediaOf`: a raw file may be
JSON or not), or comes from the server's error handling or from what stands before it
(`Intervene`: a page or data of its own, also as a 200), and may be cut short. Nothing in the client
compares a body with the type its operation declares, so no property says that it has it. A slash in a decoded segment divides it (`Parts`). Meanwhile others make things
(`Elsewhere`) and sessions end (`Expire`). The tables look like data because they are: the generated
client is one class over a table of operations, and what can go wrong there is that two of its rows
do not fit each other.

## 9. Runs

| Run | Specification | Instance | Distinct states | Shows |
|---|---|---|---|---|
| `concurrent_writes` | `Collaboration!Spec` | 3 requests, 20 commands, symmetry | 730 000 | type and lock; dense numbers; an item and its record together; the bodies of answers equal records, and one request of a key hears the ETag; no merge without its record; no comment counted that is not there; dates agree with states; the refinement |
| `sequential_writes` | the same, requests that do not overlap | 3 requests, 13 commands, symmetry | 105 000 | If-Match, merge and replay checks do protect, when nothing runs in between |
| `requests_end` | `Collaboration!FairSpec` | 2 requests, 20 commands | 23 000 | every request ends, and so does what it holds |
| `merge_undone` | `Spec` | 2 requests | violation | section 12 |
| `duplicate_key` | `Spec` | 2 requests | violation | section 12 |
| `token_rotation` | `CredentialBroker!FairSpec` | 2 reads and 1 callback, or 2 callbacks; outages | 597 000 | a rotated pair is not stored; the stored pair is usable, or its successor is on its way or lost; one identity for two first sign-ins; a viewer is asked to sign in for a reason, a token that expired under the read among them; a refreshed pair arrives |
| `refresh_race` | `Spec` | 2 reads, no outages | violation | section 12 |
| `route_pages` | `RouteSurface!FairSpec` | 2 branches, failures of both queries | 285 000 | the tree belongs to the branch beside it; a shown page does not go back to loading; requests end; loading ends unless the repository failed |
| `route_failure` | `FairSpec` | 1 branch, a missing repository | violation | section 12 |
| `accounts` | `Accounts!Spec` | 7 requests and 2 workers, 4 of them in a behaviour; 2 GitHub accounts | 673 000 | rows fit together; a session is of the account that was authorized; a session presented to a sign-in or sign-out is over, and no session ends otherwise; a state is taken once |
| `shell` | `WebShell!Spec` | either provider, 2 repositories, 8 entries, 2 sign-ins | 22 000 | which pages are blank; links keep to their repository; passwords go where they are taken; the cookie is a session's; the dashboard is for the signed in |
| `contract` | `HubGitClient!Spec` | either server, every set of things, 4 branches | 179 000 | what exists, and what this API serves, can be asked for; an answer is of the operation and the branch that was asked, or a success of what stands before the server |

**Bounds.** Each request is handled once, so the requests bound versions, numbers, pairs, tokens,
users and records, and no other bound is needed there. Three requests are the least that let one request
overtake another between its read and its write while a third one reads or retries; every race
described in section 1 needs two. The workloads of `MCCollaboration` contain each operation, each
payload the code distinguishes, keys that are reused with the same and with another payload, an
`ifMatch` that is current and one that becomes current, a parent that does not exist and one that is
created during the run, and a user without permission. `Requests` of `Collaboration` are
interchangeable, so its safety runs use symmetry; runs with liveness do not.
`Crowds` bounds which requests come together in one behaviour, in `Accounts` and `CredentialBroker`:
every pair of kinds of requests that touch the same row is in one of them, with a third request to
carry a cookie or to make another one wait. The theorems of section 11 hold for every crowd. The two
GitHub accounts of `MCAccounts` report one login, that of the demo user as well, and one of them has
no public email, so that each of the callback's replacements happens and may collide.
`Waiting` in `RouteSurface` counts failures up to three; the code stops at two, and `TypeOK`
says so. Two branches are one more than the page can show at a time. `MaxLogins` is two: one
sign-in and one that replaces it, in the same document or another; the theorems hold for every number.
The four branches of `MCHubGitClient` are a plain one, one with a slash, one with two, and one with a
hash: the characters that mean something in a URL, between parts of its path and at its end.

**Sequential specifications.** `sequential_writes` checks `SequentialSpec`, the behaviours of `Spec` in
which a request starts only when no other one is in flight. It separates two questions: whether the checks
of the handlers are right, and whether they survive concurrency. Each collaboration property that
`Spec` violates in section 12 is also checked there. The broker and the route keep a weaker
form of theirs that holds in every behaviour and names exactly what excuses it
(`SignInHasAReason`, `LoadingEndsWithRepository`).

**Deadlock** is not checked: a finite set of requests that have all ended is a final state, and
so are a document whose queries have settled, a shell whose user does nothing, and an answer that
streams for ever. That nothing waits for ever is a liveness property
(`EveryRequestEnds`, `RotationsAreStored`, `RequestsEnd`).

## 10. Fairness

Only `Collaboration`, `CredentialBroker` and `RouteSurface` have a `FairSpec`; the other modules are
checked for safety alone.
Weak fairness is assumed of what the code's own schedulers do: an event loop resumes each coroutine
whose await is over, SQLite answers or reports that it waited too long, HTTP requests end or time out
(the HTTP client of `github_auth.py` has a timeout), a timer fires. It is assumed of `Handle(r)`
for each request, and of `Answer(k)` and `Resume(k)` for each query. Nothing is assumed of clients
(`Arrive`, `Read` and `Exchange` may never happen), of time, of `Restart`, of the viewer or of the
browser's connection: properties about a document hold if it eventually stays online and
visible, which they say. `Accounts` would end its requests by the same assumption and for the same
reason as `Collaboration`: each await has its step, and each step leads on. In the shell
and in the contract client nothing but a user or a caller moves on.

## 11. Theorems

All for every value of the constants, under the named assumptions of the modules: `Writers` are
users and each command has a payload of its operation (`WritersAssumption`,
`CommandsAssumption`); `None` is none of the values it stands in for (`NoneAssumption`,
`NoAnswerAssumption`); reads and callbacks are different requests, neither of them `None`
(`RequestsAssumption`); the kinds of actors of `Accounts` are disjoint, and crowds consist of them
(`OneKindAssumption`, `CrowdsAssumption`); `Outages` is a Boolean; failures are among
the three classes (`FailuresAssumption`); the number of sign-ins is a natural number
(`LoginsAssumption`); another spelling is resolved to a repository that exists
(`SpelledAssumption`); a name is an owner and a name (`NamesAssumption`), the folders of a tree have
paths (`TreeAssumption`), and the user of the shell enters at a page of the application, of the sign-in or of
a repository (`EntriesAssumption`): `BlankPagesAreKnown` is about the application's own links, and an
address typed by hand may be unknown. The names of branches are made of pieces none of which is an
escape (`RefsAssumption`): a `%` in a name would itself be escaped, and the model has no such
piece. TLC evaluates them in every run.

`NamesAssumption` also says that no owner is called as a page of the application is. The code
does not see to it; section 13 says what an owner called `search` would meet.

`CollaborationProofs`. `TypeOK` and `NumbersAreDense` are not inductive: a request that holds
the lock must insert the number that follows the last one. `IInv` adds `LocalOK`, what
a request remembers across an await: its parent still exists (rows are never deleted), the number
it picked follows an existing one, and from its flush to its commit that number is free, since
the constraint was checked when it took the lock and nobody else writes. `SeedsStay` gives the first
number. From it: `TypeCorrect` and `NumbersStayDense`. `RInv` adds that the records and the items
they name correspond, that what a committed request is about to answer has its record's body, and that
one request at most has performed a name (`PerformedOnce`), the only one that may send an ETag:
`EffectsStayRecorded` and `AnswersStayRecorded`. `Refinement` maps each action to a step of
`IdempotentCommands` or to none, and uses both invariants: `Commit` performs, `Replay` and
`Respond` tell, `Arrive` asks.

`CollaborationRowsProofs`. An UPDATE writes back the whole document a request loaded, however old, so
that an invariant of the rows has to hold of every document in a request's hands (`LoadedFits`) as well as of
those in the table (`RowsFit`). The argument is that a document that fitted once fits for good:
what it refers to, comments and records of merges, is added and never taken back (`Grows`,
`FitsLater`). That gives `MergesStayRecorded`, `DatesStayInAgreement` and
`CommentsStayCovered`, the last by the cardinality of the finite set of an issue's comments. It
is also why the converse statements fail: a merge is recorded and may still not be in the row.

`CredentialBrokerProofs`. `StoredIsUsable` alone is not inductive: one must know that a
pair on its way to the row (`Fresh`) is known to nobody else and therefore not rotated away
(`FreshOK`), that what a reader is about to store replaces what it loaded
(`HeldReplacesLoaded`), and that a pair some other one replaced is dead for good (`RotatedIsDead`).
`InsertOK` says that under the lock the row is still missing for the one who inserts it. Their
conjunction gives `StoredStaysUsable`, `RotatedIsNeverStored` and `OneIdentityIsInserted`.
With `HeldIsYoung`, that a token in use has not expired unless it did since the read has had it, it gives
`SignInsHaveReasons`: the broker never asks a viewer to sign in again but for an authorization that
came to its end, a race with another request of that viewer, an outage, or a token that expired
under the read.

`AccountsProofs`. `IInv` adds to the five invariants of the run that each actor is in an await of its own
handler and not answered before its end (`StepsOK`); that what it has read still is there when it is
used, because neither users nor identities are ever deleted (`DataOK`); that a cookie, in the
jar or carried by a request, is of a sign-in that was answered (`CookiesOK`); and that whoever
inserted a row has committed (`RowsOK`). `CookiesOK` is what keeps an ended session ended: a token is new
when its session is inserted, so no request that ended has presented it. Most steps touch
neither rows nor cookies (`QuietSteps`), and the rest are the three ways of changing sessions.
`StateStaysTakenOnce` needs `PastOK`, that a callback past its state has consumed it, and that
consumed states stay so.

`RouteSurfaceProofs`. `IInv` says of each query that its status agrees with its data and error
(`ResultOK`) and that a tree under the key of a branch is that branch's (`TreeOK`). It is
kept by each of the library's operations, one lemma per operation; an observed query moreover keeps
its data in every step (`Kept`). From these: `TypeCorrect`, which bounds the retries,
`TreeBelongsToBranch`, and `ShownPageStays`.

`WebShellProofs`. `CookieIsLive` is not inductive: a second sign-in could carry, and end, a session
whose answer is still on its way. `CarriedOK` says that nobody can: what a request carries an answer
has brought, and an accepted login whose answer has not arrived is live. `PageOK` says that a drawn
document knows the methods of its own installation or none, which is `PasswordsGoWhereTaken` before
the password is sent; `FormOK` that the form leaves for the dashboard with a cookie. From these:
`TypeCorrect`, `CookieStaysLive`, `PasswordsStayWhereTaken` and `DashboardIsSignedIn`.

`BlankPagesStayKnown` and `LinksStayInTheRepository` are about the views and their links, for every
repository, tree and spelling. `PathOK` says that the document at hand has a path the
application knows and that a repository it shows was asked for by that path; `KnownLinks` goes
through the links of every view and finds each of them known, and `BlankPages` through what is known
and finds each of it drawn or among the exceptions the property names.

`CollaborationSequentialProofs`. `SequentialIsSpec` carries what is proved of `Spec` over to
behaviours without overlap. `SInv` says that one request at most is in flight and that what it has
found out is still so (`FreshOK`): the row it loaded is the one in the table, an edit's version is
that row's, a merge found it open, and the name of its record is free. All but the first are what the handlers' checks establish, and overlap would
destroy each of them. That gives `EditsAreConditional`, `MergesStay` and, with `RInv`, `ReusesAreAnswered`: the checks are right, and what
`merge_undone` and `duplicate_key` find is the work of interleavings alone.

`HubGitClientProofs`. `IInv` says that the URL of a request that was sent is that of its operation and
branch, that an answer is the operation's success or no operation's at all, and that what the call returned is
what `HubGitClient.request` makes of that answer. That the answer is of the operation that
was called needs that no request is another operation's: `TemplatesDiffer`, by cases over the
tables, says that the templates of two operations of one method never agree, `UrlsComeBack` that
decoding gives back what was encoded, for every branch, and `SlashesMatchNothing` that a server
that decodes first finds no operation at all for a branch with a slash. `ServedAsAsked` puts them
together, and gives `AnswersAsAsked`; an answer of no operation is returned only with the status of a success.
`TypeCorrect` follows from `IInv`.

`WhatExistsCanBeAsked` and `ServedCanBeAsked` hold of every set of things that `TypeOK` allows, so
that the invariant they need is that one; the work is in the functions they are about. `Contents` and
`HeldAt` are recursive, and nothing is known of a recursive function until one is known to exist.
`Depth` numbers the types by how deep their parts are nested, `TypesAreNotRecursive` says that a part is
always less deep than its whole, and `ContentsAre` and `HeldIs` name a function that satisfies the
definition: what five openings of the types give, and what five rounds of reading do. Then
there are two sides. `AnswersAreTruthful`, from the parts of each type to the type, depth by depth, says
that an answer names only what is there, and `HeldIsTrue` that a caller therefore never holds the name
of what is not. `NamesAreFound` and `WhatIsThereIsHeld` say that what is there has a list that
names it, which takes nothing but the names of the repository, and that these are in the first list
of all. `RequestsTakeWhatIsRead`, table by table, says that requests take no other names, `TagsAreRead`
that the read of the same path brings the entity tag a change needs, and
`OrganizationsAreUntagged` that for `updateOrganization` none does. Together: `AskedWhenThere`, and from it
`WhatExistsIsAskable` and `ServedIsAskable`.

With these, every invariant and every action property of the passing runs is a theorem. Only
model-checked is liveness, which needs fairness and ENABLED and is out of the prover's reach:
`EveryRequestEnds`, `RotationsAreStored`, `RequestsEnd` and `LoadingEndsWithRepository`.

What those four ask of the steps, and not of the scheduling, is proved all the same, so that fairness
has to supply only that awaits, answers and delays end:

- `HandlersEnd` (`EveryRequestEnds`): every step of a handler lowers the number of awaits before it,
  seven at first, no other request moves it, and what it was answered does not change.
- `RotationsStayHeld` (`RotationsAreStored`): a read keeps the pair it received until `Commit` has
  stored it or a failure is accounted for in `forgone`.
- `FetchesEnd` and `NothingStaysPaused` (`RequestsEnd`): `Left`, three requests with a delay and a pause
  before each retry, falls with every change of a fetch, and only the browser's return or another
  default branch begins one; nothing is paused while the browser is online and visible.
- `LoadingWaitsForSomething` (`LoadingEndsWithRepository`): behind the loading page something is on its
  way, unless the repository has failed. It needs `PendingIsUnderWay`: what is fresh was answered,
  so that a tree whose key becomes observed is fetched unless it is already there.

`TLC` found `PausedOnlyAway`, `FetchesRunOut`, `PendingIsUnderWay`, `LoadingIsUnderWay` and
`RotationsAreNotDropped` to hold on the instances of `route_pages` and `token_rotation`
before they were proved; no run keeps them, as they are theorems now and the liveness
properties they serve stay in those runs.

## 12. Where the code and its documents disagree

- `merge_undone`. Reviews and edits write back the whole document they loaded. One that loaded a
  pull request before its merge was committed reopens it afterwards, although the merge was
  recorded and answered. Neither the version nor the ETag is part of the UPDATE, so two edits that
  name the same version may both be applied, too. `MergesAreRecorded` is what remains true.
- `duplicate_key`. A second request with the same key that arrives before the first one has committed
  gets a 500 from a UNIQUE constraint. `AnswersAreRecorded` and the refinement show that the
  effect is still not duplicated: the answer is wrong, not the data.
- The same sentence, "Reuse returns the original result or a stable conflict."
  (`docs/architecture-and-adapters.md:74`), is met for the body only. The original 201 of a created
  issue or pull request carries the new row's ETag (`collaboration.py:388`, `:641`), and the replay of
  it (`:352`, `:589`) does not, so a client whose first answer was lost cannot edit what it created
  without reading it. `Original` has the header and `AnswersAreRecorded` says what is true of
  it: the body is recorded, and one request of a key at most hears the ETag. It has no run: one
  request and its retry show it.
- `refresh_race`. Two reads of one viewer that both find an expiring token both refresh it, and the
  second one is told to sign in although the first has stored a good pair, or is about to.
  `StoredIsUsable` shows that the row is not harmed. The broker answers the same 401 when GitHub is
  not reached at all, and when the access token expires under a long listing although the refresh
  token is good: two more of the excuses in `SignInHasAReason`, and exceptions to
  `apps/api/README.md:33-34` of their own.
- `route_failure`. A failed first load of a repository is shown as loading, for good: the tree query
  is never enabled, and a query that is not enabled is pending.

## 13. What else the models brought to light

These have no run of their own. Each is visible in the module named, most of them as the exception
a property has to make.

Collaboration (`Collaboration`), which no document speaks of and no property forbids:

- Two comments that overlap lose one of the two increments, so that an issue's count falls behind its
  comments (`collaboration.py:525`); `CommentsAreNotOvercounted` is the other half.
- A merge whose pull request is closed after the merge looked at it commits all the same, and the pull
  request is merged (`collaboration.py:913`).

Web data and shell (`RouteSurface`, `WebShell`, `WebPages`):

- A refetch that fails behind a page that is shown replaces it by the error page
  (`route-surface.tsx:74`), where `docs/route-state-fidelity-matrix.md:56` and `:173` speak of
  keeping what is there.
- `HubGitApp` never looks at the session. Everyone is drawn as a member, so the header's "Sign in"
  is not reached from it.
- A sign-in at the provider returns to the page it began at, which is `/login`.
- All rows of the lists lead to one issue and one pull request of the demonstration repository
  (the exception in `RepositoryLinksKeepTheName`); the folders of a tree, `/privacy` and `/terms`
  lead to blank pages, and so does a repository asked for under another spelling of its name
  (the exceptions in `BlankPagesAreKnown`). So would every repository of an owner called `search`,
  or as another page is: nothing keeps an account from such a name (`NamesAssumption` excludes it). The page for unknown routes is not reachable by any link.
- Nothing reads the search page's `q`, and the Retry button beside a freshness note has no handler.
- If only the probe for the sign-in methods fails, an installation of GitHub draws a form for
  passwords (the exception in `PasswordsGoWhereTaken`).
- A second submission while the browser leaves for the dashboard ends the session of the cookie
  it leaves with (the exception in `SignedInAtDashboard`).
- The tree of a default branch with a slash in its name is not found: the path is decoded before it is
  matched with the routes, so no route of a tree fits it; `AnswersAreAsked`
  shows that no other operation answers in its place.

Contract (`HubGitClient`):

- `updateOrganization` can never be asked: it takes an entity tag, and no read gives an
  organization's. The first discussion of a repository can never be created: a category is known only from a
  discussion. An organization is found only through a repository it owns.
- `startAuthProvider` and `completeAuthProvider` are answered by redirects, which a caller of `fetch`
  cannot use; `streamEvents` never settles; void operations that are answered 202 return an
  empty text instead of `undefined`; a problem whose JSON cannot be parsed loses its status.

Accounts (`Accounts`):

- Two callbacks that overlap may both pass the check of one state (`models.py:61` calls it single-use);
  `StateIsTakenOnce` is the rest of that promise. GitHub's codes are good for one use, so only
  two codes under one state would sign in twice.
- The name a callback falls back to is taken to be free: an account named `x-github-7` would be in
  the way of account 7 named `x`, each of whose first sign-ins would be answered 500 (`LoginFor` is
  distinct for each account by construction; the code's string is not).
- The demo user is inserted in an installation of GitHub as well. An account that has its login may
  come first; a worker that starts afterwards finds the login and goes on, one that
  raced with it does not start.

## 14. What is not modelled

- The access policy: its rules are a function of GitHub's answers, without a state. `Accounts` and
  `CredentialBroker` take its verdict as a choice, so what they show holds for every policy.
- The request size limit: one buffer, of one request, counted by one task. There is nothing to
  interleave with; its boundary is a matter for a unit test.
- Pagination: a cursor is an offset into a list that is read again for every page. The code promises
  nothing across two pages.
- Lists, searches, the dashboard and single reads, which change nothing; notifications, whose rows no
  other component uses; the mock provider's fixtures. `WebShell` and `Collaboration` take their results
  as given.
- The tree walk and the pages of the listing in `github_provider.py` are one read in
  `CredentialBroker`, however long it takes: the requests of one read present the same access token.
- The pool of database connections: the write lock and the isolation of SQLite are modelled, the
  number of connections is not. A wait for a connection ends by a timeout.
- Databases other than SQLite, whose URL the configuration would accept: they may serialize writers
  by row and not by file. SQLite is what the repository runs and tests.
- Migrations, run by hand before the service starts; configuration, validated once; the order in
  which the start of the process opens its clients and tables.
- The mapping of the metadata to branding texts, the vendored widgets under `components/ui`, the web
  server, the build scripts of the contracts, example data.
