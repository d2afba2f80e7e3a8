------------------------------ MODULE Accounts ------------------------------
(***************************************************************************)
(* Who is signed in: the rows of users, provider_identities, sessions and  *)
(* oauth_states, the requests of one browser that create and end sessions  *)
(* (security.py, main.py, provider_auth_routes.py in apps/api/hubgit_api), *)
(* and the workers that insert the demo user when they start.              *)
(*                                                                         *)
(* A request yields to the others at every await.  A SELECT before the     *)
(* first write sees what is committed; from the first write to COMMIT a    *)
(* transaction is alone with the one write lock, so that it is one step    *)
(* here, which a wait for the lock may refuse.  A session is named by the  *)
(* request that made its token, an authorization state by the request that *)
(* started it, and a user by the request or the worker that inserted it.   *)
(***************************************************************************)
EXTENDS Functions

CONSTANTS Views,      \* GET /viewer
          Logins,     \* POST /auth/login
          Logouts,    \* DELETE /auth/session
          Starts,     \* GET /auth/providers/github/start
          Callbacks,  \* GET /auth/providers/github/callback
          Workers,    \* processes that start, each once
          People,     \* GitHub accounts
          LoginOf,    \* the login that GitHub reports of each
          EmailOf,    \* the public email of each, or None
          Demo,       \* the login and the email of the demo user
          Crowds,     \* bound: the sets of actors that come in one behaviour
          Earlier,    \* the worker of an earlier start
          None        \* no request, no user, no email

Requests == Views \cup Logins \cup Logouts \cup Starts \cup Callbacks
Actors == Requests \cup Workers

ASSUME NoneAssumption == None \notin Actors \cup {Earlier} /\ Earlier \notin Actors
ASSUME CrowdsAssumption == \A crowd \in Crowds : crowd \subseteq Actors
ASSUME OneKindAssumption ==
  /\ Views \cap (Logins \cup Logouts \cup Starts \cup Callbacks \cup Workers) = {}
  /\ Logins \cap (Logouts \cup Starts \cup Callbacks \cup Workers) = {}
  /\ Logouts \cap (Starts \cup Callbacks \cup Workers) = {}
  /\ Starts \cap (Callbacks \cup Workers) = {}
  /\ Callbacks \cap Workers = {}

Providers == {"mock", "github"}
Steps == {"idle", "find", "purge", "refresh", "reselect", "delete", "verify", "insert",
          "state", "consume", "exchange", "policy", "identity", "login", "email", "write",
          "insertDemo", "reply", "done", "lost"}

(* The 4xx, 502 and 503 problems are one answer, and so are the 500s.      *)
Answers == {"viewer", "redirect", "signed_out", "signed_in", "started", "refused",
            "server.internal_error"}

ASSUME NoAnswerAssumption == None \notin Answers

(* A login or an email is a sequence: <<name>>, or what the callback makes *)
(* of a name that is taken or missing.                                     *)
Plain(name) == <<name>>
LoginFor(p) == <<LoginOf[p], p>>       \* octocat-github-583231
NoReply(p) == <<"noreply", p>>         \* 583231@users.noreply.github.local

LoginNames == {Plain(Demo.login)} \cup {Plain(LoginOf[p]) : p \in People}
                                  \cup {LoginFor(p) : p \in People}
EmailNames == {Plain(Demo.email)} \cup {Plain(EmailOf[p]) : p \in People}
                                  \cup {NoReply(p) : p \in People}
DemoUser == [login |-> Plain(Demo.login), email |-> Plain(Demo.email)]

VARIABLES
  provider,    \* the provider of this deployment
  users,       \* users: the login and email of each
  identities,  \* provider_identities: the user of each GitHub account
  sessions,    \* sessions: the user of each token
  expired,     \* the tokens whose session is past its time
  states,      \* oauth_states
  consumed,    \* the states with consumed_at
  aged,        \* the states past their ten minutes
  spent,       \* GitHub: the codes that were exchanged
  jar,         \* the session cookie of the browser, or None
  step,        \* the await each actor has reached
  asked,       \* what a request carries
  loaded,      \* the user it has read, or None
  chosen,      \* the login and the email the callback has settled on
  answer       \* what was answered

rows == <<users, identities, sessions>>
clock == <<expired, aged>>
flow == <<states, consumed, spent>>
local == <<asked, loaded, chosen>>
vars == <<provider, users, identities, sessions, expired, states, consumed, aged, spent, jar,
          step, asked, loaded, chosen, answer>>

Nothing == [cookie |-> None, csrf |-> FALSE, state |-> None, person |-> None]

Goto(r, s) == step' = [step EXCEPT ![r] = s] /\ UNCHANGED answer
Reply(r, a) == step' = [step EXCEPT ![r] = "reply"] /\ answer' = [answer EXCEPT ![r] = a]
Load(r, u) == loaded' = [loaded EXCEPT ![r] = u] /\ UNCHANGED <<asked, chosen>>

InFlight(r) == step[r] \notin {"idle", "done", "lost"}

Without(f, k) == Restrict(f, DOMAIN f \ {k})
With(f, k, v) == [x \in DOMAIN f \cup {k} |-> IF x = k THEN v ELSE f[x]]
-----------------------------------------------------------------------------
(* A new database, or one in which a worker inserted the demo user before. *)
Init ==
  /\ provider \in Providers
  /\ \E there \in SUBSET {Earlier} : users = [u \in there |-> DemoUser]
  /\ identities = [p \in {} |-> None] /\ sessions = [t \in {} |-> None]
  /\ expired = {} /\ aged = {}
  /\ states = {} /\ consumed = {} /\ spent = {}
  /\ jar = None
  /\ \E crowd \in Crowds :
       step = [r \in Actors |-> IF r \in crowd THEN "idle" ELSE "lost"]
  /\ asked = [r \in Actors |-> Nothing]
  /\ loaded = [r \in Actors |-> None]
  /\ chosen = [r \in Actors |-> DemoUser]
  /\ answer = [r \in Actors |-> None]

(* A request leaves the browser with the cookie of the jar; a sign-out has *)
(* the session's CSRF token and origin, or not.                            *)
Send(r, first, csrf, state, person) ==
  /\ step[r] = "idle"
  /\ asked' = [asked EXCEPT ![r] = [cookie |-> jar, csrf |-> csrf, state |-> state,
                                    person |-> person]]
  /\ Goto(r, first)
  /\ UNCHANGED <<provider, rows, clock, flow, jar, loaded, chosen>>

(* The provider is asked for before anything else.                         *)
Routed(r) ==
  \/ r \in Views /\ Send(r, "find", FALSE, None, None)
  \/ r \in Logouts /\ \E csrf \in BOOLEAN : Send(r, "find", csrf, None, None)
  \/ r \in Logins /\ provider = "mock" /\ Send(r, "verify", FALSE, None, None)
  \/ r \in Starts /\ provider = "github" /\ Send(r, "insert", FALSE, None, None)

(* GitHub sends the browser back with a code for the account it is signed  *)
(* in with there, and the state of a start that was answered or none.      *)
Returns(r) ==
  /\ r \in Callbacks
  /\ provider = "github"
  /\ \E s \in {q \in Starts : answer[q] = "redirect" /\ step[q] = "done"} \cup {None},
        p \in People : Send(r, "state", FALSE, s, p)

(* The other provider's routes, and a return that says "error".            *)
TurnedAway(r) ==
  /\ step[r] = "idle"
  /\ \/ r \in Logins /\ provider # "mock"
     \/ r \in Starts /\ provider # "github"
     \/ r \in Callbacks
  /\ Reply(r, "refused")
  /\ UNCHANGED <<provider, rows, clock, flow, jar, local>>

(* current_session: SELECT by the hash of the token.                       *)
Find(r) ==
  /\ step[r] = "find"
  /\ \/ asked[r].cookie \notin DOMAIN sessions /\ Reply(r, "refused")
     \/ /\ asked[r].cookie \in DOMAIN sessions
        /\ Goto(r, IF asked[r].cookie \in expired THEN "purge" ELSE "refresh")
  /\ UNCHANGED <<provider, rows, clock, flow, jar, local>>

(* An expired session is deleted by the request that meets it.             *)
Purge(r) ==
  /\ step[r] = "purge"
  /\ sessions' = Without(sessions, asked[r].cookie)
  /\ Reply(r, "refused")
  /\ UNCHANGED <<provider, users, identities, clock, flow, jar, local>>

(* db.refresh: a row that is gone by now is an error, not a 401.           *)
RefreshSession(r) ==
  /\ step[r] = "refresh"
  /\ \/ asked[r].cookie \notin DOMAIN sessions /\ Reply(r, "server.internal_error")
     \/ /\ asked[r].cookie \in DOMAIN sessions
        /\ \/ r \in Views /\ Reply(r, "viewer")
           \/ r \in Logouts /\ ~asked[r].csrf /\ Reply(r, "refused")
           \/ r \in Logouts /\ asked[r].csrf /\ Goto(r, "reselect")
  /\ UNCHANGED <<provider, rows, clock, flow, jar, local>>

(* logout looks for the session again; one that is gone is signed out.     *)
Reselect(r) ==
  /\ step[r] = "reselect"
  /\ \/ asked[r].cookie \in DOMAIN sessions /\ Goto(r, "delete")
     \/ asked[r].cookie \notin DOMAIN sessions /\ Reply(r, "signed_out")
  /\ UNCHANGED <<provider, rows, clock, flow, jar, local>>

EndSession(r) ==
  /\ step[r] = "delete"
  /\ sessions' = Without(sessions, asked[r].cookie)
  /\ Reply(r, "signed_out")
  /\ UNCHANGED <<provider, users, identities, clock, flow, jar, local>>

(* login: SELECT the user, and compare the password.                       *)
Verify(r) ==
  /\ step[r] = "verify"
  /\ \/ Reply(r, "refused") /\ UNCHANGED local
     \/ \E u \in DOMAIN users :
          users[u].login = Plain(Demo.login) /\ Load(r, u) /\ Goto(r, "insert")
  /\ UNCHANGED <<provider, rows, clock, flow, jar>>

(* Mutations: the presented session is kept, or all of the user's go.      *)
RotateNothing(r, u) == sessions' = With(sessions, r, u)
RotateAll(r, u) ==
  sessions' = With(Restrict(sessions, {t \in DOMAIN sessions : sessions[t] # u}), r, u)

(* The presented session makes room for a new one of user "u".             *)
Rotate(r, u) == sessions' = With(Without(sessions, asked[r].cookie), r, u)

InsertSession(r) ==
  /\ step[r] = "insert"
  /\ r \in Logins
  /\ Rotate(r, loaded[r])
  /\ Reply(r, "signed_in")
  /\ UNCHANGED <<provider, users, identities, clock, flow, jar, local>>

(* start_provider_auth.                                                    *)
InsertState(r) ==
  /\ step[r] = "insert"
  /\ r \in Starts
  /\ states' = states \cup {r}
  /\ Reply(r, "redirect")
  /\ UNCHANGED <<provider, rows, clock, consumed, spent, jar, local>>
-----------------------------------------------------------------------------
(* Mutations: a state that is not found is taken for an unused one; the    *)
(* consumption is left to the last COMMIT.                                 *)
CheckUnused(r) ==
  /\ step[r] = "state"
  /\ IF asked[r].state \notin consumed \cup aged THEN Goto(r, "consume") ELSE Reply(r, "refused")
  /\ UNCHANGED <<provider, rows, clock, flow, jar, local>>
ConsumeLater(r) ==
  /\ step[r] = "consume"
  /\ Goto(r, "exchange")
  /\ UNCHANGED <<provider, rows, clock, flow, jar, local>>

(* complete_provider_auth: SELECT the state, then UPDATE and COMMIT it.    *)
CheckState(r) ==
  /\ step[r] = "state"
  /\ IF asked[r].state \in (states \ consumed) \ aged THEN Goto(r, "consume")
                                                      ELSE Reply(r, "refused")
  /\ UNCHANGED <<provider, rows, clock, flow, jar, local>>

Consume(r) ==
  /\ step[r] = "consume"
  /\ consumed' = consumed \cup {asked[r].state}
  /\ Goto(r, "exchange")
  /\ UNCHANGED <<provider, rows, clock, states, spent, jar, local>>

(* GitHub gives one code for each authorization of an account in the name  *)
(* of a state, and takes it once.                                          *)
Code(r) == <<asked[r].state, asked[r].person>>

Exchange(r) ==
  /\ step[r] = "exchange"
  /\ \/ /\ Code(r) \notin spent
        /\ spent' = spent \cup {Code(r)}
        /\ Goto(r, "policy") \/ Reply(r, "refused")
     \/ Reply(r, "refused") /\ UNCHANGED spent
  /\ UNCHANGED <<provider, rows, clock, states, consumed, jar, local>>

(* client.identity and evaluate_access_policy.                             *)
Admit(r) ==
  /\ step[r] = "policy"
  /\ \/ Goto(r, "identity")
     \/ Reply(r, "refused")
  /\ UNCHANGED <<provider, rows, clock, flow, jar, local>>

(* Mutation: the account is taken to be the user with its login.           *)
SelectByLogin(r) ==
  /\ step[r] = "identity"
  /\ LET same == {u \in DOMAIN users : users[u].login = Plain(LoginOf[asked[r].person])} IN
     \/ same = {} /\ Load(r, None) /\ Goto(r, "login")
     \/ \E u \in same : Load(r, u) /\ Goto(r, "write")
  /\ UNCHANGED <<provider, rows, clock, flow, jar>>

SelectIdentity(r) ==
  /\ step[r] = "identity"
  /\ LET p == asked[r].person IN
     IF p \notin DOMAIN identities THEN Load(r, None) /\ Goto(r, "login")
     ELSE /\ Load(r, identities[p])
          /\ IF identities[p] \in DOMAIN users THEN Goto(r, "write")
                                               ELSE Reply(r, "server.internal_error")
  /\ UNCHANGED <<provider, rows, clock, flow, jar>>

Taken(field, name) == \E u \in DOMAIN users : users[u][field] = name

Choose(r, field, name) == chosen' = [chosen EXCEPT ![r][field] = name]

(* A login or an email that another user has is replaced by one of its own. *)
ChooseLogin(r) ==
  /\ step[r] = "login"
  /\ LET p == asked[r].person IN
     Choose(r, "login",
            IF Taken("login", Plain(LoginOf[p])) THEN LoginFor(p) ELSE Plain(LoginOf[p]))
  /\ Goto(r, "email")
  /\ UNCHANGED <<provider, rows, clock, flow, jar, asked, loaded>>

ChooseEmail(r) ==
  /\ step[r] = "email"
  /\ LET p == asked[r].person IN
     Choose(r, "email",
            IF EmailOf[p] = None \/ Taken("email", Plain(EmailOf[p]))
            THEN NoReply(p) ELSE Plain(EmailOf[p]))
  /\ Goto(r, "write")
  /\ UNCHANGED <<provider, rows, clock, flow, jar, asked, loaded>>

(* Mutation: only the identity is unique.                                  *)
CollidesOnAccount(r) == asked[r].person \in DOMAIN identities

(* The UNIQUE constraints on users and provider_identities.                *)
Collides(r) ==
  \/ Taken("login", chosen[r].login)
  \/ Taken("email", chosen[r].email)
  \/ asked[r].person \in DOMAIN identities

(* One transaction, from the flush of the new user to COMMIT.              *)
SignIn(r) ==
  /\ step[r] = "write"
  /\ \/ loaded[r] # None /\ Rotate(r, loaded[r]) /\ UNCHANGED <<users, identities>>
     \/ /\ loaded[r] = None
        /\ ~Collides(r)
        /\ users' = With(users, r, chosen[r])
        /\ identities' = With(identities, asked[r].person, r)
        /\ Rotate(r, r)
  /\ Reply(r, "signed_in")
  /\ UNCHANGED <<provider, clock, flow, jar, local>>

Conflict(r) ==
  /\ step[r] = "write"
  /\ loaded[r] = None
  /\ Collides(r)
  /\ Reply(r, "server.internal_error")
  /\ UNCHANGED <<provider, rows, clock, flow, jar, local>>
-----------------------------------------------------------------------------
(* _seed_mock_user: SELECT the demo user, and INSERT it if it is not there. *)
(* A second INSERT is refused, and that worker does not start.             *)
LookForDemo(w) ==
  /\ w \in Workers
  /\ step[w] = "idle"
  /\ IF Taken("login", DemoUser.login) THEN Reply(w, "started")
                                       ELSE Goto(w, "insertDemo")
  /\ UNCHANGED <<provider, rows, clock, flow, jar, local>>

InsertDemo(w) ==
  /\ step[w] = "insertDemo"
  /\ IF Taken("login", DemoUser.login) \/ Taken("email", DemoUser.email)
     THEN Reply(w, "server.internal_error") /\ UNCHANGED users
     ELSE Reply(w, "started") /\ users' = With(users, w, DemoUser)
  /\ UNCHANGED <<provider, identities, sessions, clock, flow, jar, local>>

(* "database is locked": the transaction of another request held the lock  *)
(* for too long.                                                           *)
Busy(r) ==
  /\ step[r] \in {"purge", "delete", "insert", "consume", "write", "insertDemo"}
  /\ \E q \in Actors \ {r} : InFlight(q)
  /\ Reply(r, "server.internal_error")
  /\ UNCHANGED <<provider, rows, clock, flow, jar, local>>

(* The answer arrives, in any order, and sets or deletes the cookie.       *)
Arrive(r) ==
  /\ step[r] = "reply"
  /\ step' = [step EXCEPT ![r] = "done"]
  /\ jar' = CASE answer[r] = "signed_in"  -> r
              [] answer[r] = "signed_out" -> None
              [] OTHER                    -> jar
  /\ UNCHANGED <<provider, rows, clock, flow, local, answer>>

(* The connection is cut, or the process stops: what was committed stays.  *)
Lose(r) ==
  /\ InFlight(r)
  /\ step' = [step EXCEPT ![r] = "lost"]
  /\ UNCHANGED <<provider, rows, clock, flow, jar, local, answer>>

Expire ==
  /\ \E t \in DOMAIN sessions \ expired : expired' = expired \cup {t}
  /\ UNCHANGED <<provider, rows, aged, flow, jar, step, local, answer>>

Age ==
  /\ \E s \in states \ aged : aged' = aged \cup {s}
  /\ UNCHANGED <<provider, rows, expired, flow, jar, step, local, answer>>

Handle(r) ==
  \/ Find(r) \/ Purge(r) \/ RefreshSession(r) \/ Reselect(r) \/ EndSession(r)
  \/ Verify(r) \/ InsertSession(r) \/ InsertState(r)
  \/ CheckState(r) \/ Consume(r) \/ Exchange(r) \/ Admit(r)
  \/ SelectIdentity(r) \/ ChooseLogin(r) \/ ChooseEmail(r) \/ SignIn(r) \/ Conflict(r)
  \/ InsertDemo(r)
  \/ Busy(r)
  \/ Arrive(r)

Next ==
  \/ Expire \/ Age
  \/ \E r \in Actors :
       Routed(r) \/ Returns(r) \/ TurnedAway(r) \/ LookForDemo(r) \/ Handle(r) \/ Lose(r)

Spec == Init /\ [][Next]_vars

-----------------------------------------------------------------------------
Tokens == Logins \cup Callbacks
UserIds == Callbacks \cup Workers \cup {Earlier}

(* Every variable keeps its type; a request that is to write has the user  *)
(* or the names it needs.                                                  *)
TypeOK ==
  /\ provider \in Providers
  /\ DOMAIN users \subseteq UserIds
  /\ users \in [DOMAIN users -> [login : LoginNames, email : EmailNames]]
  /\ DOMAIN identities \subseteq People
  /\ identities \in [DOMAIN identities -> UserIds]
  /\ DOMAIN sessions \subseteq Tokens
  /\ sessions \in [DOMAIN sessions -> UserIds]
  /\ expired \subseteq Tokens
  /\ states \subseteq Starts /\ consumed \subseteq states /\ aged \subseteq states
  /\ spent \subseteq Starts \X People
  /\ jar \in Tokens \cup {None}
  /\ step \in [Actors -> Steps]
  /\ asked \in [Actors -> [cookie : Tokens \cup {None}, csrf : BOOLEAN,
                           state : Starts \cup {None}, person : People \cup {None}]]
  /\ loaded \in [Actors -> UserIds \cup {None}]
  /\ chosen \in [Actors -> [login : LoginNames, email : EmailNames]]
  /\ answer \in [Actors -> Answers \cup {None}]

(* The rows fit together however the transactions of sign-ins, workers and *)
(* failures interleave: every session and every identity has its user, no  *)
(* two users share a login or an email and no two identities a user, and a *)
(* user that a callback inserted has the identity it was inserted for      *)
(* (provider_auth_routes.py:146-164).                                      *)
AccountsAreWhole ==
  /\ \A t \in DOMAIN sessions : sessions[t] \in DOMAIN users
  /\ \A p \in DOMAIN identities : identities[p] \in DOMAIN users
  /\ \A u, v \in DOMAIN users :
       u # v => users[u].login # users[v].login /\ users[u].email # users[v].email
  /\ \A p, q \in DOMAIN identities : p # q => identities[p] # identities[q]
  /\ \A u \in DOMAIN users \cap Callbacks : \E p \in DOMAIN identities : identities[p] = u

(* A session that a callback opened is of the user whose identity is the   *)
(* GitHub account that was authorized, never of one with its login or      *)
(* email (provider_auth_routes.py:133-186).                                *)
SessionsAreOfTheirAccount ==
  \A t \in DOMAIN sessions \cap Callbacks :
    asked[t].person \in DOMAIN identities /\ sessions[t] = identities[asked[t].person]

(* The requests that have ended the session they presented.                *)
Ended(q) == q \in Logouts \cup Logins \cup Callbacks /\ answer[q] \in {"signed_out", "signed_in"}

(* The session that an answered sign-out or sign-in presented is gone and  *)
(* stays gone: "an old cookie cannot survive login" (main.py:310), even if *)
(* other requests found it before.                                         *)
PresentedSessionsAreOver ==
  \A q \in Actors : Ended(q) => asked[q].cookie \notin DOMAIN sessions

(* A session ends only because it was presented to a sign-out or a sign-in *)
(* or was past its time: signing in on one browser leaves the sessions of  *)
(* the others (security.py:70, main.py:312 and 326).                       *)
SessionsEndForAReason ==
  \A t \in Tokens :
    answer[t] = "signed_in" =>
      \/ t \in DOMAIN sessions
      \/ t \in expired
      \/ \E q \in Actors : Ended(q) /\ asked[q].cookie = t

(* A state is taken at its word once: no callback gets past it when        *)
(* another one has consumed it, has signed in, or has failed after that,   *)
(* whatever code it brings (models.py:61, provider_auth_routes.py:89-103). *)
(* Two that both found it unconsumed before either consumed it do go on.   *)
PastState(c) == \/ step[c] \in {"exchange", "policy", "identity", "login", "email", "write"}
                \/ answer[c] = "signed_in"
StateIsTakenOnce ==
  [][\A c, d \in Callbacks :
       c # d /\ asked[c].state = asked[d].state /\ PastState(d) /\ step[c] = "state"
         => step'[c] # "consume"]_vars
=============================================================================
