------------------------------- MODULE WebShell -------------------------------
(***************************************************************************)
(* The web application around its pages: the document a browser has open,  *)
(* what its loader found out about the instance, the sign-in form, and the *)
(* sessions of the API that the form makes (apps/web/components/           *)
(* hubgit-app.tsx, app/lib/bootstrap.ts, app/route-surface.tsx).  Every    *)
(* link loads a new document, so the state of the components lasts as long *)
(* as their document; only the cookie is kept.                             *)
(***************************************************************************)
EXTENDS WebPages, Integers, FiniteSets

CONSTANTS Names,      \* the repositories the provider has
          Spelled,      \* other spellings that the GitHub adapter resolves, to names
          Branch,     \* the default branch of a repository
          Tree,       \* the entries at the root of a repository
          Entries,    \* the paths a user types
          MaxLogins,  \* bound: sign-ins of a behaviour
          None

ASSUME LoginsAssumption == MaxLogins \in Nat
ASSUME SpelledAssumption == \A path \in DOMAIN Spelled : Spelled[path] \in Names
ASSUME NoneAssumption == None \notin Names \cup {<<"login">>, <<"dashboard">>}

(* A repository goes by its owner and its name, and nobody is called as a  *)
(* page of the application is.                                             *)
ASSUME NamesAssumption ==
  \A name \in Names : name \in Seq(STRING) /\ Len(name) = 2 /\ name[1] \notin Reserved
ASSUME TreeAssumption == \A e \in Tree : e.path \in Seq(STRING)

(* A user starts at a page of the application or at a repository.          *)
ASSUME EntriesAssumption ==
  \A path \in Entries :
    /\ path \in Seq(STRING)
    /\ \/ IsAuthRoute(path)
       \/ HubGitApp(path) \ {"repository"} # {}
       \/ repositoryRoute(path) /\ Len(path) = 2

VARIABLES
  instance,  \* the provider of the installation
  page,      \* the document in the browser
  form,      \* the state of its AuthPage
  logins,    \* the requests to sign in
  cookie,    \* the session the browser's cookie names, 0 for none
  live       \* the sessions the API has

vars == <<instance, page, form, logins, cookie, live>>
Kept == <<instance, logins, cookie, live>>

Instances == {"mock", "github"}
Logins == 1 .. MaxLogins

(* What the probes of loadBootstrap found: the metadata, and the methods   *)
(* to sign in with, which the shell does without.                          *)
Bootstraps == [meta : BOOLEAN, methods : {"provider", "password", "unknown"}]

(* The phases of a document: asked for; drawn; at the provider, to which   *)
(* it has redirected; answered by the API with a problem.                  *)
Phases == {"requested", "shown", "authorizing", "problem"}

(* "repository" is the name that the API gives the repository it answered  *)
(* for the path, "failed" whether its tree could not be had.               *)
Requested(path) ==
  [path |-> path, phase |-> "requested", bootstrap |-> None, repository |-> None,
   failed |-> FALSE, branding |-> "hubgit", dark |-> FALSE]

Idle == [submitting |-> FALSE, login |-> 0, error |-> FALSE, leaving |-> None]

Unused == [state |-> "unused", carried |-> 0, methods |-> None]

Init ==
  /\ instance \in Instances
  /\ \E path \in Entries : page = Requested(path)
  /\ form = Idle
  /\ logins = [i \in Logins |-> Unused]
  /\ cookie = 0 /\ live = {}
-----------------------------------------------------------------------------
(* Mutation: the providers are not looked at.                              *)
PasswordAlways(bootstrap) == "local"

(* toHubGitAppData: the way to sign in that AuthPage offers.               *)
AuthMode(bootstrap) == IF bootstrap.methods = "provider" THEN "provider" ELSE "local"

Methods == IF instance = "github" THEN "provider" ELSE "password"

(* loadBootstrap and the render of its result: any of the probes may fail, *)
(* and only the metadata is indispensable.                                 *)
Load ==
  /\ page.phase = "requested"
  /\ \E meta \in BOOLEAN, methods \in {Methods, "unknown"} :
       page' = [page EXCEPT !.phase = "shown",
                            !.bootstrap = [meta |-> meta, methods |-> methods]]
  /\ UNCHANGED <<form, Kept>>

Shown == page.phase = "shown" /\ page.bootstrap.meta
Requires == Shown /\ repositoryRoute(page.path)

(* Mutation: the repository goes by the name it was asked for.             *)
FoundAsAsked(path) == SubSeq(path, 1, 2)

(* The name under which the provider has the repository of a path.         *)
Found(path) ==
  LET asked == SubSeq(path, 1, 2) IN
  CASE asked \in Names -> asked
    [] asked \notin Names /\ instance = "github" /\ asked \in DOMAIN Spelled -> Spelled[asked]
    [] OTHER -> None

(* The repository and its tree arrive, or the repository does and its tree *)
(* fails; a repository that fails leaves the document loading.             *)
RepositoryArrives ==
  /\ Requires /\ page.repository = None /\ Found(page.path) # None
  /\ \E failed \in BOOLEAN :
       page' = [page EXCEPT !.repository = Found(page.path), !.failed = failed]
  /\ UNCHANGED <<form, Kept>>

(* What RouteSurface renders.                                              *)
Surface ==
  CASE ~Shown                                    -> "unavailable"
    [] Requires /\ page.repository = None        -> "loading"
    [] Requires /\ page.failed                    -> "error"
    [] OTHER -> IF IsAuthRoute(page.path) THEN "auth" ELSE "app"

(* The name RepositoryShell goes by, the demonstration's without data.     *)
Name == IF page.repository = None THEN Demo ELSE page.repository
Drawing == Content(page.path, Name)

(* viewer is taken from the path, not from the session.                    *)
Viewer == IF page.path \in {<<"login">>, <<"join">>} THEN "guest" ELSE "member"

Links ==
  CASE Surface = "app" ->
         GlobalHeader(Viewer) \cup BrandingLinks
           \cup (IF "repository" \in HubGitApp(page.path) THEN RepositoryNavigation(Name) ELSE {})
           \cup UNION {IF view \in AppViews THEN GlobalLinks(view)
                       ELSE RepositoryLinks(view, Name, Branch, Tree) : view \in Drawing}
    [] Surface = "auth" -> AuthLinks(page.path[1])
    [] Surface \in {"unavailable", "error"} -> {page.path}   \* Retry
    [] OTHER -> {}
-----------------------------------------------------------------------------
(* A document is left: nobody waits for its requests any more.             *)
Open(path) ==
  /\ page' = Requested(path)
  /\ form' = Idle
  /\ UNCHANGED Kept

Follow(path) == page.phase = "shown" /\ path \in Links /\ Open(path)

(* The user goes on from a problem that the API has shown.                 *)
Visit(path) == page.phase = "problem" /\ path \in Entries /\ Open(path)

ToggleColour ==
  /\ Surface = "app"
  /\ page' = [page EXCEPT !.dark = ~@]
  /\ UNCHANGED <<form, Kept>>

SwitchBranding ==
  /\ Surface = "auth"
  /\ page' = [page EXCEPT !.branding = IF @ = "hubgit" THEN "github-reference" ELSE "hubgit"]
  /\ UNCHANGED <<form, Kept>>

HasForm == Surface = "auth" /\ AuthMode(page.bootstrap) = "local" /\ page.path # <<"verify">>

Submittable == HasForm /\ ~form.submitting

(* AuthPage.submit: the login form sends the credentials, the others only  *)
(* go to the login page.                                                   *)
Submit ==
  /\ Submittable
  /\ IF page.path = <<"login">>
     THEN \E i \in Logins :
            /\ logins[i].state = "unused" /\ \A j \in 1 .. i - 1 : logins[j].state # "unused"
            /\ logins' = [logins EXCEPT ![i] = [state |-> "sent", carried |-> cookie,
                                                methods |-> page.bootstrap.methods]]
            /\ form' = [form EXCEPT !.submitting = TRUE, !.login = i, !.error = FALSE]
     ELSE /\ form' = [form EXCEPT !.error = FALSE, !.leaving = <<"login">>]
          /\ UNCHANGED logins
  /\ UNCHANGED <<instance, page, cookie, live>>

(* Mutation: a login ends every session of the user.                       *)
AcceptOnly(i) ==
  /\ logins[i].state = "sent" /\ instance = "mock"
  /\ logins' = [logins EXCEPT ![i].state = "accepted"]
  /\ live' = {i}
  /\ UNCHANGED <<instance, page, form, cookie>>

(* The API serves a login, whether or not its document is still there: a   *)
(* login replaces the session that the request carried.                    *)
Accept(i) ==
  /\ logins[i].state = "sent" /\ instance = "mock"
  /\ logins' = [logins EXCEPT ![i].state = "accepted"]
  /\ live' = (live \ {logins[i].carried}) \cup {i}
  /\ UNCHANGED <<instance, page, form, cookie>>

Refuse(i) ==
  /\ logins[i].state = "sent"
  /\ logins' = [logins EXCEPT ![i].state = "refused"]
  /\ UNCHANGED <<instance, page, form, cookie, live>>

(* Mutation: the form does not wait for the answer to leave.               *)
LeaveAtOnce ==
  /\ form.submitting
  /\ logins[form.login].state \in {"sent", "accepted", "refused"}
  /\ form' = [form EXCEPT !.submitting = FALSE, !.leaving = <<"dashboard">>]
  /\ UNCHANGED <<instance, page, logins, cookie, live>>

(* The answer reaches the document that asked: the button is enabled again *)
(* while the browser leaves for the dashboard.                             *)
Answer ==
  /\ form.submitting
  /\ logins[form.login].state \in {"accepted", "refused"}
  /\ logins' = [logins EXCEPT ![form.login].state = "answered"]
  /\ IF logins[form.login].state = "accepted"
     THEN /\ cookie' = form.login
          /\ form' = [form EXCEPT !.submitting = FALSE, !.leaving = <<"dashboard">>]
     ELSE /\ form' = [form EXCEPT !.submitting = FALSE, !.error = TRUE]
          /\ UNCHANGED cookie
  /\ UNCHANGED <<instance, page, live>>

(* The connection breaks before the answer, whatever the API has done.     *)
AnswerIsLost ==
  /\ form.submitting
  /\ form' = [form EXCEPT !.submitting = FALSE, !.error = TRUE]
  /\ UNCHANGED <<instance, page, logins, cookie, live>>

Leave == form.leaving # None /\ Open(form.leaving)
-----------------------------------------------------------------------------
(* The link to the provider, with the present path to return to.           *)
StartProvider ==
  /\ Surface = "auth" /\ AuthMode(page.bootstrap) = "provider"
  /\ page' = [page EXCEPT !.phase = "authorizing"]
  /\ UNCHANGED <<form, Kept>>

(* The callback makes a session, replacing the browser's, and redirects to *)
(* where the authorization began, or it answers with a problem.            *)
Authorize ==
  /\ page.phase = "authorizing"
  /\ \E i \in Logins :
       /\ logins[i].state = "unused" /\ \A j \in 1 .. i - 1 : logins[j].state # "unused"
       /\ logins' = [logins EXCEPT ![i] = [state |-> "answered", carried |-> cookie,
                                           methods |-> page.bootstrap.methods]]
       /\ live' = (live \ {cookie}) \cup {i}
       /\ cookie' = i
  /\ page' = Requested(page.path)
  /\ form' = Idle
  /\ UNCHANGED instance

Deny ==
  /\ page.phase = "authorizing"
  /\ page' = [page EXCEPT !.phase = "problem"]
  /\ UNCHANGED <<form, Kept>>

SignIn == Submit \/ Answer \/ AnswerIsLost \/ Leave \/ StartProvider \/ Authorize \/ Deny

Next ==
  \/ Load \/ RepositoryArrives
  \/ ToggleColour \/ SwitchBranding
  \/ \E path \in Links : Follow(path)
  \/ \E path \in Entries : Visit(path)
  \/ SignIn
  \/ \E i \in Logins : Accept(i) \/ Refuse(i)

Spec == Init /\ [][Next]_vars

-----------------------------------------------------------------------------
TypeOK ==
  /\ instance \in Instances
  /\ page.phase \in Phases /\ page.bootstrap \in Bootstraps \cup {None}
  /\ page.repository \in Names \cup {None} /\ page.failed \in BOOLEAN
  /\ page.dark \in BOOLEAN /\ page.branding \in {"hubgit", "github-reference"}
  /\ form \in [submitting : BOOLEAN, login : 0 .. MaxLogins, error : BOOLEAN,
               leaving : {None, <<"login">>, <<"dashboard">>}]
  /\ logins \in [Logins -> [state : {"unused", "sent", "accepted", "refused", "answered"},
                            carried : 0 .. MaxLogins,
                            methods : {None, "provider", "password", "unknown"}]]
  /\ cookie \in 0 .. MaxLogins /\ live \subseteq Logins

(* A document the user comes to by the application's own links has         *)
(* something between its header and its footer.  Three kinds have not: the *)
(* folders of a repository, which the code view links and no view draws;   *)
(* the policies, which the footer links and no route has; and a repository *)
(* that the API names differently from the path that asked for it.         *)
BlankPagesAreKnown ==
  Surface = "app" /\ Drawing = {} =>
    \/ Len(page.path) > 3 /\ page.path[3] = "tree"
    \/ page.path \in BrandingLinks
    \/ page.repository # None /\ SubSeq(page.path, 1, 2) # page.repository

(* From the pages of a repository the user comes to pages of the same      *)
(* repository or of none, except by the rows of the lists, which all lead  *)
(* to the demonstration repository.                                        *)
RepositoryLinksKeepTheName ==
  [][\A path \in Links :
       Surface = "app" /\ Follow(path) /\ page.repository \in Names /\ repositoryRoute(path)
         => \/ SubSeq(path, 1, 2) = page.repository
            \/ path \in {IssueRow, PullRow} /\ Drawing \cap {"issues", "pulls"} # {}]_vars

(* A password leaves the browser only for an installation that signs in    *)
(* with passwords, unless the document was drawn without an answer to the  *)
(* question which methods it has.                                          *)
PasswordsGoWhereTaken ==
  \A i \in Logins : logins[i].state = "sent" =>
    instance = "mock" \/ logins[i].methods = "unknown"

(* Who goes from the form to the dashboard is signed in: the cookie is     *)
(* that of a session, and of one that exists, unless another login has     *)
(* carried it, as the form can be submitted once more while the browser is *)
(* leaving.                                                                *)
SignedInAtDashboard ==
  [][Leave /\ form.leaving = <<"dashboard">> =>
       cookie # 0 /\ (cookie \in live \/ \E i \in Logins : logins[i].carried = cookie)]_vars

(* The cookie names a session that exists, unless a login that would       *)
(* replace it was accepted and its answer did not arrive.                  *)
CookieIsLive ==
  cookie = 0 \/ cookie \in live
    \/ \E i \in Logins : logins[i].state = "accepted" /\ logins[i].carried = cookie
=============================================================================
