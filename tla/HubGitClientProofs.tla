-------------------------- MODULE HubGitClientProofs --------------------------
(***************************************************************************)
(* Theorems about HubGitClient, for every set of branches: an answer that  *)
(* is returned is the one to the call, and it is what the call's type      *)
(* says; and whoever is signed in can ask for everything there is.  The    *)
(* first part is about the paths of the operations: no request for one of  *)
(* them is a request for another.  The last is about their types: what     *)
(* they name is there, and what is there they name.                        *)
(***************************************************************************)
EXTENDS HubGitClient, FiniteSetTheorems, SequenceTheorems, TLAPS

(* What a path is under, what follows that and how long it is.             *)
Under(op) == Routes[op][2]
Rest(op) == Routes[op][3]
More(op) == Len(Rest(op))
At(op, i) == Rest(op)[i]

(* The tables, entry by entry: what the provers can look an operation up   *)
(* in that they do not know.                                               *)
Row(op, method, under, more) == Method(op) = method /\ Under(op) = under /\ More(op) = more
Rest0(op) == Rest(op) = <<>>
Rest1(op) == Rest(op) = <<At(op, 1)>>
Rest2(op) == Rest(op) = <<At(op, 1), At(op, 2)>>
Rest3(op) == Rest(op) = <<At(op, 1), At(op, 2), At(op, 3)>>
Rest4(op) == Rest(op) = <<At(op, 1), At(op, 2), At(op, 3), At(op, 4)>>
Row0(op, method, under) == Row(op, method, under, 0) /\ Rest0(op)
Row1(op, method, under, a) == Row(op, method, under, 1) /\ Rest1(op) /\ At(op, 1) = a
Row2(op, method, under, a, b) ==
  Row(op, method, under, 2) /\ Rest2(op) /\ At(op, 1) = a /\ At(op, 2) = b
Row3(op, method, under, a, b, c) ==
  Row(op, method, under, 3) /\ Rest3(op) /\ At(op, 1) = a /\ At(op, 2) = b /\ At(op, 3) = c
Row4(op, method, under, a, b, c, d) ==
  /\ Row(op, method, under, 4) /\ Rest4(op)
  /\ At(op, 1) = a /\ At(op, 2) = b /\ At(op, 3) = c /\ At(op, 4) = d

(* The tables are one for the types and one for the paths of the same     *)
(* operations.                                                             *)
LEMMA TablesAre ==
  /\ DOMAIN AccountRoutes = {"getMeta", "getCapabilities", "getViewer", "listAuthMethods",
       "startAuthProvider", "completeAuthProvider", "getSession", "logout", "login",
       "register", "requestPasswordRecovery", "resetPassword"}
  /\ DOMAIN PeopleRoutes = {"getDashboard", "getUser", "listUserRepositories",
       "listFollowers", "listFollowing", "getOrganization", "updateOrganization",
       "listTeams"}
  /\ DOMAIN RepositoryRoutes = {"listRepositories", "createRepository", "getRepository",
       "updateRepository", "deleteRepository", "listRefs"}
  /\ DOMAIN GitRoutes = {"getTree", "getBlob", "getRawContent", "listCommits", "getCommit",
       "compareRefs", "getBlame", "downloadArchive"}
  /\ DOMAIN IssueRoutes = {"listIssues", "createIssue", "getIssue", "updateIssue",
       "listIssueComments", "createIssueComment", "listLabels", "createLabel",
       "listMilestones"}
  /\ DOMAIN PullRequestRoutes = {"listPullRequests", "createPullRequest", "getPullRequest",
       "updatePullRequest", "listPullRequestFiles", "listPullRequestReviews",
       "submitPullRequestReview", "getPullRequestChecks", "mergePullRequest"}
  /\ DOMAIN PublicationRoutes = {"listReleases", "createRelease", "listDiscussions",
       "createDiscussion", "listWikiPages", "createWikiPage"}
  /\ DOMAIN AutomationRoutes = {"listProjects", "createProject", "listWorkflows",
       "dispatchWorkflow", "listWorkflowRuns", "getWorkflowRun", "cancelWorkflowRun",
       "getSecurityOverview", "getRepositoryInsights"}
  /\ DOMAIN SettingsRoutes = {"getRepositoryAccess", "replaceRepositoryAccess",
       "getRepositoryCache", "updateRepositoryCachePolicy", "invalidateRepositoryCache",
       "listRepositoryRules", "listWebhooks", "createWebhook"}
  /\ DOMAIN ActivityRoutes = {"listNotifications", "markNotificationsRead", "search",
       "streamEvents"}
  BY DEF AccountRoutes, PeopleRoutes, RepositoryRoutes, GitRoutes, IssueRoutes,
     PullRequestRoutes, PublicationRoutes, AutomationRoutes, SettingsRoutes, ActivityRoutes

(* The operations are those with a path.                                   *)
LEMMA OperationsAre ==
  Operations = UNION {DOMAIN AccountRoutes, DOMAIN PeopleRoutes, DOMAIN RepositoryRoutes,
    DOMAIN GitRoutes, DOMAIN IssueRoutes, DOMAIN PullRequestRoutes, DOMAIN
    PublicationRoutes, DOMAIN AutomationRoutes, DOMAIN SettingsRoutes, DOMAIN
    ActivityRoutes}
  BY DEF Operations, AccountRoutes, PeopleRoutes, RepositoryRoutes, GitRoutes, IssueRoutes,
     PullRequestRoutes, PublicationRoutes, AutomationRoutes, SettingsRoutes, ActivityRoutes,
     AccountInputs, PeopleInputs, RepositoryInputs, GitInputs, IssueInputs,
     PullRequestInputs, PublicationInputs, AutomationInputs, SettingsInputs, ActivityInputs

(* Each operation's path is in one of the tables.                          *)
LEMMA RoutesAre ==
  /\ \A op \in DOMAIN AccountRoutes : Routes[op] = AccountRoutes[op]
  /\ \A op \in DOMAIN PeopleRoutes : Routes[op] = PeopleRoutes[op]
  /\ \A op \in DOMAIN RepositoryRoutes : Routes[op] = RepositoryRoutes[op]
  /\ \A op \in DOMAIN GitRoutes : Routes[op] = GitRoutes[op]
  /\ \A op \in DOMAIN IssueRoutes : Routes[op] = IssueRoutes[op]
  /\ \A op \in DOMAIN PullRequestRoutes : Routes[op] = PullRequestRoutes[op]
  /\ \A op \in DOMAIN PublicationRoutes : Routes[op] = PublicationRoutes[op]
  /\ \A op \in DOMAIN AutomationRoutes : Routes[op] = AutomationRoutes[op]
  /\ \A op \in DOMAIN SettingsRoutes : Routes[op] = SettingsRoutes[op]
  /\ \A op \in DOMAIN ActivityRoutes : Routes[op] = ActivityRoutes[op]
  BY OperationsAre, TablesAre DEF Routes

(* What each table says of each of its operations.                         *)
LEMMA AccountRows ==
  /\ Row1("getMeta", "GET", "instance", "meta")
  /\ Row1("getCapabilities", "GET", "instance", "capabilities")
  /\ Row1("getViewer", "GET", "instance", "viewer")
  /\ Row2("listAuthMethods", "GET", "instance", "auth", "methods")
  /\ Row4("startAuthProvider", "GET", "instance", "auth", "providers", ":provider", "start")
  /\ Row4("completeAuthProvider", "GET", "instance", "auth", "providers", ":provider", "callback")
  /\ Row2("getSession", "GET", "instance", "auth", "session")
  /\ Row2("logout", "DELETE", "instance", "auth", "session")
  /\ Row2("login", "POST", "instance", "auth", "login")
  /\ Row2("register", "POST", "instance", "auth", "register")
  /\ Row2("requestPasswordRecovery", "POST", "instance", "auth", "recovery")
  /\ Row3("resetPassword", "POST", "instance", "auth", "recovery", ":token")
  BY RoutesAre, TablesAre
  DEF AccountRoutes, Method, Under, Rest, More, At, Row, Row0, Row1, Row2, Row3, Row4,
      Rest0, Rest1, Rest2, Rest3, Rest4

(* Of people and organizations.                                            *)
LEMMA PeopleRows ==
  /\ Row1("getDashboard", "GET", "instance", "dashboard")
  /\ Row0("getUser", "GET", "user")
  /\ Row1("listUserRepositories", "GET", "user", "repositories")
  /\ Row1("listFollowers", "GET", "user", "followers")
  /\ Row1("listFollowing", "GET", "user", "following")
  /\ Row0("getOrganization", "GET", "organization")
  /\ Row0("updateOrganization", "PATCH", "organization")
  /\ Row1("listTeams", "GET", "organization", "teams")
  BY RoutesAre, TablesAre
  DEF PeopleRoutes, Method, Under, Rest, More, At, Row, Row0, Row1, Row2, Row3, Row4,
      Rest0, Rest1, Rest2, Rest3, Rest4

(* Of repositories.                                                        *)
LEMMA RepositoryRows ==
  /\ Row1("listRepositories", "GET", "instance", "repositories")
  /\ Row1("createRepository", "POST", "instance", "repositories")
  /\ Row0("getRepository", "GET", "repository")
  /\ Row0("updateRepository", "PATCH", "repository")
  /\ Row0("deleteRepository", "DELETE", "repository")
  /\ Row1("listRefs", "GET", "repository", "refs")
  BY RoutesAre, TablesAre
  DEF RepositoryRoutes, Method, Under, Rest, More, At, Row, Row0, Row1, Row2, Row3, Row4,
      Rest0, Rest1, Rest2, Rest3, Rest4

(* Of what is in them.                                                     *)
LEMMA GitRows ==
  /\ Row2("getTree", "GET", "repository", "tree", ":ref")
  /\ Row2("getBlob", "GET", "repository", "blob", ":ref")
  /\ Row2("getRawContent", "GET", "repository", "raw", ":ref")
  /\ Row1("listCommits", "GET", "repository", "commits")
  /\ Row2("getCommit", "GET", "repository", "commits", ":sha")
  /\ Row2("compareRefs", "GET", "repository", "compare", ":base...:head")
  /\ Row2("getBlame", "GET", "repository", "blame", ":ref")
  /\ Row2("downloadArchive", "GET", "repository", "archive", ":ref")
  BY RoutesAre, TablesAre
  DEF GitRoutes, Method, Under, Rest, More, At, Row, Row0, Row1, Row2, Row3, Row4,
      Rest0, Rest1, Rest2, Rest3, Rest4

(* Of issues.                                                              *)
LEMMA IssueRows ==
  /\ Row1("listIssues", "GET", "repository", "issues")
  /\ Row1("createIssue", "POST", "repository", "issues")
  /\ Row2("getIssue", "GET", "repository", "issues", ":number")
  /\ Row2("updateIssue", "PATCH", "repository", "issues", ":number")
  /\ Row3("listIssueComments", "GET", "repository", "issues", ":number", "comments")
  /\ Row3("createIssueComment", "POST", "repository", "issues", ":number", "comments")
  /\ Row1("listLabels", "GET", "repository", "labels")
  /\ Row1("createLabel", "POST", "repository", "labels")
  /\ Row1("listMilestones", "GET", "repository", "milestones")
  BY RoutesAre, TablesAre
  DEF IssueRoutes, Method, Under, Rest, More, At, Row, Row0, Row1, Row2, Row3, Row4,
      Rest0, Rest1, Rest2, Rest3, Rest4

(* Of pull requests.                                                       *)
LEMMA PullRequestRows ==
  /\ Row1("listPullRequests", "GET", "repository", "pulls")
  /\ Row1("createPullRequest", "POST", "repository", "pulls")
  /\ Row2("getPullRequest", "GET", "repository", "pulls", ":number")
  /\ Row2("updatePullRequest", "PATCH", "repository", "pulls", ":number")
  /\ Row3("listPullRequestFiles", "GET", "repository", "pulls", ":number", "files")
  /\ Row3("listPullRequestReviews", "GET", "repository", "pulls", ":number", "reviews")
  /\ Row3("submitPullRequestReview", "POST", "repository", "pulls", ":number", "reviews")
  /\ Row3("getPullRequestChecks", "GET", "repository", "pulls", ":number", "checks")
  /\ Row3("mergePullRequest", "POST", "repository", "pulls", ":number", "merge")
  BY RoutesAre, TablesAre
  DEF PullRequestRoutes, Method, Under, Rest, More, At, Row, Row0, Row1, Row2, Row3, Row4,
      Rest0, Rest1, Rest2, Rest3, Rest4

(* Of what a repository publishes.                                         *)
LEMMA PublicationRows ==
  /\ Row1("listReleases", "GET", "repository", "releases")
  /\ Row1("createRelease", "POST", "repository", "releases")
  /\ Row1("listDiscussions", "GET", "repository", "discussions")
  /\ Row1("createDiscussion", "POST", "repository", "discussions")
  /\ Row2("listWikiPages", "GET", "repository", "wiki", "pages")
  /\ Row2("createWikiPage", "POST", "repository", "wiki", "pages")
  BY RoutesAre, TablesAre
  DEF PublicationRoutes, Method, Under, Rest, More, At, Row, Row0, Row1, Row2, Row3, Row4,
      Rest0, Rest1, Rest2, Rest3, Rest4

(* Of its projects and workflows.                                          *)
LEMMA AutomationRows ==
  /\ Row1("listProjects", "GET", "repository", "projects")
  /\ Row1("createProject", "POST", "repository", "projects")
  /\ Row1("listWorkflows", "GET", "repository", "workflows")
  /\ Row3("dispatchWorkflow", "POST", "repository", "workflows", ":workflowId", "dispatch")
  /\ Row1("listWorkflowRuns", "GET", "repository", "runs")
  /\ Row2("getWorkflowRun", "GET", "repository", "runs", ":runId")
  /\ Row2("cancelWorkflowRun", "DELETE", "repository", "runs", ":runId")
  /\ Row1("getSecurityOverview", "GET", "repository", "security")
  /\ Row1("getRepositoryInsights", "GET", "repository", "insights")
  BY RoutesAre, TablesAre
  DEF AutomationRoutes, Method, Under, Rest, More, At, Row, Row0, Row1, Row2, Row3, Row4,
      Rest0, Rest1, Rest2, Rest3, Rest4

(* Of its settings.                                                        *)
LEMMA SettingsRows ==
  /\ Row2("getRepositoryAccess", "GET", "repository", "settings", "access")
  /\ Row2("replaceRepositoryAccess", "PUT", "repository", "settings", "access")
  /\ Row2("getRepositoryCache", "GET", "repository", "settings", "cache")
  /\ Row2("updateRepositoryCachePolicy", "PUT", "repository", "settings", "cache")
  /\ Row3("invalidateRepositoryCache", "POST", "repository", "settings", "cache", "invalidate")
  /\ Row2("listRepositoryRules", "GET", "repository", "settings", "rules")
  /\ Row2("listWebhooks", "GET", "repository", "settings", "hooks")
  /\ Row2("createWebhook", "POST", "repository", "settings", "hooks")
  BY RoutesAre, TablesAre
  DEF SettingsRoutes, Method, Under, Rest, More, At, Row, Row0, Row1, Row2, Row3, Row4,
      Rest0, Rest1, Rest2, Rest3, Rest4

(* Of what happens elsewhere.                                              *)
LEMMA ActivityRows ==
  /\ Row1("listNotifications", "GET", "instance", "notifications")
  /\ Row1("markNotificationsRead", "PATCH", "instance", "notifications")
  /\ Row1("search", "GET", "instance", "search")
  /\ Row2("streamEvents", "GET", "instance", "events", "stream")
  BY RoutesAre, TablesAre
  DEF ActivityRoutes, Method, Under, Rest, More, At, Row, Row0, Row1, Row2, Row3, Row4,
      Rest0, Rest1, Rest2, Rest3, Rest4

(* No path goes on for more than four segments after what it is under.     *)
LEMMA RestsAre ==
  ASSUME NEW op \in Operations
  PROVE  \/ Rest0(op) \/ Rest1(op) \/ Rest2(op) \/ Rest3(op) \/ Rest4(op)
  BY OperationsAre, TablesAre, AccountRows, PeopleRows, RepositoryRows, GitRows, IssueRows,
     PullRequestRows, PublicationRows, AutomationRows, SettingsRows, ActivityRows
  DEF Row0, Row1, Row2, Row3, Row4

(* The words of the paths.                                                 *)
Words ==
  {"users", ":username", "organizations", ":org", "repositories", ":owner", ":repo"}
    \cup {At(op, i) : op \in Operations, i \in 1..4}

(* What follows is a sequence of words.                                    *)
LEMMA Rests ==
  ASSUME NEW op \in Operations
  PROVE  Rest(op) \in Seq(Words)
  <1>1. At(op, 1) \in Words /\ At(op, 2) \in Words /\ At(op, 3) \in Words /\ At(op, 4) \in Words
    BY DEF Words
  <1>2. CASE Rest0(op)
    BY <1>2 DEF Rest0
  <1>3. CASE Rest1(op)
    BY <1>1, <1>3 DEF Rest1
  <1>4. CASE Rest2(op)
    <2>1. <<At(op, 1), At(op, 2)>> \in [1..2 -> Words]
      BY <1>1
    <2> QED
      BY <1>4, <2>1 DEF Rest2
  <1>5. CASE Rest3(op)
    <2>1. <<At(op, 1), At(op, 2), At(op, 3)>> \in [1..3 -> Words]
      BY <1>1
    <2> QED
      BY <1>5, <2>1 DEF Rest3
  <1>6. CASE Rest4(op)
    <2>1. <<At(op, 1), At(op, 2), At(op, 3), At(op, 4)>> \in [1..4 -> Words]
      BY <1>1
    <2> QED
      BY <1>6, <2>1 DEF Rest4
  <1> QED
    BY <1>2, <1>3, <1>4, <1>5, <1>6, RestsAre

(* What the paths have in common, and what keeps those of one kind apart   *)
(* from those of another.                                                  *)
LEMMA Shapes ==
  ASSUME NEW op \in Operations
  PROVE  /\ More(op) \in 0..4
         /\ Under(op) \in {"instance", "user", "organization", "repository"}
         /\ Under(op) = "instance" =>
              /\ More(op) > 0
              /\ At(op, 1) \notin Parameters \cup {"users", "organizations"}
              /\ At(op, 1) = "repositories" => More(op) = 1
         /\ Under(op) \in {"user", "organization"} => More(op) <= 1
         /\ Under(op) = "repository" /\ More(op) > 2 => At(op, 1) \notin Parameters \cup {"tree"}
  BY OperationsAre, TablesAre, AccountRows, PeopleRows, RepositoryRows, GitRows, IssueRows,
     PullRequestRows, PublicationRows, AutomationRows, SettingsRows, ActivityRows
  DEF Row, Row0, Row1, Row2, Row3, Row4, Parameters

(* A character that separates the parts of a URL is in no template.        *)
LEMMA Plain ==
  ASSUME NEW op \in Operations, NEW i \in 1..More(op)
  PROVE  At(op, i) \notin {"/", "#", "%2F", "%23"}
  BY OperationsAre, TablesAre, AccountRows, PeopleRows, RepositoryRows, GitRows, IssueRows,
     PullRequestRows, PublicationRows, AutomationRows, SettingsRows, ActivityRows
  DEF Row, Row0, Row1, Row2, Row3, Row4

(* Two segments that the same segment of a request could be for.           *)
Agree(a, b) == a \in Parameters \/ b \in Parameters \/ a = b

(* No two entries of the tables agree in every place.                      *)
LEMMA RowsDiffer ==
  ASSUME NEW op \in Operations, NEW other \in Operations,
         Method(op) = Method(other), Under(op) = Under(other), More(op) = More(other),
         More(op) > 0 => Agree(At(op, 1), At(other, 1)),
         More(op) > 1 => Agree(At(op, 2), At(other, 2)),
         More(op) > 2 => Agree(At(op, 3), At(other, 3)),
         More(op) > 3 => Agree(At(op, 4), At(other, 4))
  PROVE  op = other
  BY OperationsAre, TablesAre, AccountRows, PeopleRows, RepositoryRows, GitRows, IssueRows,
     PullRequestRows, PublicationRows, AutomationRows, SettingsRows, ActivityRows
  DEF Row, Row0, Row1, Row2, Row3, Row4, Parameters, Agree

(* The whole templates.                                                    *)
LEMMA Templates ==
  ASSUME NEW op \in Operations
  PROVE  /\ Template(op) \in Seq(Words)
         /\ Under(op) = "instance" =>
              /\ Len(Template(op)) = More(op)
              /\ \A i \in 1..More(op) : Template(op)[i] = At(op, i)
         /\ Under(op) = "user" =>
              /\ Len(Template(op)) = More(op) + 2
              /\ Template(op)[1] = "users" /\ Template(op)[2] = ":username"
              /\ \A i \in 1..More(op) : Template(op)[i + 2] = At(op, i)
         /\ Under(op) = "organization" =>
              /\ Len(Template(op)) = More(op) + 2
              /\ Template(op)[1] = "organizations" /\ Template(op)[2] = ":org"
              /\ \A i \in 1..More(op) : Template(op)[i + 2] = At(op, i)
         /\ Under(op) = "repository" =>
              /\ Len(Template(op)) = More(op) + 3
              /\ Template(op)[1] = "repositories"
              /\ Template(op)[2] = ":owner" /\ Template(op)[3] = ":repo"
              /\ \A i \in 1..More(op) : Template(op)[i + 3] = At(op, i)
  <1>1. Rest(op) \in Seq(Words)
    BY Rests
  <1>2. CASE Under(op) = "instance"
    <2>1. Template(op) = <<>> \o Rest(op)
      BY <1>2 DEF Template, Base, Under, Rest
    <2> QED
      BY <1>1, <1>2, <2>1 DEF More, At
  <1>3. CASE Under(op) = "user"
    <2>1. Template(op) = <<"users", ":username">> \o Rest(op)
      BY <1>3 DEF Template, Base, Under, Rest
    <2>2. <<"users", ":username">> \in [1..2 -> Words]
      BY DEF Words
    <2> QED
      BY <1>1, <1>3, <2>1, <2>2 DEF More, At
  <1>4. CASE Under(op) = "organization"
    <2>1. Template(op) = <<"organizations", ":org">> \o Rest(op)
      BY <1>4 DEF Template, Base, Under, Rest
    <2>2. <<"organizations", ":org">> \in [1..2 -> Words]
      BY DEF Words
    <2> QED
      BY <1>1, <1>4, <2>1, <2>2 DEF More, At
  <1>5. CASE Under(op) = "repository"
    <2>1. Template(op) = <<"repositories", ":owner", ":repo">> \o Rest(op)
      BY <1>5 DEF Template, Base, Under, Rest
    <2>2. <<"repositories", ":owner", ":repo">> \in [1..3 -> Words]
      BY DEF Words
    <2> QED
      BY <1>1, <1>5, <2>1, <2>2 DEF More, At
  <1> QED
    BY <1>2, <1>3, <1>4, <1>5, Shapes

(* The first word of a path says what it is under, but for the list of the *)
(* repositories, and that is the only path of one word that starts so.     *)
LEMMA FirstWords ==
  ASSUME NEW op \in Operations
  PROVE  /\ Len(Template(op)) \in Nat \ {0}
         /\ Under(op) = "instance" =>
              /\ Template(op)[1] \notin Parameters \cup {"users", "organizations"}
              /\ Template(op)[1] = "repositories" => Len(Template(op)) = 1
         /\ Under(op) = "user" => Template(op)[1] = "users"
         /\ Under(op) = "organization" => Template(op)[1] = "organizations"
         /\ Under(op) = "repository" => Template(op)[1] = "repositories" /\ Len(Template(op)) > 1
  <1>1. CASE Under(op) = "instance"
    <2>1. Len(Template(op)) = More(op) /\ More(op) > 0 /\ Template(op)[1] = At(op, 1)
      BY <1>1, Shapes, Templates
    <2> QED
      BY <1>1, <2>1, Shapes
  <1>2. CASE Under(op) = "user"
    BY <1>2, Shapes, Templates
  <1>3. CASE Under(op) = "organization"
    BY <1>3, Shapes, Templates
  <1>4. CASE Under(op) = "repository"
    BY <1>4, Shapes, Templates
  <1> QED
    BY <1>1, <1>2, <1>3, <1>4, Shapes

(* No request for one operation is a request for another.                  *)
LEMMA TemplatesDiffer ==
  ASSUME NEW op \in Operations, NEW other \in Operations,
         Method(op) = Method(other), Len(Template(op)) = Len(Template(other)),
         \A i \in DOMAIN Template(op) : Agree(Template(op)[i], Template(other)[i])
  PROVE  op = other
  <1>1. \A i \in 1..Len(Template(op)) : Agree(Template(op)[i], Template(other)[i])
    BY Templates
  <1>2. Agree(Template(op)[1], Template(other)[1])
    BY <1>1, FirstWords
  <1>3. {"users", "organizations", "repositories"} \cap Parameters = {}
    BY DEF Parameters
  <1>4. Under(op) = Under(other)
    BY <1>2, <1>3, FirstWords, Shapes DEF Agree
  <1>5. PICK n \in {0, 2, 3} :
          /\ Len(Template(op)) = More(op) + n /\ Len(Template(other)) = More(other) + n
          /\ \A i \in 1..More(op) : Template(op)[i + n] = At(op, i)
          /\ \A i \in 1..More(other) : Template(other)[i + n] = At(other, i)
    <2>1. CASE Under(op) = "instance"
      <3>1. /\ Len(Template(op)) = More(op) /\ Len(Template(other)) = More(other)
            /\ \A i \in 1..More(op) : Template(op)[i] = At(op, i)
            /\ \A i \in 1..More(other) : Template(other)[i] = At(other, i)
        BY <1>4, <2>1, Templates
      <3>2. More(op) \in Nat /\ More(other) \in Nat
        BY Shapes
      <3>3. More(op) + 0 = More(op) /\ More(other) + 0 = More(other)
        BY <3>2
      <3>4. \A i \in Nat : i + 0 = i
        OBVIOUS
      <3>5. \A i \in 1..More(op) : Template(op)[i + 0] = At(op, i)
        BY <3>1, <3>2, <3>4
      <3>6. \A i \in 1..More(other) : Template(other)[i + 0] = At(other, i)
        BY <3>1, <3>2, <3>4
      <3> QED
        BY <3>1, <3>3, <3>5, <3>6
    <2>2. CASE Under(op) \in {"user", "organization"}
      BY <1>4, <2>2, Shapes, Templates
    <2>3. CASE Under(op) = "repository"
      BY <1>4, <2>3, Shapes, Templates
    <2> QED
      BY <2>1, <2>2, <2>3, Shapes
  <1>6. More(op) = More(other)
    <2>1. More(op) \in 0..4 /\ More(other) \in 0..4 /\ More(op) + n = More(other) + n
      BY <1>5, Shapes
    <2> QED
      BY <2>1
  <1>7. \A i \in 1..More(op) : Agree(At(op, i), At(other, i))
    <2> TAKE i \in 1..More(op)
    <2>1. i + n \in 1..Len(Template(op))
      BY <1>5, Shapes
    <2> QED
      BY <1>1, <1>5, <1>6, <2>1
  <1> QED
    BY <1>4, <1>6, <1>7, Shapes, RowsDiffer

----------------------------------------------------------------------------
(* From a call to its URL and back.                                        *)

Pieces == STRING \cup Words \cup {"/", "#", "%2F", "%23", "value"}
RefsOf(op) == IF \E i \in DOMAIN Template(op) : Holds(Template(op)[i]) THEN Refs ELSE {<<>>}

(* Nothing of a value without a "#" is cut off.                            *)
LEMMA WholeValue ==
  ASSUME NEW S, NEW value \in Seq(S), "#" \notin ToSet(value)
  PROVE  UpTo("#", value) = value
  <1>1. {i \in DOMAIN value : value[i] = "#"} = {}
    BY DEF ToSet
  <1>2. Place("#", value) = Len(value) + 1
    BY <1>1 DEF Place, Min
  <1> QED
    BY <1>2 DEF UpTo

(* An encoded name has no separator, and decoding it gives it back.        *)
LEMMA NamesComeBack ==
  ASSUME NEW ref \in Refs
  PROVE  /\ Encode(ref) \in Seq(Pieces)
         /\ "#" \notin ToSet(Encode(ref))
         /\ Decode(Encode(ref)) = ref
  <1>1. ref \in Seq(STRING) /\ \A i \in DOMAIN ref : ref[i] \notin {"%2F", "%23"}
    BY RefsAssumption DEF ToSet
  <1>2. Encode(ref) \in [1..Len(ref) -> Pieces]
    BY <1>1 DEF Encode, Pieces
  <1>3. "#" \notin ToSet(Encode(ref))
    BY <1>1 DEF Encode, ToSet
  <1>4. Decode(Encode(ref)) = [i \in DOMAIN ref |-> ref[i]]
    BY <1>1 DEF Encode, Decode
  <1>5. Len(ref) \in Nat
    BY <1>1
  <1> QED
    BY <1>1, <1>2, <1>3, <1>4, <1>5

(* A word that is neither is left alone by decoding.                       *)
LEMMA WordsComeBack ==
  ASSUME NEW word \in Pieces, word \notin {"/", "#", "%2F", "%23"}
  PROVE  /\ <<word>> \in Seq(Pieces)
         /\ ToSet(<<word>>) = {word}
         /\ Decode(<<word>>) = <<word>>
  <1>1. ToSet(<<word>>) = {word}
    BY DEF ToSet
  <1>2. Decode(<<word>>) = <<word>>
    BY DEF Decode
  <1> QED
    BY <1>1, <1>2

(* No segment of a template is a separator or an escape.                   *)
LEMMA PlainTemplates ==
  ASSUME NEW op \in Operations, NEW i \in DOMAIN Template(op)
  PROVE  Template(op)[i] \in Words \ {"/", "#", "%2F", "%23"}
  <1>1. i \in 1..Len(Template(op)) /\ Template(op)[i] \in Words
    BY Templates
  <1>2. CASE Under(op) = "instance"
    BY <1>1, <1>2, Templates, Plain
  <1>3. CASE Under(op) = "user"
    <2>1. i = 1 \/ i = 2 \/ (i - 2 \in 1..More(op) /\ i = (i - 2) + 2)
      BY <1>1, <1>3, Shapes, Templates
    <2> QED
      BY <1>1, <1>3, <2>1, Templates, Plain
  <1>4. CASE Under(op) = "organization"
    <2>1. i = 1 \/ i = 2 \/ (i - 2 \in 1..More(op) /\ i = (i - 2) + 2)
      BY <1>1, <1>4, Shapes, Templates
    <2> QED
      BY <1>1, <1>4, <2>1, Templates, Plain
  <1>5. CASE Under(op) = "repository"
    <2>1. i = 1 \/ i = 2 \/ i = 3 \/ (i - 3 \in 1..More(op) /\ i = (i - 3) + 3)
      BY <1>1, <1>5, Shapes, Templates
    <2> QED
      BY <1>1, <1>5, <2>1, Templates, Plain
  <1> QED
    BY <1>2, <1>3, <1>4, <1>5, Shapes

(* What is meant by a segment of a request, before it is encoded.          *)
Meant(op, ref) ==
  [i \in DOMAIN Template(op) |->
     IF Holds(Template(op)[i]) THEN ref
     ELSE IF Template(op)[i] \in Parameters THEN <<"value">> ELSE <<Template(op)[i]>>]

(* A segment of a request has no separator, and is decoded to what was meant. *)
LEMMA SegmentsComeBack ==
  ASSUME NEW op \in Operations, NEW ref \in RefsOf(op), NEW i \in DOMAIN Template(op)
  PROVE  /\ Filled(Template(op)[i], ref) \in Seq(Pieces)
         /\ "#" \notin ToSet(Filled(Template(op)[i], ref))
         /\ Decode(Filled(Template(op)[i], ref)) = Meant(op, ref)[i]
  <1>1. CASE Holds(Template(op)[i])
    <2>1. ref \in Refs
      BY <1>1 DEF RefsOf
    <2> QED
      BY <1>1, <2>1, NamesComeBack DEF Filled, Meant
  <1>2. CASE ~Holds(Template(op)[i]) /\ Template(op)[i] \in Parameters
    <2>1. "value" \in Pieces /\ "value" \notin {"/", "#", "%2F", "%23"}
      BY DEF Pieces
    <2> QED
      BY <1>2, <2>1, WordsComeBack DEF Filled, Meant
  <1>3. CASE ~Holds(Template(op)[i]) /\ Template(op)[i] \notin Parameters
    <2>1. Template(op)[i] \in Pieces /\ Template(op)[i] \notin {"/", "#", "%2F", "%23"}
      BY PlainTemplates DEF Pieces
    <2> QED
      BY <1>3, <2>1, WordsComeBack DEF Filled, Meant
  <1> QED
    BY <1>1, <1>2, <1>3

(* Nothing of a URL is cut off, and its segments decode to what was meant. *)
LEMMA UrlsComeBack ==
  ASSUME NEW op \in Operations, NEW ref \in RefsOf(op)
  PROVE  [i \in DOMAIN Url(op, ref) |-> Decode(Url(op, ref)[i])] = Meant(op, ref)
  <1> DEFINE path == [i \in DOMAIN Template(op) |-> Filled(Template(op)[i], ref)]
             last == Min({i \in DOMAIN path : "#" \in ToSet(path[i])} \cup {Len(path)})
  <1>1. DOMAIN Template(op) = 1..Len(Template(op)) /\ Len(Template(op)) \in Nat
    BY Templates
  <1>2. Len(path) = Len(Template(op))
    BY <1>1
  <1>3. {i \in DOMAIN path : "#" \in ToSet(path[i])} = {}
    BY SegmentsComeBack
  <1>4. last = Len(Template(op))
    <2>1. {i \in DOMAIN path : "#" \in ToSet(path[i])} \cup {Len(path)} = {Len(Template(op))}
      BY <1>2, <1>3
    <2>2. Min({Len(Template(op))}) = Len(Template(op))
      BY <1>1 DEF Min
    <2> QED
      BY <2>1, <2>2
  <1>5. \A i \in 1..Len(Template(op)) : UpTo("#", path[i]) = path[i]
    BY <1>1, SegmentsComeBack, WholeValue
  <1>6. Url(op, ref) = [i \in 1..last |-> UpTo("#", path[i])]
    BY DEF Url
  <1> HIDE DEF last
  <1>7. Url(op, ref) = [i \in 1..Len(Template(op)) |-> path[i]]
    <2>1. Url(op, ref) = [i \in 1..Len(Template(op)) |-> UpTo("#", path[i])]
      BY <1>4, <1>6
    <2> HIDE DEF path
    <2> QED
      BY <1>5, <2>1
  <1>8. \A i \in DOMAIN Template(op) : Decode(path[i]) = Meant(op, ref)[i]
    BY SegmentsComeBack
  <1> QED
    BY <1>1, <1>7, <1>8 DEF Meant

(* A path names a branch in its fifth and last segment, and only           *)
(* getTree's does of those this repository's server has.                   *)
LEMMA Branches ==
  ASSUME NEW op \in Operations, NEW i \in 1..More(op), Holds(At(op, i))
  PROVE  /\ Under(op) = "repository" /\ i = 2 /\ More(op) = 2
         /\ op \in Served => At(op, 1) = "tree"
  BY OperationsAre, TablesAre, AccountRows, PeopleRows, RepositoryRows, GitRows, IssueRows,
     PullRequestRows, PublicationRows, AutomationRows, SettingsRows, ActivityRows
  DEF Row, Row0, Row1, Row2, Row3, Row4, Holds, Served, PullRequestInputs

(* The same of the whole path.                                             *)
LEMMA BranchesAreLast ==
  ASSUME NEW op \in Operations, NEW i \in DOMAIN Template(op), Holds(Template(op)[i])
  PROVE  /\ i = 5 /\ Len(Template(op)) = 5
         /\ op \in Served => Template(op)[4] = "tree"
  <1>1. i \in 1..Len(Template(op))
    BY Templates
  <1>2. CASE Under(op) = "instance"
    BY <1>1, <1>2, Templates, Branches
  <1>3. CASE Under(op) = "user"
    <2>1. i = 1 \/ i = 2 \/ (i - 2 \in 1..More(op) /\ i = (i - 2) + 2)
      BY <1>1, <1>3, Shapes, Templates
    <2> QED
      BY <1>1, <1>3, <2>1, Templates, Branches DEF Holds
  <1>4. CASE Under(op) = "organization"
    <2>1. i = 1 \/ i = 2 \/ (i - 2 \in 1..More(op) /\ i = (i - 2) + 2)
      BY <1>1, <1>4, Shapes, Templates
    <2> QED
      BY <1>1, <1>4, <2>1, Templates, Branches DEF Holds
  <1>5. CASE Under(op) = "repository"
    <2>1. i = 1 \/ i = 2 \/ i = 3 \/ (i - 3 \in 1..More(op) /\ i = (i - 3) + 3)
      BY <1>1, <1>5, Shapes, Templates
    <2>2. i \notin {1, 2, 3}
      BY <1>5, Templates DEF Holds
    <2>3. i - 3 \in 1..More(op) /\ Holds(At(op, i - 3))
      BY <1>1, <1>5, <2>1, <2>2, Templates
    <2>4. i - 3 = 2 /\ More(op) = 2
      BY <2>3, Branches
    <2>5. i = 5
      BY <1>1, <2>4
    <2>6. Template(op)[4] = At(op, 1)
      BY <1>5, <2>4, Templates
    <2>7. op \in Served => At(op, 1) = "tree"
      BY <2>3, Branches
    <2>8. Len(Template(op)) = More(op) + 3
      BY <1>5, Templates
    <2> QED
      BY <2>4, <2>5, <2>6, <2>7, <2>8
  <1> QED
    BY <1>2, <1>3, <1>4, <1>5, Shapes

(* What is meant for one operation is answered by that operation, about    *)
(* what it is for.                                                         *)
LEMMA MeantForOne ==
  ASSUME NEW asked \in Operations, NEW ref \in RefsOf(asked), NEW op \in Operations,
         Matches(op, Method(asked), Meant(asked, ref))
  PROVE  op = asked /\ RefIn(op, Meant(asked, ref)) = ref
  <1>1. /\ DOMAIN Template(asked) = 1..Len(Template(asked))
        /\ Len(Template(asked)) \in Nat
    BY Templates
  <1>2. /\ Len(Meant(asked, ref)) = Len(Template(asked))
        /\ DOMAIN Meant(asked, ref) = DOMAIN Template(asked)
    BY <1>1 DEF Meant
  <1>3. ASSUME NEW i \in DOMAIN Template(asked)
        PROVE  Agree(Template(asked)[i], Template(op)[i])
    <2>1. Template(op)[i] \in Parameters \/ Meant(asked, ref)[i] = <<Template(op)[i]>>
      BY <1>2 DEF Matches
    <2>2. CASE Template(asked)[i] \in Parameters \/ Template(op)[i] \in Parameters
      BY <2>2 DEF Agree
    <2>3. CASE Template(asked)[i] \notin Parameters /\ Meant(asked, ref)[i] = <<Template(op)[i]>>
      <3>1. Meant(asked, ref)[i] = <<Template(asked)[i]>>
        BY <2>3 DEF Meant, Holds, Parameters
      <3>2. <<Template(asked)[i]>>[1] = <<Template(op)[i]>>[1]
        BY <2>3, <3>1
      <3> QED
        BY <3>2 DEF Agree
    <2> QED
      BY <2>1, <2>2, <2>3
  <1>4. op = asked
    BY <1>2, <1>3, TemplatesDiffer DEF Matches
  <1>5. CASE \E i \in DOMAIN Template(asked) : Holds(Template(asked)[i])
    <2>1. /\ {i \in DOMAIN Meant(asked, ref) : Holds(Template(asked)[i])} = {5}
          /\ 5 \in DOMAIN Template(asked)
      BY <1>2, <1>5, BranchesAreLast
    <2>2. Min({5}) = 5
      BY DEF Min
    <2>3. Meant(asked, ref)[5] = ref
      BY <2>1 DEF Meant
    <2> QED
      BY <1>4, <2>1, <2>2, <2>3 DEF RefIn
  <1>6. CASE ~\E i \in DOMAIN Template(asked) : Holds(Template(asked)[i])
    <2>1. {i \in DOMAIN Meant(asked, ref) : Holds(Template(asked)[i])} = {}
      BY <1>2, <1>6
    <2>2. ref = <<>>
      BY <1>6 DEF RefsOf
    <2> QED
      BY <1>4, <2>1, <2>2 DEF RefIn
  <1> QED
    BY <1>4, <1>5, <1>6

(* Decoded before it is matched, a branch with slashes is two segments or  *)
(* more.                                                                   *)
LEMMA SlashesPart ==
  ASSUME NEW S, NEW value \in Seq(S), "/" \in ToSet(value)
  PROVE  /\ Len(Parts(value)) \in Nat /\ Len(Parts(value)) >= 2
         /\ Parts(value) = [k \in 1..Len(Parts(value)) |-> Parts(value)[k]]
  <1> DEFINE cuts == {0} \cup {i \in DOMAIN value : value[i] = "/"}
  <1>1. PICK j \in DOMAIN value : value[j] = "/"
    BY DEF ToSet
  <1>2. j \in 1..Len(value) /\ Len(value) \in Nat
    OBVIOUS
  <1>3. cuts \subseteq 0..Len(value)
    OBVIOUS
  <1>4. IsFiniteSet(cuts)
    <2>1. IsFiniteSet(0..Len(value))
      BY <1>2, FS_Interval
    <2> HIDE DEF cuts
    <2> QED
      BY <1>3, <2>1, FS_Subset
  <1> DEFINE both == {0} \cup {j}
  <1>5. IsFiniteSet({0}) /\ Cardinality({0}) = 1
    BY FS_Singleton
  <1>6. Cardinality(both) = 2
    <2>1. Cardinality(both) = IF j \in {0} THEN Cardinality({0}) ELSE Cardinality({0}) + 1
      BY <1>5, FS_AddElement
    <2>2. j \notin {0}
      BY <1>2
    <2> HIDE DEF both
    <2>3. Cardinality(both) = Cardinality({0}) + 1
      BY <2>1, <2>2
    <2>4. Cardinality(both) = 1 + 1
      BY <1>5, <2>3
    <2> QED
      BY <2>4
  <1>7. both \subseteq cuts
    BY <1>1
  <1>8. Cardinality(cuts) \in Nat /\ Cardinality(cuts) >= 2
    <2> HIDE DEF cuts, both
    <2> QED
      BY <1>4, <1>6, <1>7, FS_Subset, FS_CardinalityType
  <1>9. Parts(value) = [k \in 1..Cardinality(cuts) |-> Parts(value)[k]]
    BY DEF Parts
  <1> HIDE DEF cuts
  <1> QED
    BY <1>8, <1>9

(* And then the path has a segment too many: nothing is asked.             *)
LEMMA SlashesMatchNothing ==
  ASSUME NEW asked \in Served, asked \in Operations, NEW ref \in RefsOf(asked), adapter = "mock",
         "/" \in ToSet(ref), NEW op \in Operations
  PROVE  ~Matches(op, Method(asked), Segments(Url(asked, ref)))
  <1> DEFINE url == Url(asked, ref)
             path == [i \in DOMAIN url |-> Decode(url[i])]
             slashed == {i \in DOMAIN path : "/" \in ToSet(path[i])}
             at == Min(slashed)
  <1>0. Segments(url) =
          IF adapter = "conforming" \/ slashed = {} THEN path
          ELSE SubSeq(path, 1, at - 1) \o Parts(path[at]) \o SubSeq(path, at + 1, Len(path))
    BY Zenon DEF Segments
  <1>1. path = Meant(asked, ref)
    BY UrlsComeBack
  <1> HIDE DEF path
  <1>2. PICK j \in DOMAIN Template(asked) : Holds(Template(asked)[j])
    BY DEF RefsOf, ToSet
  <1>3. j = 5 /\ Len(Template(asked)) = 5 /\ Template(asked)[4] = "tree"
    BY <1>2, BranchesAreLast
  <1>4. DOMAIN Template(asked) = 1..5
    BY <1>3, Templates
  <1>5. path[5] = ref /\ path[4] = <<"tree">>
    BY <1>1, <1>2, <1>3, <1>4 DEF Meant, Holds, Parameters
  <1>6. slashed = {5}
    <2>1. ASSUME NEW i \in 1..4
          PROVE  "/" \notin ToSet(path[i])
      <3>1. ~Holds(Template(asked)[i])
        BY <1>4, BranchesAreLast
      <3>2. Template(asked)[i] # "/"
        BY <1>4, PlainTemplates
      <3>3. path[i] = <<"value">> \/ path[i] = <<Template(asked)[i]>>
        BY <1>1, <1>4, <3>1 DEF Meant
      <3>4. ToSet(<<"value">>) = {"value"} /\ ToSet(<<Template(asked)[i]>>) = {Template(asked)[i]}
        BY DEF ToSet
      <3> QED
        BY <3>2, <3>3, <3>4
    <2>2. DOMAIN path = 1..5
      BY <1>1, <1>4 DEF Meant
    <2> QED
      BY <1>5, <2>1, <2>2
  <1>7. Min({5}) = 5
    BY DEF Min
  <1>8. Segments(url) = SubSeq(path, 1, 4) \o Parts(ref) \o SubSeq(path, 6, 5)
    <2>1. Len(path) = 5
      BY <1>1, <1>4 DEF Meant
    <2>2. at = 5 /\ slashed # {}
      BY <1>6, <1>7
    <2>3. Segments(url) =
            SubSeq(path, 1, at - 1) \o Parts(path[at]) \o SubSeq(path, at + 1, Len(path))
      <3> HIDE DEF slashed, at, url
      <3> QED
        BY <1>0, <2>2
    <2> HIDE DEF slashed, at, url
    <2> QED
      BY <1>5, <2>1, <2>2, <2>3
  <1> DEFINE S == {path[i] : i \in 1..4} \cup {Parts(ref)[k] : k \in 1..Len(Parts(ref))}
  <1>9. ref \in Seq(STRING)
    BY <1>2, RefsAssumption DEF RefsOf
  <1>10. /\ Len(Parts(ref)) \in Nat /\ Len(Parts(ref)) >= 2
         /\ Parts(ref) = [k \in 1..Len(Parts(ref)) |-> Parts(ref)[k]]
    BY <1>9, SlashesPart
  <1>11. Parts(ref) \in Seq(S)
    <2>1. \A k \in 1..Len(Parts(ref)) : Parts(ref)[k] \in S
      OBVIOUS
    <2> HIDE DEF S
    <2>2. Parts(ref) \in [1..Len(Parts(ref)) -> S]
      BY <1>10, <2>1
    <2> QED
      BY <1>10, <2>2, SeqDef
  <1>12. \A i \in 1..4 : path[i] \in S
    OBVIOUS
  <1> HIDE DEF S
  <1>13. /\ SubSeq(path, 1, 4) \in Seq(S) /\ Len(SubSeq(path, 1, 4)) = 4
         /\ SubSeq(path, 1, 4)[4] = path[4]
    BY <1>12, SubSeqProperties
  <1>14. SubSeq(path, 6, 5) = <<>>
    BY SubSeqEmpty
  <1>15. (SubSeq(path, 1, 4) \o Parts(ref)) \o <<>> = SubSeq(path, 1, 4) \o Parts(ref)
    BY <1>11, <1>13
  <1>16. /\ Len(Segments(url)) = 4 + Len(Parts(ref))
         /\ Segments(url)[4] = <<"tree">>
    BY <1>5, <1>8, <1>10, <1>11, <1>13, <1>14, <1>15
  <1>17. SUFFICES ASSUME Matches(op, Method(asked), Segments(url))
                  PROVE  FALSE
    OBVIOUS
  <1>18. Len(Template(op)) >= 6
    BY <1>10, <1>16, <1>17 DEF Matches
  <1>19. Template(op)[4] \notin Parameters \cup {"tree"}
    <2>1. /\ More(op) \in 0..4
          /\ Under(op) \in {"instance", "user", "organization", "repository"}
          /\ Under(op) \in {"user", "organization"} => More(op) <= 1
      BY Shapes
    <2>2. /\ Under(op) = "instance" => Len(Template(op)) = More(op)
          /\ Under(op) \in {"user", "organization"} => Len(Template(op)) = More(op) + 2
          /\ Under(op) = "repository" => Len(Template(op)) = More(op) + 3
      BY Templates
    <2> DEFINE n == Len(Template(op))
    <2>3. n >= 6
      BY <1>18
    <2> HIDE DEF n
    <2>4. Under(op) = "repository" /\ More(op) > 2
      BY <2>1, <2>2, <2>3 DEF n
    <2>5. Template(op)[1 + 3] = At(op, 1)
      BY <2>1, <2>4, Templates
    <2>6. At(op, 1) \notin Parameters \cup {"tree"}
      BY <2>4, Shapes
    <2> QED
      BY <2>5, <2>6
  <1> QED
    BY <1>16, <1>17, <1>19 DEF Matches

(* Without a slash, or to a server that decodes values after the match,    *)
(* the segments are the ones that were meant.                              *)
LEMMA SegmentsAreMeant ==
  ASSUME NEW op \in Operations, NEW ref \in RefsOf(op),
         adapter = "conforming" \/ "/" \notin ToSet(ref)
  PROVE  Segments(Url(op, ref)) = Meant(op, ref)
  <1> DEFINE url == Url(op, ref)
             path == [i \in DOMAIN url |-> Decode(url[i])]
             slashed == {i \in DOMAIN path : "/" \in ToSet(path[i])}
             at == Min(slashed)
  <1>1. Segments(url) =
          IF adapter = "conforming" \/ slashed = {} THEN path
          ELSE SubSeq(path, 1, at - 1) \o Parts(path[at]) \o SubSeq(path, at + 1, Len(path))
    BY Zenon DEF Segments
  <1>2. path = Meant(op, ref)
    BY UrlsComeBack
  <1> HIDE DEF path
  <1>3. CASE adapter = "conforming"
    <2> HIDE DEF slashed, at, url
    <2>1. Segments(url) = path
      BY <1>1, <1>3
    <2> QED
      BY <1>2, <2>1 DEF url
  <1>4. CASE "/" \notin ToSet(ref)
    <2>1. ASSUME NEW i \in DOMAIN Template(op)
          PROVE  "/" \notin ToSet(Meant(op, ref)[i])
      <3>1. Template(op)[i] # "/"
        BY PlainTemplates
      <3>2. \/ Meant(op, ref)[i] = ref
            \/ Meant(op, ref)[i] = <<"value">>
            \/ Meant(op, ref)[i] = <<Template(op)[i]>>
        BY DEF Meant
      <3>3. ToSet(<<"value">>) = {"value"} /\ ToSet(<<Template(op)[i]>>) = {Template(op)[i]}
        BY DEF ToSet
      <3> QED
        BY <1>4, <3>1, <3>2, <3>3
    <2>2. DOMAIN path = DOMAIN Template(op)
      BY <1>2 DEF Meant
    <2>3. slashed = {}
      BY <1>2, <2>1, <2>2
    <2> HIDE DEF slashed, at, url
    <2>4. Segments(url) = path
      BY <1>1, <2>3
    <2> QED
      BY <1>2, <2>4 DEF url
  <1> QED
    BY <1>3, <1>4

(* This repository's server offers operations of the contract.             *)
LEMMA ServedAreOperations == Served \subseteq Operations
  BY OperationsAre, TablesAre DEF Served, PullRequestInputs

(* So every server does.                                                   *)
LEMMA OfferedAreOperations == Offered \subseteq Operations
  BY ServedAreOperations DEF Offered, OfferedBy

(* The table of chances has the one of every state.                        *)
LEMMA StartableIs ==
  ASSUME TypeOK
  PROVE  Startable = StartableAt(adapter, signed, kinds)
  <1> DEFINE Fits(c) == c.server = adapter /\ c.session = signed /\ c.things = kinds
             mine == [server |-> adapter, session |-> signed, things |-> kinds,
                      operations |-> StartableAt(adapter, signed, kinds)]
  <1>1. UNION {{kind} \cup Needs(kind) : kind \in kinds} = kinds
    BY DEF TypeOK
  <1>2. kinds \in Possible
    BY <1>1 DEF Possible, TypeOK
  <1>3. mine \in Chances /\ Fits(mine)
    BY <1>2 DEF Chances, TypeOK
  <1>4. Startable = (CHOOSE c \in Chances : Fits(c)).operations
    BY DEF Startable
  <1> HIDE DEF mine
  <1>5. PICK c \in Chances : Fits(c) /\ Startable = c.operations
    BY <1>3, <1>4
  <1>6. c.operations = StartableAt(c.server, c.session, c.things)
    BY DEF Chances
  <1> QED
    BY <1>5, <1>6

(* What can be written is an operation of the server's.                    *)
LEMMA StartableIsOffered ==
  ASSUME TypeOK
  PROVE  Startable \subseteq Offered
  BY StartableIs DEF StartableAt, Offered

----------------------------------------------------------------------------
(* The invariant: a request's URL is its operation's and its branch's, the *)
(* answer to it is its operation's success or no operation's, and what is  *)
(* returned is what such an answer settles to.                             *)
Shaped ==
  call = [phase |-> call.phase, op |-> call.op, ref |-> call.ref, url |-> call.url,
          answer |-> call.answer, outcome |-> call.outcome]

Successes ==
  {Answered(call.op, call.ref, StatusOf(call.op), media) : media \in MediaOf(call.op)}
Interventions ==
  {Answered(None, <<>>, status, media) : status \in {200, 404}, media \in {"json", "other"}}

Progress ==
  /\ call.phase = "sent" =>
       /\ call.op \in Offered /\ call.ref \in RefsOf(call.op) /\ call.url = Url(call.op, call.ref)
  /\ call.phase = "answered" => call.op \in Operations /\ call.answer \in Successes \cup Interventions
  /\ call.phase = "done" /\ call.outcome # "failed" =>
       /\ call.op \in Operations /\ call.answer \in Successes \cup Interventions
       /\ call.answer.media # "stream" /\ call.outcome = Settled(call.answer)

IInv == TypeOK /\ Shaped /\ Progress

(* At first nothing is asked.                                              *)
LEMMA InitInvariant == Init => IInv
  <1>1. SUFFICES ASSUME Init PROVE IInv
    OBVIOUS
  <1>2. call = NoCall
    BY <1>1 DEF Init
  <1>3. TypeOK
    <2>1. Needs("repository") = {} /\ Needs("commit") = {"repository"}
      BY DEF Needs
    <2>2. kinds = {"repository", "commit"} \/ kinds = {}
      BY <1>1 DEF Init
    <2>3. kinds \subseteq Kinds /\ \A kind \in kinds : Needs(kind) \subseteq kinds
      BY <2>1, <2>2 DEF Kinds
    <2>4. call.phase = "none" /\ call.op = None /\ call.ref = <<>> /\ call.outcome = None
      BY <1>2 DEF NoCall
    <2>5. adapter \in Adapters /\ signed \in BOOLEAN
      BY <1>1 DEF Init
    <2> QED
      BY <2>3, <2>4, <2>5 DEF TypeOK
  <1>4. Shaped
    BY <1>2 DEF Shaped, NoCall
  <1>5. Progress
    BY <1>2 DEF Progress, NoCall
  <1> QED
    BY <1>3, <1>4, <1>5 DEF IInv

(* What is answered is the operation that was called, about the branch it  *)
(* was called for: no other matches the segments, before or after decoding. *)
LEMMA ServedAsAsked ==
  ASSUME IInv, call.phase = "sent", NEW op \in Offered,
         Matches(op, Method(call.op), Segments(call.url))
  PROVE  op = call.op /\ RefIn(op, Segments(call.url)) = call.ref
  <1>1. call.op \in Offered /\ call.ref \in RefsOf(call.op) /\ call.url = Url(call.op, call.ref)
    BY DEF IInv, Progress
  <1>2. call.op \in Operations /\ op \in Operations
    BY <1>1, OfferedAreOperations
  <1>3. CASE adapter = "conforming" \/ "/" \notin ToSet(call.ref)
    <2>1. Segments(call.url) = Meant(call.op, call.ref)
      BY <1>1, <1>2, <1>3, SegmentsAreMeant
    <2> QED
      BY <1>1, <1>2, <2>1, MeantForOne
  <1>4. CASE adapter # "conforming" /\ "/" \in ToSet(call.ref)
    <2>1. adapter = "mock"
      BY <1>4 DEF IInv, TypeOK, Adapters
    <2>2. call.op \in Served
      BY <1>1, <2>1 DEF Offered, OfferedBy
    <2>3. ~Matches(op, Method(call.op), Segments(call.url))
      BY <1>1, <1>2, <1>4, <2>1, <2>2, SlashesMatchNothing
    <2> QED
      BY <2>3
  <1> QED
    BY <1>3, <1>4

(* What is made is of the kinds there are.                                 *)
LEMMA MakesKinds ==
  ASSUME NEW op
  PROVE  Makes(op) \subseteq Kinds
  BY DEF Makes, Kinds

(* A call is of an operation the server has, at the URL that is meant for it. *)
LEMMA CallPreserves == ASSUME IInv, Call PROVE IInv'
  <1>1. PICK op \in Startable : \E ref \in RefsOf(op) :
          call' = [NoCall EXCEPT !.phase = "sent", !.op = op, !.ref = ref, !.url = Url(op, ref)]
    BY DEF Call, RefsOf
  <1>2. PICK ref \in RefsOf(op) :
          call' = [NoCall EXCEPT !.phase = "sent", !.op = op, !.ref = ref, !.url = Url(op, ref)]
    BY <1>1
  <1>3. op \in Offered /\ op \in Operations
    BY StartableIsOffered, OfferedAreOperations DEF IInv
  <1>4. call' = [phase |-> "sent", op |-> op, ref |-> ref, url |-> Url(op, ref),
                 answer |-> None, outcome |-> None]
    BY <1>2 DEF NoCall
  <1>5. ref \in Refs \cup {<<>>}
    BY DEF RefsOf
  <1>6. UNCHANGED <<adapter, kinds, signed>>
    BY DEF Call
  <1>7. Offered' = Offered
    BY <1>6 DEF Offered
  <1>8. TypeOK'
    BY <1>3, <1>4, <1>5, <1>6 DEF IInv, TypeOK
  <1>9. Shaped'
    BY <1>4 DEF Shaped
  <1>10. Progress'
    BY <1>3, <1>4, <1>7 DEF Progress
  <1> QED
    BY <1>8, <1>9, <1>10 DEF IInv

(* A success is the asked operation's, and alone changes the data.          *)
LEMMA ServePreserves == ASSUME IInv, Serve PROVE IInv'
  <1> DEFINE segments == Segments(call.url)
             Answer(op, media) == Answered(op, RefIn(op, segments), StatusOf(op), media)
  <1>0. PICK op \in Offered :
          /\ Matches(op, Method(call.op), segments)
          /\ \A kind \in Makes(op) : Needs(kind) \subseteq kinds
          /\ kinds' = Remaining(op)
          /\ signed' = (\/ op \in {"login", "register", "completeAuthProvider"}
                        \/ signed /\ op # "logout")
          /\ \E media \in MediaOf(op) :
               call' = [call EXCEPT !.phase = "answered", !.url = <<>>,
                                    !.answer = Answer(op, media)]
    BY DEF Serve
  <1>1. PICK media \in MediaOf(op) :
          call' = [call EXCEPT !.phase = "answered", !.url = <<>>, !.answer = Answer(op, media)]
    BY <1>0
  <1>2. call.phase = "sent" /\ adapter' = adapter
    BY DEF Serve
  <1>3. op = call.op /\ RefIn(op, Segments(call.url)) = call.ref
    BY <1>0, <1>2, ServedAsAsked
  <1>4. call' = [phase |-> "answered", op |-> call.op, ref |-> call.ref, url |-> <<>>,
                 answer |-> Answered(call.op, call.ref, StatusOf(call.op), media),
                 outcome |-> call.outcome]
    BY <1>1, <1>3 DEF IInv, Shaped
  <1>5. op \in Operations
    BY OfferedAreOperations
  <1>6. kinds' \subseteq Kinds /\ \A kind \in kinds' : Needs(kind) \subseteq kinds'
    BY <1>0, MakesKinds DEF Remaining, IInv, TypeOK
  <1>7. TypeOK'
    BY <1>0, <1>2, <1>4, <1>6 DEF IInv, TypeOK
  <1>8. Shaped'
    BY <1>4 DEF Shaped
  <1>9. call'.answer \in Successes'
    BY <1>3, <1>4 DEF Successes
  <1>10. Progress'
    BY <1>3, <1>4, <1>5, <1>9 DEF Progress
  <1> QED
    BY <1>7, <1>8, <1>10 DEF IInv

(* What no operation answers changes nothing.                              *)
LEMMA IntervenePreserves == ASSUME IInv, Intervene PROVE IInv'
  <1>1. PICK status \in {200, 404}, media \in {"json", "other"} :
          call' = [call EXCEPT !.phase = "answered",
                               !.answer = Answered(None, <<>>, status, media)]
    BY DEF Intervene
  <1>2. call.phase = "sent" /\ UNCHANGED <<adapter, kinds, signed>>
    BY DEF Intervene
  <1>3. call' = [phase |-> "answered", op |-> call.op, ref |-> call.ref, url |-> call.url,
                 answer |-> Answered(None, <<>>, status, media), outcome |-> call.outcome]
    BY <1>1 DEF IInv, Shaped
  <1>4. TypeOK'
    BY <1>2, <1>3 DEF IInv, TypeOK
  <1>5. Shaped'
    BY <1>3 DEF Shaped
  <1>6. call.op \in Operations
    BY <1>2, OfferedAreOperations DEF IInv, Progress
  <1>7. Answered(None, <<>>, status, media) \in Interventions'
    BY DEF Interventions
  <1>8. Progress'
    BY <1>3, <1>6, <1>7 DEF Progress
  <1> QED
    BY <1>4, <1>5, <1>8 DEF IInv

(* What is read is what the answer settles to.                             *)
LEMMA ReadPreserves == ASSUME IInv, Read PROVE IInv'
  <1>1. /\ call.phase = "answered" /\ call.answer.media # "stream"
        /\ call' = [call EXCEPT !.phase = "done", !.url = <<>>, !.outcome = Settled(call.answer)]
        /\ UNCHANGED <<adapter, kinds, signed>>
    BY DEF Read
  <1>2. call' = [phase |-> "done", op |-> call.op, ref |-> call.ref, url |-> <<>>,
                 answer |-> call.answer, outcome |-> Settled(call.answer)]
    BY <1>1 DEF IInv, Shaped
  <1>3. Settled(call.answer) \in {"undefined", "json", "text", "HubGitRequestError"}
    BY DEF Settled, Content
  <1>4. TypeOK'
    BY <1>1, <1>2, <1>3 DEF IInv, TypeOK
  <1>5. Shaped'
    BY <1>2 DEF Shaped
  <1>6. Successes' = Successes /\ Interventions' = Interventions
    BY <1>2 DEF Successes, Interventions
  <1>7. Progress'
    BY <1>1, <1>2, <1>6 DEF IInv, Progress
  <1> QED
    BY <1>4, <1>5, <1>7 DEF IInv

(* What fails returns nothing.                                             *)
LEMMA FailurePreserves ==
  ASSUME IInv, call' = Failed, UNCHANGED <<adapter, kinds, signed>>
  PROVE  IInv'
  <1>1. call' = [phase |-> "done", op |-> call.op, ref |-> call.ref, url |-> <<>>,
                 answer |-> None, outcome |-> "failed"]
    BY DEF Failed, IInv, Shaped
  <1>2. TypeOK'
    BY <1>1 DEF IInv, TypeOK
  <1>3. Shaped'
    BY <1>1 DEF Shaped
  <1>4. Progress'
    BY <1>1 DEF Progress
  <1> QED
    BY <1>2, <1>3, <1>4 DEF IInv

(* The next call starts afresh.                                            *)
LEMMA ReturnPreserves == ASSUME IInv, Return PROVE IInv'
  <1>1. call' = NoCall /\ UNCHANGED <<adapter, kinds, signed>>
    BY DEF Return
  <1>2. TypeOK'
    BY <1>1 DEF IInv, TypeOK, NoCall
  <1>3. Shaped'
    BY <1>1 DEF Shaped, NoCall
  <1>4. Progress'
    BY <1>1 DEF Progress, NoCall
  <1> QED
    BY <1>2, <1>3, <1>4 DEF IInv

(* What others do on the server, and the end of a session.                 *)
LEMMA OthersPreserve ==
  ASSUME IInv, UNCHANGED <<adapter, call>>, TypeOK'
  PROVE  IInv'
  <1>1. Shaped'
    BY DEF IInv, Shaped
  <1>2. Offered' = Offered /\ Successes' = Successes /\ Interventions' = Interventions
    BY DEF Offered, Successes, Interventions
  <1>3. Progress'
    BY <1>2 DEF IInv, Progress
  <1> QED
    BY <1>1, <1>3 DEF IInv

(* Every step keeps the invariant.                                         *)
LEMMA StepInvariant == IInv /\ [Next]_vars => IInv'
  <1> SUFFICES ASSUME IInv, [Next]_vars PROVE IInv'
    OBVIOUS
  <1>1. CASE Call
    BY <1>1, CallPreserves
  <1>2. CASE Serve
    BY <1>2, ServePreserves
  <1>3. CASE Intervene
    BY <1>3, IntervenePreserves
  <1>4. CASE Read
    BY <1>4, ReadPreserves
  <1>5. CASE ReadFails
    BY <1>5, FailurePreserves DEF ReadFails
  <1>6. CASE Lose
    BY <1>6, FailurePreserves DEF Lose
  <1>7. CASE Return
    BY <1>7, ReturnPreserves
  <1>8. CASE \E kind \in Kinds : Elsewhere(kind)
    <2>1. PICK kind \in Kinds : Elsewhere(kind)
      BY <1>8
    <2>2. TypeOK'
      BY <2>1 DEF Elsewhere, IInv, TypeOK
    <2> QED
      BY <2>1, <2>2, OthersPreserve DEF Elsewhere
  <1>9. CASE Expire
    <2>1. TypeOK'
      BY <1>9 DEF Expire, IInv, TypeOK
    <2> QED
      BY <1>9, <2>1, OthersPreserve DEF Expire
  <1>10. CASE UNCHANGED vars
    <2>1. TypeOK'
      BY <1>10 DEF vars, IInv, TypeOK
    <2> QED
      BY <1>10, <2>1, OthersPreserve DEF vars
  <1> QED
    BY <1>1, <1>2, <1>3, <1>4, <1>5, <1>6, <1>7, <1>8, <1>9, <1>10 DEF Next

(* What is no success is thrown, whatever its body is.                     *)
LEMMA InterventionsSettle ==
  ASSUME NEW answer \in Interventions, Settled(answer) # "HubGitRequestError"
  PROVE  answer.by = None /\ answer.status \in 200..299
  <1>1. answer.by = None /\ answer.status \in {200, 404}
    BY DEF Interventions, Answered
  <1>2. 404 \notin 200..299 /\ 200 \in 200..299
    OBVIOUS
  <1> QED
    BY <1>1, <1>2 DEF Settled

(* The invariant holds in every state of every behaviour.                  *)
THEOREM Invariance == Spec => []IInv
  BY InitInvariant, StepInvariant, PTL DEF Spec

(* The variables have their types, and what exists on the server exists    *)
(* with everything it needs: deleteRepository leaves nothing behind.       *)
THEOREM TypeCorrect == Spec => []TypeOK
  <1>1. IInv => TypeOK
    BY DEF IInv
  <1> QED
    BY <1>1, Invariance, PTL

(* HubGitClient.request: for every set of branches, however they are       *)
(* spelled, what a call returns is the answer of the operation that was    *)
(* called, about the branch it was called for, or no operation's:          *)
(* encodeURIComponent and the templates keep the requests apart, also for  *)
(* a server that decodes first.                                            *)
THEOREM AnswersAsAsked == Spec => []AnswersAreAsked
  <1>1. IInv => AnswersAreAsked
    <2> SUFFICES ASSUME IInv, call.phase = "done", call.outcome \in {"undefined", "json", "text"}
                 PROVE  \/ call.answer.by = call.op /\ call.answer.ref = call.ref
                        \/ call.answer.by = None /\ call.answer.status \in 200..299
      BY DEF AnswersAreAsked
    <2>1. call.answer \in Successes \cup Interventions /\ call.outcome = Settled(call.answer)
      BY DEF IInv, Progress
    <2>2. CASE call.answer \in Successes
      BY <2>2 DEF Successes, Answered
    <2>3. CASE call.answer \in Interventions
      BY <2>1, <2>3, InterventionsSettle
    <2> QED
      BY <2>1, <2>2, <2>3
  <1> QED
    BY <1>1, Invariance, PTL

----------------------------------------------------------------------------
(* What reading brings to a caller, and what it can then ask for.          *)

(* A type's parts that carry something, and its own handles.              *)
PartsOf(t) == Types[t] \cap TypeNames
HandlesOf(t) == Types[t] \cap Handles
Has(t, handles, parts) == HandlesOf(t) = handles /\ PartsOf(t) = parts

(* The types of each table.                                                *)
LEMMA TypeTablesAre ==
  /\ DOMAIN SystemTypes = {"ProblemDetails", "InstanceMeta"}
  /\ DOMAIN AccountTypes = {"AuthProvider", "AuthMethods", "Session", "Viewer", "User",
       "UserPage", "Organization", "Team", "TeamPage"}
  /\ DOMAIN RepositoryTypes = {"Repository", "RepositoryOwner", "RepositoryUpdate",
       "RepositoryPage", "Dashboard"}
  /\ DOMAIN GitTypes = {"GitRef", "RefPage", "GitTree", "TreeEntry", "CommitSummary",
       "GitActor", "CommitDetail", "CommitPage", "DiffFile", "DiffHunk", "DiffFilePage",
       "Comparison", "Blame"}
  /\ DOMAIN IssueTypes = {"LabelPage", "MilestonePage", "Issue", "IssuePage", "Comment",
       "CommentPage"}
  /\ DOMAIN PullRequestTypes = {"PullRequest", "PullRequestRef", "PullRequestPage",
       "CheckSuite", "CheckSuitePage", "Review", "ReviewPage", "MergeResult"}
  /\ DOMAIN PublicationTypes = {"Release", "ReleasePage", "Discussion",
       "DiscussionCategory", "DiscussionPage", "WikiPageList"}
  /\ DOMAIN AutomationTypes = {"Project", "ProjectPage", "Workflow", "WorkflowPage",
       "WorkflowRun", "WorkflowRunPage"}
  /\ DOMAIN SettingsTypes = {"RepositoryInsights", "ContributorStats",
       "RepositoryCache", "AccessSettings", "AccessGrant", "RulePage", "WebhookPage"}
  /\ DOMAIN ActivityTypes = {"Notification", "NotificationPage", "SearchResult",
       "RepositorySearchResult", "UserSearchResult", "IssueSearchResult",
       "SearchResultPage", "TimelineEvent"}
  BY DEF SystemTypes, AccountTypes, RepositoryTypes, GitTypes, IssueTypes, PullRequestTypes,
     PublicationTypes, AutomationTypes, SettingsTypes, ActivityTypes

(* Each type is what its table says.                                       *)
LEMMA TypesAre ==
  /\ \A t \in DOMAIN SystemTypes : Types[t] = SystemTypes[t]
  /\ \A t \in DOMAIN AccountTypes : Types[t] = AccountTypes[t]
  /\ \A t \in DOMAIN RepositoryTypes : Types[t] = RepositoryTypes[t]
  /\ \A t \in DOMAIN GitTypes : Types[t] = GitTypes[t]
  /\ \A t \in DOMAIN IssueTypes : Types[t] = IssueTypes[t]
  /\ \A t \in DOMAIN PullRequestTypes : Types[t] = PullRequestTypes[t]
  /\ \A t \in DOMAIN PublicationTypes : Types[t] = PublicationTypes[t]
  /\ \A t \in DOMAIN AutomationTypes : Types[t] = AutomationTypes[t]
  /\ \A t \in DOMAIN SettingsTypes : Types[t] = SettingsTypes[t]
  /\ \A t \in DOMAIN ActivityTypes : Types[t] = ActivityTypes[t]
  BY TypeTablesAre DEF Types, TypeNames

(* The handles and the parts of each type, table by table.                 *)
LEMMA SystemParts ==
  /\ Has("ProblemDetails", {}, {})
  /\ Has("InstanceMeta", {}, {})
  BY TypeTablesAre, TypesAre DEF SystemTypes, TypeNames, Handles, HandlesOf, PartsOf, Has

(* Of the types about accounts.                                            *)
LEMMA AccountParts ==
  /\ Has("AuthProvider", {"provider"}, {})
  /\ Has("AuthMethods", {}, {"AuthProvider"})
  /\ Has("Session", {"csrf"}, {"Viewer"})
  /\ Has("Viewer", {}, {"User"})
  /\ Has("User", {"username", "subject"}, {})
  /\ Has("UserPage", {}, {"User"})
  /\ Has("Organization", {"org"}, {})
  /\ Has("Team", {"subject"}, {})
  /\ Has("TeamPage", {}, {"Team"})
  BY TypeTablesAre, TypesAre DEF AccountTypes, TypeNames, Handles, HandlesOf, PartsOf, Has

(* Of those about repositories.                                            *)
LEMMA RepositoryParts ==
  /\ Has("Repository", {"repo", "ref"}, {"RepositoryOwner"})
  /\ Has("RepositoryOwner", {"owner", "org"}, {})
  /\ Has("RepositoryUpdate", {}, {})
  /\ Has("RepositoryPage", {}, {"Repository"})
  /\ Has("Dashboard", {}, {"RepositoryPage", "TimelineEvent"})
  BY TypeTablesAre, TypesAre DEF RepositoryTypes, TypeNames, Handles, HandlesOf, PartsOf, Has

(* Of those about what is in them.                                         *)
LEMMA GitParts ==
  /\ Has("GitRef", {"ref", "sha"}, {})
  /\ Has("RefPage", {}, {"GitRef"})
  /\ Has("GitTree", {"ref"}, {"TreeEntry", "CommitSummary"})
  /\ Has("TreeEntry", {}, {"CommitSummary"})
  /\ Has("CommitSummary", {"sha"}, {"GitActor"})
  /\ Has("GitActor", {}, {"User"})
  /\ Has("CommitDetail", {}, {"CommitSummary", "GitActor", "DiffFile"})
  /\ Has("CommitPage", {}, {"CommitSummary"})
  /\ Has("DiffFile", {}, {"DiffHunk"})
  /\ Has("DiffHunk", {}, {})
  /\ Has("DiffFilePage", {}, {"DiffFile"})
  /\ Has("Comparison", {}, {"CommitSummary", "DiffFile"})
  /\ Has("Blame", {}, {"CommitSummary"})
  BY TypeTablesAre, TypesAre DEF GitTypes, TypeNames, Handles, HandlesOf, PartsOf, Has

(* Of those about issues.                                                  *)
LEMMA IssueParts ==
  /\ Has("LabelPage", {}, {})
  /\ Has("MilestonePage", {}, {})
  /\ Has("Issue", {"issue"}, {"User"})
  /\ Has("IssuePage", {}, {"Issue"})
  /\ Has("Comment", {}, {"User"})
  /\ Has("CommentPage", {}, {"Comment"})
  BY TypeTablesAre, TypesAre DEF IssueTypes, TypeNames, Handles, HandlesOf, PartsOf, Has

(* Of those about pull requests.                                           *)
LEMMA PullRequestParts ==
  /\ Has("PullRequest", {"pull"}, {"User", "PullRequestRef"})
  /\ Has("PullRequestRef", {"ref", "sha", "head"}, {})
  /\ Has("PullRequestPage", {}, {"PullRequest"})
  /\ Has("CheckSuite", {}, {})
  /\ Has("CheckSuitePage", {}, {"CheckSuite"})
  /\ Has("Review", {"sha"}, {"User"})
  /\ Has("ReviewPage", {}, {"Review"})
  /\ Has("MergeResult", {"sha"}, {})
  BY TypeTablesAre, TypesAre DEF PullRequestTypes, TypeNames, Handles, HandlesOf, PartsOf, Has

(* Of those about releases, discussions and the wiki.                      *)
LEMMA PublicationParts ==
  /\ Has("Release", {}, {"User"})
  /\ Has("ReleasePage", {}, {"Release"})
  /\ Has("Discussion", {}, {"DiscussionCategory", "User"})
  /\ Has("DiscussionCategory", {"category"}, {})
  /\ Has("DiscussionPage", {}, {"Discussion"})
  /\ Has("WikiPageList", {}, {})
  BY TypeTablesAre, TypesAre DEF PublicationTypes, TypeNames, Handles, HandlesOf, PartsOf, Has

(* Of those about projects and workflows.                                  *)
LEMMA AutomationParts ==
  /\ Has("Project", {}, {})
  /\ Has("ProjectPage", {}, {"Project"})
  /\ Has("Workflow", {"workflow"}, {})
  /\ Has("WorkflowPage", {}, {"Workflow"})
  /\ Has("WorkflowRun", {"run", "sha"}, {})
  /\ Has("WorkflowRunPage", {}, {"WorkflowRun"})
  BY TypeTablesAre, TypesAre DEF AutomationTypes, TypeNames, Handles, HandlesOf, PartsOf, Has

(* Of those about settings.                                                *)
LEMMA SettingsParts ==
  /\ Has("RepositoryInsights", {}, {"ContributorStats"})
  /\ Has("ContributorStats", {}, {"User"})
  /\ Has("RepositoryCache", {}, {})
  /\ Has("AccessSettings", {}, {"AccessGrant"})
  /\ Has("AccessGrant", {"subject"}, {})
  /\ Has("RulePage", {}, {})
  /\ Has("WebhookPage", {}, {})
  BY TypeTablesAre, TypesAre DEF SettingsTypes, TypeNames, Handles, HandlesOf, PartsOf, Has

(* Of those about notifications, searches and events.                      *)
LEMMA ActivityParts ==
  /\ Has("Notification", {}, {"Repository"})
  /\ Has("NotificationPage", {}, {"Notification"})
  /\ Has("SearchResult", {}, {"RepositorySearchResult", "UserSearchResult",
       "IssueSearchResult"})
  /\ Has("RepositorySearchResult", {}, {"Repository"})
  /\ Has("UserSearchResult", {}, {"User"})
  /\ Has("IssueSearchResult", {}, {"Issue", "PullRequest"})
  /\ Has("SearchResultPage", {}, {"SearchResult"})
  /\ Has("TimelineEvent", {}, {"User"})
  BY TypeTablesAre, TypesAre DEF ActivityTypes, TypeNames, Handles, HandlesOf, PartsOf, Has

(* How deep its parts are nested.                                          *)
Depth(t) ==
  CASE t \in {"GitTree", "SearchResultPage"} -> 4
    [] t \in {"Dashboard", "TreeEntry", "CommitDetail", "CommitPage", "Comparison", "Blame",
              "NotificationPage", "SearchResult"} -> 3
    [] t \in {"Session", "RepositoryPage", "CommitSummary", "DiffFilePage", "IssuePage",
              "CommentPage", "PullRequestPage", "ReviewPage", "ReleasePage", "DiscussionPage",
              "RepositoryInsights", "Notification", "RepositorySearchResult",
              "IssueSearchResult"} -> 2
    [] t \in {"ProblemDetails", "InstanceMeta", "AuthProvider", "User", "Organization", "Team",
              "RepositoryOwner", "RepositoryUpdate", "GitRef", "DiffHunk", "LabelPage",
              "MilestonePage", "PullRequestRef", "CheckSuite", "MergeResult",
              "DiscussionCategory", "WikiPageList", "Project", "Workflow", "WorkflowRun",
              "RepositoryCache", "AccessGrant", "RulePage", "WebhookPage"} -> 0
    [] OTHER -> 1

(* No type is a part of itself, at any depth.                              *)
LEMMA TypesAreNotRecursive ==
  ASSUME NEW t \in TypeNames
  PROVE  /\ Depth(t) \in 0..4
         /\ PartsOf(t) \subseteq TypeNames
         /\ \A p \in PartsOf(t) : Depth(p) < Depth(t)
  <1>1. Depth(t) \in 0..4
    BY DEF Depth
  <1>2. PartsOf(t) \subseteq TypeNames
    BY DEF PartsOf
  <1>3. \A p \in PartsOf(t) : Depth(p) < Depth(t)
    BY TypeTablesAre, SystemParts, AccountParts, RepositoryParts, GitParts, IssueParts,
       PullRequestParts, PublicationParts, AutomationParts, SettingsParts, ActivityParts
    DEF TypeNames, Has, Depth
  <1> QED
    BY <1>1, <1>2, <1>3

(* What a type contains, given what its parts do.                          *)
Own(t) == {<<p, KindOf(p)>> : p \in Types[t] \cap Handles}
Marked(t, inner) == {<<h[1], {k \in Kinds : k \in h[2] \cup KindOf(t)}>> : h \in inner}
Opened(inside) ==
  [t \in TypeNames |-> Marked(t, Own(t) \cup UNION {inside[p] : p \in PartsOf(t)})]

(* What the types of some depth contain is settled once that of those      *)
(* below it is.                                                            *)
LEMMA OpenedAgree ==
  ASSUME NEW n \in Nat, NEW f, NEW g, \A t \in TypeNames : Depth(t) < n => f[t] = g[t]
  PROVE  \A t \in TypeNames : Depth(t) < n + 1 => Opened(f)[t] = Opened(g)[t]
  <1> SUFFICES ASSUME NEW t \in TypeNames, Depth(t) < n + 1
               PROVE  Opened(f)[t] = Opened(g)[t]
    OBVIOUS
  <1>1. \A p \in PartsOf(t) : p \in TypeNames /\ Depth(p) < n
    BY TypesAreNotRecursive
  <1>2. {f[p] : p \in PartsOf(t)} = {g[p] : p \in PartsOf(t)}
    BY <1>1
  <1> QED
    BY <1>2 DEF Opened

(* So there is a function as Contents is defined to be: what five openings *)
(* of the empty one give does not change with a sixth.                     *)
LEMMA ContentsAre ==
  /\ Contents = Opened(Contents)
  /\ Contents = [t \in TypeNames |-> Contents[t]]
  <1> DEFINE empty == [t \in TypeNames |-> {}]
             one == Opened(empty)
             two == Opened(one)
             three == Opened(two)
             four == Opened(three)
             five == Opened(four)
             six == Opened(five)
             all == CHOOSE inside : inside = Opened(inside)
  <1>1. Contents = [t \in TypeNames |-> all[t]]
    BY DEF Contents, Own, PartsOf, Marked, Opened
  <1>2. \A t \in TypeNames : Depth(t) \in 0..4
    BY TypesAreNotRecursive
  <1> HIDE DEF empty
  <1>3. five = Opened(five)
    <2>0. \A t \in TypeNames : Depth(t) < 0 => one[t] = empty[t]
      BY <1>2
    <2> HIDE DEF one
    <2>1. \A t \in TypeNames : Depth(t) < 1 => two[t] = one[t]
      BY <2>0, OpenedAgree DEF one
    <2> HIDE DEF two
    <2>2. \A t \in TypeNames : Depth(t) < 2 => three[t] = two[t]
      BY <2>1, OpenedAgree DEF two
    <2> HIDE DEF three
    <2>3. \A t \in TypeNames : Depth(t) < 3 => four[t] = three[t]
      BY <2>2, OpenedAgree DEF three
    <2> HIDE DEF four
    <2>4. \A t \in TypeNames : Depth(t) < 4 => five[t] = four[t]
      BY <2>3, OpenedAgree DEF four
    <2> HIDE DEF five
    <2>5. \A t \in TypeNames : Depth(t) < 5 => six[t] = five[t]
      BY <2>4, OpenedAgree DEF five
    <2>6. \A t \in TypeNames : six[t] = five[t]
      BY <1>2, <2>5
    <2> QED
      BY <2>6 DEF five, Opened
  <1> HIDE DEF one, two, three, four, five, six
  <1>4. all = Opened(all)
    BY <1>3
  <1>5. Contents = all
    BY <1>1, <1>4 DEF Opened
  <1> QED
    BY <1>1, <1>4, <1>5

(* What an answer carries: the type's own handles and those of its parts,  *)
(* if there are things of its kind and of theirs.                          *)
Carries(t, h, things) == \E c \in Contents[t] : c[1] = h /\ c[2] \subseteq things

(* Types wait for kinds only.                                              *)
LEMMA KindsOf == \A part : KindOf(part) \subseteq Kinds
  BY DEF KindOf, Kinds

(* So an answer carries a handle when it is the type's own or one of its   *)
(* parts carries it.                                                       *)
LEMMA ContainsIs ==
  ASSUME NEW t \in TypeNames, NEW h, NEW things
  PROVE  Carries(t, h, things) <=>
           /\ KindOf(t) \subseteq things
           /\ \/ h \in HandlesOf(t) /\ KindOf(h) \subseteq things
              \/ \E p \in PartsOf(t) : Carries(p, h, things)
  <1> DEFINE inner == Own(t) \cup UNION {Contents[p] : p \in PartsOf(t)}
  <1>1. Contents[t] = {<<i[1], {k \in Kinds : k \in i[2] \cup KindOf(t)}>> : i \in inner}
    BY ContentsAre DEF Opened, Marked
  <1>2. \A p \in PartsOf(t) : \A c \in Contents[p] : c[2] \subseteq Kinds
    <2> SUFFICES ASSUME NEW p \in PartsOf(t), NEW c \in Contents[p]
                 PROVE  c[2] \subseteq Kinds
      OBVIOUS
    <2>1. p \in TypeNames
      BY TypesAreNotRecursive
    <2> DEFINE within == Own(p) \cup UNION {Contents[q] : q \in PartsOf(p)}
    <2>2. Contents[p] = {<<i[1], {k \in Kinds : k \in i[2] \cup KindOf(p)}>> : i \in within}
      BY <2>1, ContentsAre DEF Opened, Marked
    <2> HIDE DEF within
    <2> QED
      BY <2>2
  <1>3. \A i \in inner : i[2] \subseteq Kinds
    BY <1>2, KindsOf DEF Own
  <1>4. Carries(t, h, things) <=>
          \E i \in inner : i[1] = h /\ {k \in Kinds : k \in i[2] \cup KindOf(t)} \subseteq things
    <2> DEFINE Marking(i) == <<i[1], {k \in Kinds : k \in i[2] \cup KindOf(t)}>>
    <2>1. Contents[t] = {Marking(i) : i \in inner}
      BY <1>1
    <2>2. \A i \in inner : Marking(i)[1] = i[1]
                             /\ Marking(i)[2] = {k \in Kinds : k \in i[2] \cup KindOf(t)}
      OBVIOUS
    <2> HIDE DEF inner, Marking
    <2>3. (\E c \in Contents[t] : c[1] = h /\ c[2] \subseteq things)
            <=> \E i \in inner : Marking(i)[1] = h /\ Marking(i)[2] \subseteq things
      BY <2>1
    <2> QED
      BY <2>2, <2>3 DEF Carries
  <1>5. Carries(t, h, things) <=>
          KindOf(t) \subseteq things /\ \E i \in inner : i[1] = h /\ i[2] \subseteq things
    <2>1. KindOf(t) \subseteq Kinds
      BY KindsOf
    <2> HIDE DEF inner
    <2>2. \A i \in inner :
            {k \in Kinds : k \in i[2] \cup KindOf(t)} \subseteq things <=>
              i[2] \subseteq things /\ KindOf(t) \subseteq things
      BY <1>3, <2>1
    <2>3. (\E i \in inner : i[1] = h /\ {k \in Kinds : k \in i[2] \cup KindOf(t)} \subseteq things)
            <=> \E i \in inner : i[1] = h /\ i[2] \subseteq things /\ KindOf(t) \subseteq things
      BY <2>2
    <2> QED
      BY <1>4, <2>3
  <1>6. (\E i \in Own(t) : i[1] = h /\ i[2] \subseteq things)
          <=> h \in HandlesOf(t) /\ KindOf(h) \subseteq things
    <2>1. \A i \in Own(t) : i[1] \in HandlesOf(t) /\ i[2] = KindOf(i[1])
      BY DEF Own, HandlesOf
    <2>2. h \in HandlesOf(t) => <<h, KindOf(h)>> \in Own(t)
      BY DEF Own, HandlesOf
    <2>3. <<h, KindOf(h)>>[1] = h /\ <<h, KindOf(h)>>[2] = KindOf(h)
      OBVIOUS
    <2> QED
      BY <2>1, <2>2, <2>3
  <1>7. (\E i \in UNION {Contents[p] : p \in PartsOf(t)} : i[1] = h /\ i[2] \subseteq things)
          <=> \E p \in PartsOf(t) : Carries(p, h, things)
    BY DEF Carries
  <1> QED
    BY <1>5, <1>6, <1>7

(* The kind of what a handle names.                                        *)
Denotes(h) ==
  CASE h \in {"owner", "repo"} -> {"repository"}
    [] h = "org" -> {"organization"}
    [] h = "sha" -> {"commit"}
    [] h \in {"pull", "head"} -> {"pull"}
    [] h = "category" -> {"discussion"}
    [] h \in {"issue", "workflow", "run"} -> {h}
    [] OTHER -> {}

(* The types a value of which is only ever a part of another's.            *)
Dependent == {"RepositoryOwner", "PullRequestRef", "DiscussionCategory", "MergeResult"}
Closed(things) == \A kind \in things : Needs(kind) \subseteq things
Truthful(t) ==
  \A h, things : Carries(t, h, things) /\ Closed(things) => Denotes(h) \subseteq things

(* A type whose parts name only what is there does so too.                 *)
LEMMA TruthfulIfParts ==
  ASSUME NEW t \in TypeNames \ Dependent, \A p \in PartsOf(t) \ Dependent : Truthful(p)
  PROVE  Truthful(t)
  <1> SUFFICES ASSUME NEW h, NEW things, Carries(t, h, things), Closed(things)
               PROVE  Denotes(h) \subseteq things
    BY DEF Truthful
  <1>1. KindOf(t) \subseteq things
    BY ContainsIs
  <1>2. CASE h \in HandlesOf(t) /\ KindOf(h) \subseteq things
    <2>1. h = "sha" /\ KindOf(t) \in {{"pull"}, {"run"}, {"commit"}} => "commit" \in things
      BY <1>1 DEF Closed, Needs
    <2>2. \/ h \in {"provider", "csrf", "username", "subject", "ref"}
          \/ h = "org"
          \/ h = "sha" /\ KindOf(t) \in {{"pull"}, {"run"}, {"commit"}}
          \/ h = "repo" /\ KindOf(t) = {"repository"}
          \/ h = "issue" /\ KindOf(t) = {"issue"}
          \/ h = "pull" /\ KindOf(t) = {"pull"}
          \/ h = "workflow" /\ KindOf(t) = {"workflow"}
          \/ h = "run" /\ KindOf(t) = {"run"}
      BY <1>2, TypeTablesAre, SystemParts, AccountParts, RepositoryParts, GitParts, IssueParts,
         PullRequestParts, PublicationParts, AutomationParts, SettingsParts, ActivityParts
      DEF TypeNames, Has, KindOf, Dependent
    <2>3. h = "org" => KindOf(h) = {"organization"}
      BY DEF KindOf
    <2> QED
      BY <1>1, <1>2, <2>1, <2>2, <2>3 DEF Denotes
  <1>3. CASE \E p \in PartsOf(t) \ Dependent : Carries(p, h, things)
    BY <1>3 DEF Truthful
  <1>4. ASSUME NEW p \in PartsOf(t) \cap Dependent, Carries(p, h, things)
        PROVE  Denotes(h) \subseteq things
    <2>1. \/ p = "RepositoryOwner" /\ KindOf(t) = {"repository"}
          \/ p = "PullRequestRef" /\ KindOf(t) = {"pull"}
          \/ p = "DiscussionCategory" /\ KindOf(t) = {"discussion"}
      BY TypeTablesAre, SystemParts, AccountParts, RepositoryParts, GitParts, IssueParts,
         PullRequestParts, PublicationParts, AutomationParts, SettingsParts, ActivityParts
      DEF TypeNames, Has, KindOf, Dependent
    <2>2. PartsOf(p) = {} /\ p \in TypeNames
      BY <2>1, RepositoryParts, PullRequestParts, PublicationParts, TypesAreNotRecursive DEF Has
    <2>3. h \in HandlesOf(p) /\ KindOf(h) \subseteq things
      BY <1>4, <2>2, ContainsIs
    <2>4. \/ h \in {"owner", "org"} /\ "repository" \in things
          \/ h \in {"ref", "sha", "head"} /\ "pull" \in things
          \/ h = "category" /\ "discussion" \in things
      BY <1>1, <2>1, <2>3, RepositoryParts, PullRequestParts, PublicationParts DEF Has
    <2>5. h = "org" => "organization" \in things
      BY <2>3 DEF KindOf
    <2>6. "pull" \in things => "commit" \in things
      BY DEF Closed, Needs
    <2> QED
      BY <2>4, <2>5, <2>6 DEF Denotes
  <1> QED
    BY <1>2, <1>3, <1>4, ContainsIs

(* What an answer names is there.                                          *)
LEMMA AnswersAreTruthful ==
  \A t \in TypeNames \ Dependent : Truthful(t)
  <1> DEFINE Upto(n) == \A t \in TypeNames \ Dependent : Depth(t) < n => Truthful(t)
  <1>1. ASSUME NEW n \in Nat, Upto(n)
        PROVE  Upto(n + 1)
    <2> SUFFICES ASSUME NEW t \in TypeNames \ Dependent, Depth(t) < n + 1
                 PROVE  Truthful(t)
      OBVIOUS
    <2>1. \A p \in PartsOf(t) : p \in TypeNames /\ Depth(p) < n
      BY TypesAreNotRecursive
    <2> QED
      BY <1>1, <2>1, TruthfulIfParts
  <1>2. \A t \in TypeNames \ Dependent : Depth(t) \in 0..4
    BY TypesAreNotRecursive
  <1>3. Upto(0)
    BY <1>2
  <1>4. (0 + 1 = 1) /\ (1 + 1 = 2) /\ (2 + 1 = 3) /\ (3 + 1 = 4) /\ (4 + 1 = 5)
    OBVIOUS
  <1> HIDE DEF Upto
  <1>5. Upto(1)
    BY <1>1, <1>3, <1>4
  <1>6. Upto(2)
    BY <1>1, <1>4, <1>5
  <1>7. Upto(3)
    BY <1>1, <1>4, <1>6
  <1>8. Upto(4)
    BY <1>1, <1>4, <1>7
  <1>9. Upto(5)
    BY <1>1, <1>4, <1>8
  <1> QED
    BY <1>2, <1>9 DEF Upto

(* And each operation's input and output, with what a caller needs to have *)
(* for it and whether it has to name an entity tag.                        *)
Asks(op, wanted, output) ==
  Wanted(op) = wanted /\ Inputs[op].output = output /\ "etag" \notin Inputs[op].headers
Changes(op, wanted, output) ==
  Wanted(op) = wanted /\ Inputs[op].output = output /\ "etag" \in Inputs[op].headers

(* Each operation's input is in the table of its path.                     *)
LEMMA InputsAre ==
  /\ \A op \in DOMAIN AccountRoutes : Inputs[op] = AccountInputs[op]
  /\ \A op \in DOMAIN PeopleRoutes : Inputs[op] = PeopleInputs[op]
  /\ \A op \in DOMAIN RepositoryRoutes : Inputs[op] = RepositoryInputs[op]
  /\ \A op \in DOMAIN GitRoutes : Inputs[op] = GitInputs[op]
  /\ \A op \in DOMAIN IssueRoutes : Inputs[op] = IssueInputs[op]
  /\ \A op \in DOMAIN PullRequestRoutes : Inputs[op] = PullRequestInputs[op]
  /\ \A op \in DOMAIN PublicationRoutes : Inputs[op] = PublicationInputs[op]
  /\ \A op \in DOMAIN AutomationRoutes : Inputs[op] = AutomationInputs[op]
  /\ \A op \in DOMAIN SettingsRoutes : Inputs[op] = SettingsInputs[op]
  /\ \A op \in DOMAIN ActivityRoutes : Inputs[op] = ActivityInputs[op]
  <1>1. /\ DOMAIN AccountInputs = DOMAIN AccountRoutes /\ DOMAIN PeopleInputs = DOMAIN PeopleRoutes
        /\ DOMAIN RepositoryInputs = DOMAIN RepositoryRoutes /\ DOMAIN GitInputs = DOMAIN GitRoutes
        /\ DOMAIN IssueInputs = DOMAIN IssueRoutes /\ DOMAIN PullRequestInputs = DOMAIN PullRequestRoutes
        /\ DOMAIN PublicationInputs = DOMAIN PublicationRoutes /\ DOMAIN AutomationInputs = DOMAIN AutomationRoutes
        /\ DOMAIN SettingsInputs = DOMAIN SettingsRoutes /\ DOMAIN ActivityInputs = DOMAIN ActivityRoutes
    <2>1. DOMAIN AccountInputs = DOMAIN AccountRoutes
      BY DEF AccountInputs, AccountRoutes
    <2>2. DOMAIN PeopleInputs = DOMAIN PeopleRoutes
      BY DEF PeopleInputs, PeopleRoutes
    <2>3. DOMAIN RepositoryInputs = DOMAIN RepositoryRoutes
      BY DEF RepositoryInputs, RepositoryRoutes
    <2>4. DOMAIN GitInputs = DOMAIN GitRoutes
      BY DEF GitInputs, GitRoutes
    <2>5. DOMAIN IssueInputs = DOMAIN IssueRoutes
      BY DEF IssueInputs, IssueRoutes
    <2>6. DOMAIN PullRequestInputs = DOMAIN PullRequestRoutes
      BY DEF PullRequestInputs, PullRequestRoutes
    <2>7. DOMAIN PublicationInputs = DOMAIN PublicationRoutes
      BY DEF PublicationInputs, PublicationRoutes
    <2>8. DOMAIN AutomationInputs = DOMAIN AutomationRoutes
      BY DEF AutomationInputs, AutomationRoutes
    <2>9. DOMAIN SettingsInputs = DOMAIN SettingsRoutes
      BY DEF SettingsInputs, SettingsRoutes
    <2>10. DOMAIN ActivityInputs = DOMAIN ActivityRoutes
      BY DEF ActivityInputs, ActivityRoutes
    <2> QED
      BY <2>1, <2>2, <2>3, <2>4, <2>5, <2>6, <2>7, <2>8, <2>9, <2>10
  <1> QED
    BY <1>1, OperationsAre, TablesAre DEF Inputs

(* Nothing is written where there is no body, and no output is no type.    *)
LEMMA NoBody == Written(None) = {} /\ None \notin TypeNames
  BY NoneAssumption DEF Written

(* What each way to write an entry of the tables comes to.                 *)
LEMMA RequestsAre ==
  ASSUME NEW op, NEW path, NEW body, NEW output
  PROVE  /\ Inputs[op] = Get(path, output) => Asks(op, path \cup Written(None), output)
         /\ Inputs[op] = Send(path, body, output) => Asks(op, path \cup Written(body), output)
         /\ Inputs[op] = Act(path, body, output) =>
              Asks(op, path \cup Written(body) \cup {"csrf"}, output)
         /\ Inputs[op] = Make(path, body, output) =>
              Asks(op, path \cup Written(body) \cup {"csrf"}, output)
         /\ Inputs[op] = Change(path, body, output) =>
              Changes(op, path \cup Written(body) \cup {"csrf"}, output)
  <1>1. Get(path, output) = [path |-> path, headers |-> {}, body |-> None, output |-> output]
    BY DEF Get
  <1>2. Send(path, body, output) = [path |-> path, headers |-> {}, body |-> body, output |-> output]
    BY <1>1 DEF Send
  <1>3. Act(path, body, output) =
          [path |-> path, headers |-> {"csrf"}, body |-> body, output |-> output]
    BY <1>2 DEF Act
  <1>4. Make(path, body, output) =
          [path |-> path, headers |-> {"csrf", "key"}, body |-> body, output |-> output]
    BY <1>2 DEF Make
  <1>5. Change(path, body, output) =
          [path |-> path, headers |-> {"csrf", "etag"}, body |-> body, output |-> output]
    BY <1>2 DEF Change
  <1>6. Inputs[op] = Get(path, output) => Asks(op, path \cup Written(None), output)
    BY <1>1 DEF Wanted, Asks
  <1>7. Inputs[op] = Send(path, body, output) => Asks(op, path \cup Written(body), output)
    BY <1>2 DEF Wanted, Asks
  <1>8. Inputs[op] = Act(path, body, output) =>
          Asks(op, path \cup Written(body) \cup {"csrf"}, output)
    BY <1>3 DEF Wanted, Asks
  <1>9. Inputs[op] = Make(path, body, output) =>
          Asks(op, path \cup Written(body) \cup {"csrf"}, output)
    BY <1>4 DEF Wanted, Asks
  <1>10. Inputs[op] = Change(path, body, output) =>
           Changes(op, path \cup Written(body) \cup {"csrf"}, output)
    BY <1>5 DEF Wanted, Changes
  <1> QED
    BY <1>6, <1>7, <1>8, <1>9, <1>10

(* What there is in a body that has been read before.                      *)
LEMMA WrittenAre ==
  /\ Written(None) = {}
  /\ Written("RepositoryCreate") = {"username"}
  /\ Written("PullRequestCreate") = {"ref"}
  /\ Written("MergeRequest") = {"head"}
  /\ Written("DiscussionWrite") = {"category"}
  /\ Written("WorkflowDispatch") = {"ref"}
  /\ Written("AccessSettings") = {"subject"}
  /\ \A body \in {"LoginRequest", "RegisterRequest", "Email", "Password", "OrganizationUpdate",
                  "RepositoryUpdate", "IssueWrite", "CommentWrite", "LabelWrite", "ReviewWrite",
                  "ReleaseWrite", "WikiWrite", "ProjectWrite", "RepositoryCachePolicy",
                  "WebhookWrite", "NotificationIds"} : Written(body) = {}
  BY NoneAssumption DEF Written, Bodies

(* What a request for an operation takes and gives.                        *)
LEMMA AccountRequests ==
  /\ Asks("getMeta", {}, "InstanceMeta")
  /\ Asks("getCapabilities", {}, "CapabilitySet")
  /\ Asks("getViewer", {}, "Viewer")
  /\ Asks("listAuthMethods", {}, "AuthMethods")
  /\ Asks("startAuthProvider", {"provider"}, None)
  /\ Asks("completeAuthProvider", {"provider"}, "Session")
  /\ Asks("getSession", {}, "Session")
  /\ Asks("logout", {"csrf"}, None)
  /\ Asks("login", {}, "Session")
  /\ Asks("register", {}, "Session")
  /\ Asks("requestPasswordRecovery", {}, None)
  /\ Asks("resetPassword", {"token"}, None)
  <1>1. /\ Inputs["getMeta"] = Get({}, "InstanceMeta")
        /\ Inputs["getCapabilities"] = Get({}, "CapabilitySet")
        /\ Inputs["getViewer"] = Get({}, "Viewer")
        /\ Inputs["listAuthMethods"] = Get({}, "AuthMethods")
        /\ Inputs["startAuthProvider"] = Get({"provider"}, None)
        /\ Inputs["completeAuthProvider"] = Get({"provider"}, "Session")
        /\ Inputs["getSession"] = Get({}, "Session")
        /\ Inputs["logout"] = Act({}, None, None)
        /\ Inputs["login"] = Send({}, "LoginRequest", "Session")
        /\ Inputs["register"] = Send({}, "RegisterRequest", "Session")
        /\ Inputs["requestPasswordRecovery"] = Send({}, "Email", None)
        /\ Inputs["resetPassword"] = Send({"token"}, "Password", None)
    BY TablesAre, InputsAre DEF AccountInputs
  <1>2. /\ Asks("getMeta", {} \cup Written(None), "InstanceMeta")
        /\ Asks("getCapabilities", {} \cup Written(None), "CapabilitySet")
        /\ Asks("getViewer", {} \cup Written(None), "Viewer")
        /\ Asks("listAuthMethods", {} \cup Written(None), "AuthMethods")
        /\ Asks("startAuthProvider", {"provider"} \cup Written(None), None)
        /\ Asks("completeAuthProvider", {"provider"} \cup Written(None), "Session")
        /\ Asks("getSession", {} \cup Written(None), "Session")
        /\ Asks("logout", {} \cup Written(None) \cup {"csrf"}, None)
        /\ Asks("login", {} \cup Written("LoginRequest"), "Session")
        /\ Asks("register", {} \cup Written("RegisterRequest"), "Session")
        /\ Asks("requestPasswordRecovery", {} \cup Written("Email"), None)
        /\ Asks("resetPassword", {"token"} \cup Written("Password"), None)
    BY <1>1, RequestsAre
  <1> QED
    BY <1>2, WrittenAre DEF InRepo, Asks, Changes

(* About people and organizations.                                         *)
LEMMA PeopleRequests ==
  /\ Asks("getDashboard", {}, "Dashboard")
  /\ Asks("getUser", {"username"}, "User")
  /\ Asks("listUserRepositories", {"username"}, "RepositoryPage")
  /\ Asks("listFollowers", {"username"}, "UserPage")
  /\ Asks("listFollowing", {"username"}, "UserPage")
  /\ Asks("getOrganization", {"org"}, "Organization")
  /\ Changes("updateOrganization", {"org", "csrf"}, "Organization")
  /\ Asks("listTeams", {"org"}, "TeamPage")
  <1>1. /\ Inputs["getDashboard"] = Get({}, "Dashboard")
        /\ Inputs["getUser"] = Get({"username"}, "User")
        /\ Inputs["listUserRepositories"] = Get({"username"}, "RepositoryPage")
        /\ Inputs["listFollowers"] = Get({"username"}, "UserPage")
        /\ Inputs["listFollowing"] = Get({"username"}, "UserPage")
        /\ Inputs["getOrganization"] = Get({"org"}, "Organization")
        /\ Inputs["updateOrganization"] = Change({"org"}, "OrganizationUpdate", "Organization")
        /\ Inputs["listTeams"] = Get({"org"}, "TeamPage")
    BY TablesAre, InputsAre DEF PeopleInputs
  <1>2. /\ Asks("getDashboard", {} \cup Written(None), "Dashboard")
        /\ Asks("getUser", {"username"} \cup Written(None), "User")
        /\ Asks("listUserRepositories", {"username"} \cup Written(None),
             "RepositoryPage")
        /\ Asks("listFollowers", {"username"} \cup Written(None), "UserPage")
        /\ Asks("listFollowing", {"username"} \cup Written(None), "UserPage")
        /\ Asks("getOrganization", {"org"} \cup Written(None), "Organization")
        /\ Changes("updateOrganization", {"org"} \cup Written("OrganizationUpdate") \cup
             {"csrf"}, "Organization")
        /\ Asks("listTeams", {"org"} \cup Written(None), "TeamPage")
    BY <1>1, RequestsAre
  <1> QED
    BY <1>2, WrittenAre DEF InRepo, Asks, Changes

(* About repositories.                                                     *)
LEMMA RepositoryRequests ==
  /\ Asks("listRepositories", {}, "RepositoryPage")
  /\ Asks("createRepository", {"username", "csrf"}, "Repository")
  /\ Asks("getRepository", {"owner", "repo"}, "Repository")
  /\ Changes("updateRepository", {"owner", "repo", "csrf"}, "Repository")
  /\ Changes("deleteRepository", {"owner", "repo", "csrf"}, None)
  /\ Asks("listRefs", {"owner", "repo"}, "RefPage")
  <1>1. /\ Inputs["listRepositories"] = Get({}, "RepositoryPage")
        /\ Inputs["createRepository"] = Make({}, "RepositoryCreate", "Repository")
        /\ Inputs["getRepository"] = Get(InRepo, "Repository")
        /\ Inputs["updateRepository"] = Change(InRepo, "RepositoryUpdate", "Repository")
        /\ Inputs["deleteRepository"] = Change(InRepo, None, None)
        /\ Inputs["listRefs"] = Get(InRepo, "RefPage")
    BY TablesAre, InputsAre DEF RepositoryInputs
  <1>2. /\ Asks("listRepositories", {} \cup Written(None), "RepositoryPage")
        /\ Asks("createRepository", {} \cup Written("RepositoryCreate") \cup {"csrf"},
             "Repository")
        /\ Asks("getRepository", InRepo \cup Written(None), "Repository")
        /\ Changes("updateRepository", InRepo \cup Written("RepositoryUpdate") \cup
             {"csrf"}, "Repository")
        /\ Changes("deleteRepository", InRepo \cup Written(None) \cup {"csrf"}, None)
        /\ Asks("listRefs", InRepo \cup Written(None), "RefPage")
    BY <1>1, RequestsAre
  <1> QED
    BY <1>2, WrittenAre DEF InRepo, Asks, Changes

(* About what is in them.                                                  *)
LEMMA GitRequests ==
  /\ Asks("getTree", {"owner", "repo", "ref"}, "GitTree")
  /\ Asks("getBlob", {"owner", "repo", "ref"}, "GitBlob")
  /\ Asks("getRawContent", {"owner", "repo", "ref"}, None)
  /\ Asks("listCommits", {"owner", "repo"}, "CommitPage")
  /\ Asks("getCommit", {"owner", "repo", "sha"}, "CommitDetail")
  /\ Asks("compareRefs", {"owner", "repo", "ref"}, "Comparison")
  /\ Asks("getBlame", {"owner", "repo", "ref"}, "Blame")
  /\ Asks("downloadArchive", {"owner", "repo", "ref"}, None)
  <1>1. /\ Inputs["getTree"] = Get(InRepo \cup {"ref"}, "GitTree")
        /\ Inputs["getBlob"] = Get(InRepo \cup {"ref"}, "GitBlob")
        /\ Inputs["getRawContent"] = Get(InRepo \cup {"ref"}, None)
        /\ Inputs["listCommits"] = Get(InRepo, "CommitPage")
        /\ Inputs["getCommit"] = Get(InRepo \cup {"sha"}, "CommitDetail")
        /\ Inputs["compareRefs"] = Get(InRepo \cup {"ref"}, "Comparison")
        /\ Inputs["getBlame"] = Get(InRepo \cup {"ref"}, "Blame")
        /\ Inputs["downloadArchive"] = Get(InRepo \cup {"ref"}, None)
    BY TablesAre, InputsAre DEF GitInputs
  <1>2. /\ Asks("getTree", InRepo \cup {"ref"} \cup Written(None), "GitTree")
        /\ Asks("getBlob", InRepo \cup {"ref"} \cup Written(None), "GitBlob")
        /\ Asks("getRawContent", InRepo \cup {"ref"} \cup Written(None), None)
        /\ Asks("listCommits", InRepo \cup Written(None), "CommitPage")
        /\ Asks("getCommit", InRepo \cup {"sha"} \cup Written(None), "CommitDetail")
        /\ Asks("compareRefs", InRepo \cup {"ref"} \cup Written(None), "Comparison")
        /\ Asks("getBlame", InRepo \cup {"ref"} \cup Written(None), "Blame")
        /\ Asks("downloadArchive", InRepo \cup {"ref"} \cup Written(None), None)
    BY <1>1, RequestsAre
  <1> QED
    BY <1>2, WrittenAre DEF InRepo, Asks, Changes

(* About issues.                                                           *)
LEMMA IssueRequests ==
  /\ Asks("listIssues", {"owner", "repo"}, "IssuePage")
  /\ Asks("createIssue", {"owner", "repo", "csrf"}, "Issue")
  /\ Asks("getIssue", {"owner", "repo", "issue"}, "Issue")
  /\ Changes("updateIssue", {"owner", "repo", "issue", "csrf"}, "Issue")
  /\ Asks("listIssueComments", {"owner", "repo", "issue"}, "CommentPage")
  /\ Asks("createIssueComment", {"owner", "repo", "issue", "csrf"}, "Comment")
  /\ Asks("listLabels", {"owner", "repo"}, "LabelPage")
  /\ Asks("createLabel", {"owner", "repo", "csrf"}, "Label")
  /\ Asks("listMilestones", {"owner", "repo"}, "MilestonePage")
  <1>1. /\ Inputs["listIssues"] = Get(InRepo, "IssuePage")
        /\ Inputs["createIssue"] = Make(InRepo, "IssueWrite", "Issue")
        /\ Inputs["getIssue"] = Get(InRepo \cup {"issue"}, "Issue")
        /\ Inputs["updateIssue"] = Change(InRepo \cup {"issue"}, "IssueWrite", "Issue")
        /\ Inputs["listIssueComments"] = Get(InRepo \cup {"issue"}, "CommentPage")
        /\ Inputs["createIssueComment"] = Make(InRepo \cup {"issue"}, "CommentWrite", "Comment")
        /\ Inputs["listLabels"] = Get(InRepo, "LabelPage")
        /\ Inputs["createLabel"] = Make(InRepo, "LabelWrite", "Label")
        /\ Inputs["listMilestones"] = Get(InRepo, "MilestonePage")
    BY TablesAre, InputsAre DEF IssueInputs
  <1>2. /\ Asks("listIssues", InRepo \cup Written(None), "IssuePage")
        /\ Asks("createIssue", InRepo \cup Written("IssueWrite") \cup {"csrf"}, "Issue")
        /\ Asks("getIssue", InRepo \cup {"issue"} \cup Written(None), "Issue")
        /\ Changes("updateIssue", InRepo \cup {"issue"} \cup Written("IssueWrite") \cup
             {"csrf"}, "Issue")
        /\ Asks("listIssueComments", InRepo \cup {"issue"} \cup Written(None),
             "CommentPage")
        /\ Asks("createIssueComment", InRepo \cup {"issue"} \cup Written("CommentWrite")
             \cup {"csrf"}, "Comment")
        /\ Asks("listLabels", InRepo \cup Written(None), "LabelPage")
        /\ Asks("createLabel", InRepo \cup Written("LabelWrite") \cup {"csrf"}, "Label")
        /\ Asks("listMilestones", InRepo \cup Written(None), "MilestonePage")
    BY <1>1, RequestsAre
  <1> QED
    BY <1>2, WrittenAre DEF InRepo, Asks, Changes

(* About pull requests.                                                    *)
LEMMA PullRequestRequests ==
  /\ Asks("listPullRequests", {"owner", "repo"}, "PullRequestPage")
  /\ Asks("createPullRequest", {"owner", "repo", "ref", "csrf"}, "PullRequest")
  /\ Asks("getPullRequest", {"owner", "repo", "pull"}, "PullRequest")
  /\ Changes("updatePullRequest", {"owner", "repo", "pull", "csrf"}, "PullRequest")
  /\ Asks("listPullRequestFiles", {"owner", "repo", "pull"}, "DiffFilePage")
  /\ Asks("listPullRequestReviews", {"owner", "repo", "pull"}, "ReviewPage")
  /\ Asks("submitPullRequestReview", {"owner", "repo", "pull", "csrf"}, "Review")
  /\ Asks("getPullRequestChecks", {"owner", "repo", "pull"}, "CheckSuitePage")
  /\ Asks("mergePullRequest", {"owner", "repo", "pull", "head", "csrf"}, "MergeResult")
  <1>1. /\ Inputs["listPullRequests"] = Get(InRepo, "PullRequestPage")
        /\ Inputs["createPullRequest"] = Make(InRepo, "PullRequestCreate", "PullRequest")
        /\ Inputs["getPullRequest"] = Get(InRepo \cup {"pull"}, "PullRequest")
        /\ Inputs["updatePullRequest"] = Change(InRepo \cup {"pull"}, "IssueWrite", "PullRequest")
        /\ Inputs["listPullRequestFiles"] = Get(InRepo \cup {"pull"}, "DiffFilePage")
        /\ Inputs["listPullRequestReviews"] = Get(InRepo \cup {"pull"}, "ReviewPage")
        /\ Inputs["submitPullRequestReview"] = Make(InRepo \cup {"pull"}, "ReviewWrite", "Review")
        /\ Inputs["getPullRequestChecks"] = Get(InRepo \cup {"pull"}, "CheckSuitePage")
        /\ Inputs["mergePullRequest"] = Make(InRepo \cup {"pull"}, "MergeRequest", "MergeResult")
    BY TablesAre, InputsAre DEF PullRequestInputs
  <1>2. /\ Asks("listPullRequests", InRepo \cup Written(None), "PullRequestPage")
        /\ Asks("createPullRequest", InRepo \cup Written("PullRequestCreate") \cup
             {"csrf"}, "PullRequest")
        /\ Asks("getPullRequest", InRepo \cup {"pull"} \cup Written(None),
             "PullRequest")
        /\ Changes("updatePullRequest", InRepo \cup {"pull"} \cup Written("IssueWrite")
             \cup {"csrf"}, "PullRequest")
        /\ Asks("listPullRequestFiles", InRepo \cup {"pull"} \cup Written(None),
             "DiffFilePage")
        /\ Asks("listPullRequestReviews", InRepo \cup {"pull"} \cup Written(None),
             "ReviewPage")
        /\ Asks("submitPullRequestReview", InRepo \cup {"pull"} \cup
             Written("ReviewWrite") \cup {"csrf"}, "Review")
        /\ Asks("getPullRequestChecks", InRepo \cup {"pull"} \cup Written(None),
             "CheckSuitePage")
        /\ Asks("mergePullRequest", InRepo \cup {"pull"} \cup Written("MergeRequest")
             \cup {"csrf"}, "MergeResult")
    BY <1>1, RequestsAre
  <1> QED
    BY <1>2, WrittenAre DEF InRepo, Asks, Changes

(* About what a repository publishes.                                      *)
LEMMA PublicationRequests ==
  /\ Asks("listReleases", {"owner", "repo"}, "ReleasePage")
  /\ Asks("createRelease", {"owner", "repo", "csrf"}, "Release")
  /\ Asks("listDiscussions", {"owner", "repo"}, "DiscussionPage")
  /\ Asks("createDiscussion", {"owner", "repo", "category", "csrf"}, "Discussion")
  /\ Asks("listWikiPages", {"owner", "repo"}, "WikiPageList")
  /\ Asks("createWikiPage", {"owner", "repo", "csrf"}, "WikiPage")
  <1>1. /\ Inputs["listReleases"] = Get(InRepo, "ReleasePage")
        /\ Inputs["createRelease"] = Make(InRepo, "ReleaseWrite", "Release")
        /\ Inputs["listDiscussions"] = Get(InRepo, "DiscussionPage")
        /\ Inputs["createDiscussion"] = Make(InRepo, "DiscussionWrite", "Discussion")
        /\ Inputs["listWikiPages"] = Get(InRepo, "WikiPageList")
        /\ Inputs["createWikiPage"] = Make(InRepo, "WikiWrite", "WikiPage")
    BY TablesAre, InputsAre DEF PublicationInputs
  <1>2. /\ Asks("listReleases", InRepo \cup Written(None), "ReleasePage")
        /\ Asks("createRelease", InRepo \cup Written("ReleaseWrite") \cup {"csrf"},
             "Release")
        /\ Asks("listDiscussions", InRepo \cup Written(None), "DiscussionPage")
        /\ Asks("createDiscussion", InRepo \cup Written("DiscussionWrite") \cup
             {"csrf"}, "Discussion")
        /\ Asks("listWikiPages", InRepo \cup Written(None), "WikiPageList")
        /\ Asks("createWikiPage", InRepo \cup Written("WikiWrite") \cup {"csrf"},
             "WikiPage")
    BY <1>1, RequestsAre
  <1> QED
    BY <1>2, WrittenAre DEF InRepo, Asks, Changes

(* About its projects and workflows.                                       *)
LEMMA AutomationRequests ==
  /\ Asks("listProjects", {"owner", "repo"}, "ProjectPage")
  /\ Asks("createProject", {"owner", "repo", "csrf"}, "Project")
  /\ Asks("listWorkflows", {"owner", "repo"}, "WorkflowPage")
  /\ Asks("dispatchWorkflow", {"owner", "repo", "workflow", "ref", "csrf"}, None)
  /\ Asks("listWorkflowRuns", {"owner", "repo"}, "WorkflowRunPage")
  /\ Asks("getWorkflowRun", {"owner", "repo", "run"}, "WorkflowRun")
  /\ Asks("cancelWorkflowRun", {"owner", "repo", "run", "csrf"}, None)
  /\ Asks("getSecurityOverview", {"owner", "repo"}, "SecurityOverview")
  /\ Asks("getRepositoryInsights", {"owner", "repo"}, "RepositoryInsights")
  <1>1. /\ Inputs["listProjects"] = Get(InRepo, "ProjectPage")
        /\ Inputs["createProject"] = Make(InRepo, "ProjectWrite", "Project")
        /\ Inputs["listWorkflows"] = Get(InRepo, "WorkflowPage")
        /\ Inputs["dispatchWorkflow"] = Make(InRepo \cup {"workflow"}, "WorkflowDispatch", None)
        /\ Inputs["listWorkflowRuns"] = Get(InRepo, "WorkflowRunPage")
        /\ Inputs["getWorkflowRun"] = Get(InRepo \cup {"run"}, "WorkflowRun")
        /\ Inputs["cancelWorkflowRun"] = Act(InRepo \cup {"run"}, None, None)
        /\ Inputs["getSecurityOverview"] = Get(InRepo, "SecurityOverview")
        /\ Inputs["getRepositoryInsights"] = Get(InRepo, "RepositoryInsights")
    BY TablesAre, InputsAre DEF AutomationInputs
  <1>2. /\ Asks("listProjects", InRepo \cup Written(None), "ProjectPage")
        /\ Asks("createProject", InRepo \cup Written("ProjectWrite") \cup {"csrf"},
             "Project")
        /\ Asks("listWorkflows", InRepo \cup Written(None), "WorkflowPage")
        /\ Asks("dispatchWorkflow", InRepo \cup {"workflow"} \cup
             Written("WorkflowDispatch") \cup {"csrf"}, None)
        /\ Asks("listWorkflowRuns", InRepo \cup Written(None), "WorkflowRunPage")
        /\ Asks("getWorkflowRun", InRepo \cup {"run"} \cup Written(None), "WorkflowRun")
        /\ Asks("cancelWorkflowRun", InRepo \cup {"run"} \cup Written(None) \cup
             {"csrf"}, None)
        /\ Asks("getSecurityOverview", InRepo \cup Written(None), "SecurityOverview")
        /\ Asks("getRepositoryInsights", InRepo \cup Written(None),
             "RepositoryInsights")
    BY <1>1, RequestsAre
  <1> QED
    BY <1>2, WrittenAre DEF InRepo, Asks, Changes

(* About its settings.                                                     *)
LEMMA SettingsRequests ==
  /\ Asks("getRepositoryAccess", {"owner", "repo"}, "AccessSettings")
  /\ Changes("replaceRepositoryAccess", {"owner", "repo", "subject", "csrf"},
       "AccessSettings")
  /\ Asks("getRepositoryCache", {"owner", "repo"}, "RepositoryCache")
  /\ Changes("updateRepositoryCachePolicy", {"owner", "repo", "csrf"},
       "RepositoryCache")
  /\ Asks("invalidateRepositoryCache", {"owner", "repo", "csrf"}, "CacheInvalidation")
  /\ Asks("listRepositoryRules", {"owner", "repo"}, "RulePage")
  /\ Asks("listWebhooks", {"owner", "repo"}, "WebhookPage")
  /\ Asks("createWebhook", {"owner", "repo", "csrf"}, "Webhook")
  <1>1. /\ Inputs["getRepositoryAccess"] = Get(InRepo, "AccessSettings")
        /\ Inputs["replaceRepositoryAccess"] = Change(InRepo, "AccessSettings", "AccessSettings")
        /\ Inputs["getRepositoryCache"] = Get(InRepo, "RepositoryCache")
        /\ Inputs["updateRepositoryCachePolicy"] = Change(InRepo, "RepositoryCachePolicy", "RepositoryCache")
        /\ Inputs["invalidateRepositoryCache"] = Make(InRepo, None, "CacheInvalidation")
        /\ Inputs["listRepositoryRules"] = Get(InRepo, "RulePage")
        /\ Inputs["listWebhooks"] = Get(InRepo, "WebhookPage")
        /\ Inputs["createWebhook"] = Make(InRepo, "WebhookWrite", "Webhook")
    BY TablesAre, InputsAre DEF SettingsInputs
  <1>2. /\ Asks("getRepositoryAccess", InRepo \cup Written(None), "AccessSettings")
        /\ Changes("replaceRepositoryAccess", InRepo \cup Written("AccessSettings") \cup
             {"csrf"}, "AccessSettings")
        /\ Asks("getRepositoryCache", InRepo \cup Written(None), "RepositoryCache")
        /\ Changes("updateRepositoryCachePolicy", InRepo \cup
             Written("RepositoryCachePolicy") \cup {"csrf"}, "RepositoryCache")
        /\ Asks("invalidateRepositoryCache", InRepo \cup Written(None) \cup {"csrf"},
             "CacheInvalidation")
        /\ Asks("listRepositoryRules", InRepo \cup Written(None), "RulePage")
        /\ Asks("listWebhooks", InRepo \cup Written(None), "WebhookPage")
        /\ Asks("createWebhook", InRepo \cup Written("WebhookWrite") \cup {"csrf"},
             "Webhook")
    BY <1>1, RequestsAre
  <1> QED
    BY <1>2, WrittenAre DEF InRepo, Asks, Changes

(* About what happens elsewhere.                                           *)
LEMMA ActivityRequests ==
  /\ Asks("listNotifications", {}, "NotificationPage")
  /\ Asks("markNotificationsRead", {"csrf"}, None)
  /\ Asks("search", {}, "SearchResultPage")
  /\ Asks("streamEvents", {}, None)
  <1>1. /\ Inputs["listNotifications"] = Get({}, "NotificationPage")
        /\ Inputs["markNotificationsRead"] = Act({}, "NotificationIds", None)
        /\ Inputs["search"] = Get({}, "SearchResultPage")
        /\ Inputs["streamEvents"] = Get({}, None)
    BY TablesAre, InputsAre DEF ActivityInputs
  <1>2. /\ Asks("listNotifications", {} \cup Written(None), "NotificationPage")
        /\ Asks("markNotificationsRead", {} \cup Written("NotificationIds") \cup
             {"csrf"}, None)
        /\ Asks("search", {} \cup Written(None), "SearchResultPage")
        /\ Asks("streamEvents", {} \cup Written(None), None)
    BY <1>1, RequestsAre
  <1> QED
    BY <1>2, WrittenAre DEF InRepo, Asks, Changes

(* One round of reading: what a caller with these handles can read names   *)
(* others.                                                                 *)
Readable(server, session) ==
  {op \in OfferedBy(server) : Method(op) = "GET" /\ Admits(server, session, op)}
Learned(server, session, things, before) ==
  {h \in Handles : \/ h \in before
                   \/ \E op \in Readable(server, session) :
                        h \in Gives(server, session, things, op) /\ Wanted(op) \subseteq before}

(* There is a function as that of HeldAt is defined to be, and what a      *)
(* caller holds in the end are five rounds.                                *)
LEMMA HeldIs ==
  ASSUME NEW server, NEW session, NEW things
  PROVE  HeldAt(server, session, things) =
           Learned(server, session, things,
             Learned(server, session, things,
               Learned(server, session, things,
                 Learned(server, session, things,
                   Learned(server, session, things, {})))))
  <1> DEFINE Round(before) == Learned(server, session, things, before)
             After(f) == [n \in 0..5 |-> IF n = 0 THEN {} ELSE Round(f[n - 1])]
             all == CHOOSE f : f = After(f)
             w1 == Round({})
             w2 == Round(w1)
             w3 == Round(w2)
             w4 == Round(w3)
             w5 == Round(w4)
             w == [n \in 0..5 |-> CASE n = 0 -> {} [] n = 1 -> w1 [] n = 2 -> w2 [] n = 3 -> w3
                                    [] n = 4 -> w4 [] n = 5 -> w5]
  <1> DEFINE reads == Readable(server, session)
             gives == [op \in reads |-> Gives(server, session, things, op)]
             Given(before) == {h \in Handles : \/ h \in before
                                               \/ \E op \in reads :
                                                    h \in gives[op] /\ Wanted(op) \subseteq before}
  <1>1. \A before : Given(before) = Round(before)
    BY DEF Learned
  <1>2. HeldAt(server, session, things) =
          (CHOOSE f : f = [n \in 0..5 |-> IF n = 0 THEN {} ELSE Given(f[n - 1])])[5]
    BY DEF HeldAt, Readable
  <1>3. \A f : [n \in 0..5 |-> IF n = 0 THEN {} ELSE Given(f[n - 1])] = After(f)
    <2> HIDE DEF Given, Round
    <2> QED
      BY <1>1
  <1>4. HeldAt(server, session, things) = all[5]
    <2> HIDE DEF Given, After
    <2> QED
      BY <1>2, <1>3
  <1> HIDE DEF Round
  <1>5. w = After(w)
    <2> HIDE DEF w1, w2, w3, w4, w5
    <2>1. w[0] = {} /\ w[1] = w1 /\ w[2] = w2 /\ w[3] = w3 /\ w[4] = w4 /\ w[5] = w5
      OBVIOUS
    <2>2. ASSUME NEW n \in 0..5
          PROVE  w[n] = IF n = 0 THEN {} ELSE Round(w[n - 1])
      <3> HIDE DEF w
      <3>1. n \in {0, 1, 2, 3, 4, 5}
        OBVIOUS
      <3> QED
        BY <2>1, <3>1 DEF w1, w2, w3, w4, w5
    <2>3. w = [n \in 0..5 |-> w[n]]
      OBVIOUS
    <2> HIDE DEF w
    <2> QED
      BY <2>2, <2>3
  <1> HIDE DEF w
  <1>6. all = After(all)
    <2> HIDE DEF After
    <2> QED
      BY <1>5
  <1> HIDE DEF all
  <1>7. /\ all[0] = {} /\ all[1] = Round(all[0]) /\ all[2] = Round(all[1])
        /\ all[3] = Round(all[2]) /\ all[4] = Round(all[3]) /\ all[5] = Round(all[4])
    BY <1>6
  <1> QED
    BY <1>4, <1>7 DEF Round

(* What a read of a signed-in caller gives is what its type contains.      *)
LEMMA ReadsGive ==
  ASSUME NEW server, NEW things, NEW op, NEW h
  PROVE  h \in Gives(server, TRUE, things, op) <=>
           /\ h \in Handles
           /\ Inputs[op].output \in TypeNames /\ Carries(Inputs[op].output, h, things)
           /\ h = "provider" => server # "mock"
  BY DEF Gives, Carried, Carries

(* No read gives what is only ever a part of something else.               *)
LEMMA ReadsAreWhole ==
  ASSUME NEW op \in Operations, Method(op) = "GET"
  PROVE  Inputs[op].output \notin Dependent
  <1> DEFINE Whole == op = "mergePullRequest" \/ Inputs[op].output = None
                        \/ Inputs[op].output \notin Dependent
  <1>1. Whole
    <2>1. CASE op \in DOMAIN AccountRoutes
      BY <2>1, TablesAre, AccountRequests DEF Asks, Changes, Dependent
    <2>2. CASE op \in DOMAIN PeopleRoutes
      BY <2>2, TablesAre, PeopleRequests DEF Asks, Changes, Dependent
    <2>3. CASE op \in DOMAIN RepositoryRoutes
      BY <2>3, TablesAre, RepositoryRequests DEF Asks, Changes, Dependent
    <2>4. CASE op \in DOMAIN GitRoutes
      BY <2>4, TablesAre, GitRequests DEF Asks, Changes, Dependent
    <2>5. CASE op \in DOMAIN IssueRoutes
      BY <2>5, TablesAre, IssueRequests DEF Asks, Changes, Dependent
    <2>6. CASE op \in DOMAIN PullRequestRoutes
      BY <2>6, TablesAre, PullRequestRequests DEF Asks, Changes, Dependent
    <2>7. CASE op \in DOMAIN PublicationRoutes
      BY <2>7, TablesAre, PublicationRequests DEF Asks, Changes, Dependent
    <2>8. CASE op \in DOMAIN AutomationRoutes
      BY <2>8, TablesAre, AutomationRequests DEF Asks, Changes, Dependent
    <2>9. CASE op \in DOMAIN SettingsRoutes
      BY <2>9, TablesAre, SettingsRequests DEF Asks, Changes, Dependent
    <2>10. CASE op \in DOMAIN ActivityRoutes
      BY <2>10, TablesAre, ActivityRequests DEF Asks, Changes, Dependent
    <2> HIDE DEF Whole
    <2> QED
      BY <2>1, <2>2, <2>3, <2>4, <2>5, <2>6, <2>7, <2>8, <2>9, <2>10, OperationsAre
  <1>2. op # "mergePullRequest"
    BY PullRequestRows DEF Row3, Row
  <1>3. Dependent \subseteq TypeNames
    BY TypeTablesAre DEF TypeNames, Dependent
  <1> QED
    BY <1>1, <1>2, <1>3, NoneAssumption

(* Nobody learns of what is not there.                                     *)
LEMMA HeldIsTrue ==
  ASSUME NEW server \in Adapters, NEW things, Closed(things),
         NEW h \in HeldAt(server, TRUE, things)
  PROVE  /\ h \in Handles /\ Denotes(h) \subseteq things
         /\ h = "provider" => server # "mock"
  <1> DEFINE There == {k \in Handles : Denotes(k) \subseteq things /\ (k = "provider" => server # "mock")}
  <1>1. ASSUME NEW before, before \subseteq There
        PROVE  Learned(server, TRUE, things, before) \subseteq There
    <2> SUFFICES ASSUME NEW k \in Learned(server, TRUE, things, before), k \notin before
                 PROVE  k \in There
      BY <1>1
    <2>1. PICK op \in Readable(server, TRUE) : k \in Gives(server, TRUE, things, op)
      BY DEF Learned
    <2>2. op \in Operations /\ Method(op) = "GET"
      BY <2>1, TablesAre, OperationsAre, ServedAreOperations DEF Readable, OfferedBy
    <2>3. Inputs[op].output \in TypeNames \ Dependent /\ Carries(Inputs[op].output, k, things)
      BY <2>1, <2>2, ReadsGive, ReadsAreWhole
    <2>4. Denotes(k) \subseteq things
      BY <2>3, AnswersAreTruthful DEF Truthful
    <2> QED
      BY <2>1, <2>4, ReadsGive
  <1>2. {} \subseteq There
    OBVIOUS
  <1> HIDE DEF There
  <1>3. HeldAt(server, TRUE, things) \subseteq There
    BY <1>1, <1>2, HeldIs
  <1> QED
    BY <1>3 DEF There

(* A value carries its own handles and those of its parts.                 *)
LEMMA CarriesItsOwn ==
  ASSUME NEW t \in TypeNames, NEW handles, NEW parts, Has(t, handles, parts), NEW things,
         KindOf(t) \subseteq things
  PROVE  /\ \A h \in handles : KindOf(h) \subseteq things => Carries(t, h, things)
         /\ \A h : \A p \in parts : Carries(p, h, things) => Carries(t, h, things)
  BY ContainsIs DEF Has

(* Where the names of things are found.                                    *)
LEMMA NamesAreFound ==
  ASSUME NEW things
  PROVE  /\ \A h \in {"csrf", "username", "subject"} : Carries("Session", h, things)
         /\ Carries("AuthMethods", "provider", things)
         /\ "repository" \in things =>
              \A h \in {"owner", "repo", "ref"} : Carries("RepositoryPage", h, things)
         /\ {"repository", "organization"} \subseteq things => Carries("RepositoryPage", "org", things)
         /\ "commit" \in things => Carries("RefPage", "sha", things)
         /\ "pull" \in things => \A h \in {"pull", "head"} : Carries("PullRequestPage", h, things)
         /\ "issue" \in things => Carries("IssuePage", "issue", things)
         /\ "discussion" \in things => Carries("DiscussionPage", "category", things)
         /\ "workflow" \in things => Carries("WorkflowPage", "workflow", things)
         /\ "run" \in things => Carries("WorkflowRunPage", "run", things)
  <1> DEFINE In(t, h) == Carries(t, h, things)
  <1>1. \A handles, parts : \A t \in TypeNames :
          (Has(t, handles, parts) /\ KindOf(t) \subseteq things) =>
            /\ \A h \in handles : KindOf(h) \subseteq things => In(t, h)
            /\ \A h : \A p \in parts : In(p, h) => In(t, h)
    BY CarriesItsOwn
  <1> HIDE DEF In
  <1>2. {"Session", "Viewer", "User", "AuthMethods", "AuthProvider", "RepositoryPage",
         "Repository", "RepositoryOwner", "RefPage", "GitRef", "PullRequestPage", "PullRequest",
         "PullRequestRef", "IssuePage", "Issue", "DiscussionPage", "Discussion",
         "DiscussionCategory", "WorkflowPage", "Workflow", "WorkflowRunPage", "WorkflowRun"}
          \subseteq TypeNames
    BY TypeTablesAre DEF TypeNames
  <1>3. /\ \A part \in {"Session", "Viewer", "User", "AuthMethods", "AuthProvider",
                        "RepositoryPage", "RepositoryOwner", "RefPage", "PullRequestPage",
                        "PullRequestRef", "IssuePage", "DiscussionPage", "DiscussionCategory",
                        "WorkflowPage", "WorkflowRunPage", "csrf", "username", "subject",
                        "provider", "owner", "repo", "ref", "sha", "pull", "head", "issue",
                        "category", "workflow", "run"} :
             KindOf(part) = {}
        /\ KindOf("org") = {"organization"} /\ KindOf("Repository") = {"repository"}
        /\ KindOf("GitRef") = {"commit"} /\ KindOf("PullRequest") = {"pull"}
        /\ KindOf("Issue") = {"issue"} /\ KindOf("Discussion") = {"discussion"}
        /\ KindOf("Workflow") = {"workflow"} /\ KindOf("WorkflowRun") = {"run"}
    BY DEF KindOf
  <1>4. \A h \in {"csrf", "username", "subject"} : In("Session", h)
    <2>1. \A h \in {"username", "subject"} : In("User", h)
      BY <1>1, <1>2, <1>3, AccountParts
    <2>2. \A h \in {"username", "subject"} : In("Viewer", h)
      BY <1>1, <1>2, <1>3, <2>1, AccountParts
    <2> QED
      BY <1>1, <1>2, <1>3, <2>2, AccountParts
  <1>5. In("AuthMethods", "provider")
    <2>1. In("AuthProvider", "provider")
      BY <1>1, <1>2, <1>3, AccountParts
    <2> QED
      BY <1>1, <1>2, <1>3, <2>1, AccountParts
  <1>6. "repository" \in things => \A h \in {"owner", "repo", "ref"} : In("RepositoryPage", h)
    <2> SUFFICES ASSUME "repository" \in things
                 PROVE  \A h \in {"owner", "repo", "ref"} : In("RepositoryPage", h)
      OBVIOUS
    <2>1. In("RepositoryOwner", "owner")
      BY <1>1, <1>2, <1>3, RepositoryParts
    <2>2. \A h \in {"owner", "repo", "ref"} : In("Repository", h)
      BY <1>1, <1>2, <1>3, <2>1, RepositoryParts
    <2> QED
      BY <1>1, <1>2, <1>3, <2>2, RepositoryParts
  <1>7. {"repository", "organization"} \subseteq things => In("RepositoryPage", "org")
    <2> SUFFICES ASSUME {"repository", "organization"} \subseteq things
                 PROVE  In("RepositoryPage", "org")
      OBVIOUS
    <2>1. In("RepositoryOwner", "org")
      BY <1>1, <1>2, <1>3, RepositoryParts
    <2>2. In("Repository", "org")
      BY <1>1, <1>2, <1>3, <2>1, RepositoryParts
    <2> QED
      BY <1>1, <1>2, <1>3, <2>2, RepositoryParts
  <1>8. "commit" \in things => In("RefPage", "sha")
    <2>1. "commit" \in things => In("GitRef", "sha")
      BY <1>1, <1>2, <1>3, GitParts
    <2> QED
      BY <1>1, <1>2, <1>3, <2>1, GitParts
  <1>9. "pull" \in things => \A h \in {"pull", "head"} : In("PullRequestPage", h)
    <2>1. In("PullRequestRef", "head")
      BY <1>1, <1>2, <1>3, PullRequestParts
    <2>2. "pull" \in things => \A h \in {"pull", "head"} : In("PullRequest", h)
      BY <1>1, <1>2, <1>3, <2>1, PullRequestParts
    <2> QED
      BY <1>1, <1>2, <1>3, <2>2, PullRequestParts
  <1>10. "issue" \in things => In("IssuePage", "issue")
    <2>1. "issue" \in things => In("Issue", "issue")
      BY <1>1, <1>2, <1>3, IssueParts
    <2> QED
      BY <1>1, <1>2, <1>3, <2>1, IssueParts
  <1>11. "discussion" \in things => In("DiscussionPage", "category")
    <2>1. In("DiscussionCategory", "category")
      BY <1>1, <1>2, <1>3, PublicationParts
    <2>2. "discussion" \in things => In("Discussion", "category")
      BY <1>1, <1>2, <1>3, <2>1, PublicationParts
    <2> QED
      BY <1>1, <1>2, <1>3, <2>2, PublicationParts
  <1>12. "workflow" \in things => In("WorkflowPage", "workflow")
    <2>1. "workflow" \in things => In("Workflow", "workflow")
      BY <1>1, <1>2, <1>3, AutomationParts
    <2> QED
      BY <1>1, <1>2, <1>3, <2>1, AutomationParts
  <1>13. "run" \in things => In("WorkflowRunPage", "run")
    <2>1. "run" \in things => In("WorkflowRun", "run")
      BY <1>1, <1>2, <1>3, AutomationParts
    <2> QED
      BY <1>1, <1>2, <1>3, <2>1, AutomationParts
  <1> QED
    BY <1>4, <1>5, <1>6, <1>7, <1>8, <1>9, <1>10, <1>11, <1>12, <1>13 DEF In

(* Whoever has a session finds the name of everything there is, in two     *)
(* rounds: the lists, and what is in the repositories they name.           *)
OffersName(server, h) ==
  server = "mock" => h \notin {"provider", "sha", "category", "workflow", "run"}

(* What is there is found in two rounds of the five.                       *)
LEMMA WhatIsThereIsHeld ==
  ASSUME NEW server \in Adapters, NEW things, Closed(things), NEW h \in Handles,
         Denotes(h) \subseteq things, h = "ref" => "repository" \in things, OffersName(server, h)
  PROVE  h \in HeldAt(server, TRUE, things)
  <1> DEFINE Round(before) == Learned(server, TRUE, things, before)
             first == Round({})
             second == Round(first)
  <1>1. \A before \in SUBSET Handles : before \subseteq Round(before)
    BY DEF Learned
  <1>2. \A before : Round(before) \in SUBSET Handles
    BY DEF Learned
  <1>3. ASSUME NEW before, NEW op \in OfferedBy(server), Method(op) = "GET",
               NEW wanted, NEW output, Asks(op, wanted, output), wanted \subseteq before,
               output \in TypeNames, NEW k \in Handles, Carries(output, k, things),
               k = "provider" => server # "mock"
        PROVE  k \in Round(before)
    <2>1. k \in Gives(server, TRUE, things, op)
      BY <1>3, ReadsGive DEF Asks
    <2>2. op \in Readable(server, TRUE)
      BY <1>3 DEF Readable, Admits
    <2> QED
      BY <1>3, <2>1, <2>2 DEF Learned, Asks
  <1>4. /\ {"getSession", "listAuthMethods", "listRepositories", "listPullRequests",
            "listIssues"} \subseteq OfferedBy(server)
        /\ server # "mock" =>
             {"listRefs", "listDiscussions", "listWorkflows", "listWorkflowRuns"}
               \subseteq OfferedBy(server)
    BY OperationsAre, TablesAre DEF OfferedBy, Served, PullRequestInputs
  <1>5. /\ Method("getSession") = "GET" /\ Method("listAuthMethods") = "GET"
        /\ Method("listRepositories") = "GET" /\ Method("listPullRequests") = "GET"
        /\ Method("listIssues") = "GET" /\ Method("listRefs") = "GET"
        /\ Method("listDiscussions") = "GET" /\ Method("listWorkflows") = "GET"
        /\ Method("listWorkflowRuns") = "GET"
    BY AccountRows, RepositoryRows, PullRequestRows, IssueRows, PublicationRows, AutomationRows
    DEF Row, Row1, Row2
  <1>6. {"Session", "AuthMethods", "RepositoryPage", "RefPage", "PullRequestPage", "IssuePage",
         "DiscussionPage", "WorkflowPage", "WorkflowRunPage"} \subseteq TypeNames
    BY TypeTablesAre DEF TypeNames
  <1> HIDE DEF Round
  <1>7. second \subseteq HeldAt(server, TRUE, things)
    <2> DEFINE third == Round(second)
               fourth == Round(third)
               fifth == Round(fourth)
    <2>1. second \subseteq third /\ third \subseteq fourth /\ fourth \subseteq fifth
      BY <1>1, <1>2
    <2>2. fifth = HeldAt(server, TRUE, things)
      BY HeldIs DEF Round
    <2> QED
      BY <2>1, <2>2
  <1>8. /\ h \in {"csrf", "username", "subject"} => h \in first
        /\ h = "provider" /\ server # "mock" => h \in first
        /\ "repository" \in things => {"owner", "repo", "ref"} \subseteq first
        /\ {"repository", "organization"} \subseteq things => "org" \in first
    BY <1>3, <1>4, <1>5, <1>6, NamesAreFound, AccountRequests, RepositoryRequests DEF Handles
  <1>9. first \subseteq second
    BY <1>1, <1>2
  <1>10. h \in {"sha", "pull", "head", "issue", "category", "workflow", "run", "org"} =>
           "repository" \in things
    BY DEF Denotes, Closed, Needs
  <1> HIDE DEF first
  <1>11. /\ h = "sha" /\ server # "mock" => h \in second
         /\ h \in {"pull", "head"} => h \in second
         /\ h = "issue" => h \in second
         /\ h = "category" /\ server # "mock" => h \in second
         /\ h = "workflow" /\ server # "mock" => h \in second
         /\ h = "run" /\ server # "mock" => h \in second
    <2> SUFFICES ASSUME h \in {"sha", "pull", "head", "issue", "category", "workflow", "run"}
                 PROVE  \/ h \in second
                        \/ h \in {"sha", "category", "workflow", "run"} /\ server = "mock"
      OBVIOUS
    <2>1. {"owner", "repo"} \subseteq first
      BY <1>8, <1>10
    <2>2. CASE h = "sha"
      BY <1>3, <1>4, <1>5, <1>6, <2>1, <2>2, NamesAreFound, RepositoryRequests DEF Denotes
    <2>3. CASE h \in {"pull", "head"}
      BY <1>3, <1>4, <1>5, <1>6, <2>1, <2>3, NamesAreFound, PullRequestRequests DEF Denotes
    <2>4. CASE h = "issue"
      BY <1>3, <1>4, <1>5, <1>6, <2>1, <2>4, NamesAreFound, IssueRequests DEF Denotes
    <2>5. CASE h = "category"
      BY <1>3, <1>4, <1>5, <1>6, <2>1, <2>5, NamesAreFound, PublicationRequests DEF Denotes
    <2>6. CASE h \in {"workflow", "run"}
      BY <1>3, <1>4, <1>5, <1>6, <2>1, <2>6, NamesAreFound, AutomationRequests DEF Denotes
    <2> QED
      BY <2>2, <2>3, <2>4, <2>5, <2>6
  <1>12. h \in second
    BY <1>8, <1>9, <1>10, <1>11 DEF Handles, Denotes, OffersName
  <1> QED
    BY <1>7, <1>12

(* What requests take: everything of them can be read but the token of a   *)
(* password reset; a branch is one of a repository's; this server asks for *)
(* nothing it does not list.                                               *)
RequestsTake(op) ==
  /\ op # "resetPassword" => Wanted(op) \subseteq Handles
  /\ op = "resetPassword" => Wanted(op) = {"token"}
  /\ "ref" \in Wanted(op) => "owner" \in Wanted(op)
  /\ "provider" \in Wanted(op) <=> op \in Redirects
  /\ op \in Served => Wanted(op) \cap {"sha", "category", "workflow", "run"} = {}

(* What this server implements of four of the tables.                      *)
LEMMA ServedOnes ==
  Served \cap (DOMAIN RepositoryRoutes \cup DOMAIN GitRoutes \cup DOMAIN PublicationRoutes
                  \cup DOMAIN AutomationRoutes)
    = {"listRepositories", "getRepository", "getTree"}
  BY TablesAre DEF Served, PullRequestInputs

(* Every operation is so.                                                  *)
LEMMA RequestsTakeWhatIsRead ==
  ASSUME NEW op \in Operations
  PROVE  RequestsTake(op)
  <1>1. CASE op \in DOMAIN AccountRoutes
    BY <1>1, TablesAre, AccountRequests DEF RequestsTake, Asks, Changes, Handles, Redirects
  <1>2. CASE op \in DOMAIN PeopleRoutes
    BY <1>2, TablesAre, PeopleRequests DEF RequestsTake, Asks, Changes, Handles, Redirects
  <1>3. CASE op \in DOMAIN RepositoryRoutes
    BY <1>3, TablesAre, RepositoryRequests, ServedOnes
    DEF RequestsTake, Asks, Changes, Handles, Redirects
  <1>4. CASE op \in DOMAIN GitRoutes
    BY <1>4, TablesAre, GitRequests, ServedOnes
    DEF RequestsTake, Asks, Changes, Handles, Redirects
  <1>5. CASE op \in DOMAIN IssueRoutes
    BY <1>5, TablesAre, IssueRequests DEF RequestsTake, Asks, Changes, Handles, Redirects
  <1>6. CASE op \in DOMAIN PullRequestRoutes
    BY <1>6, TablesAre, PullRequestRequests DEF RequestsTake, Asks, Changes, Handles, Redirects
  <1>7. CASE op \in DOMAIN PublicationRoutes
    BY <1>7, TablesAre, PublicationRequests, ServedOnes
    DEF RequestsTake, Asks, Changes, Handles, Redirects
  <1>8. CASE op \in DOMAIN AutomationRoutes
    BY <1>8, TablesAre, AutomationRequests, ServedOnes
    DEF RequestsTake, Asks, Changes, Handles, Redirects
  <1>9. CASE op \in DOMAIN SettingsRoutes
    BY <1>9, TablesAre, SettingsRequests DEF RequestsTake, Asks, Changes, Handles, Redirects
  <1>10. CASE op \in DOMAIN ActivityRoutes
    BY <1>10, TablesAre, ActivityRequests DEF RequestsTake, Asks, Changes, Handles, Redirects
  <1> QED
    BY <1>1, <1>2, <1>3, <1>4, <1>5, <1>6, <1>7, <1>8, <1>9, <1>10, OperationsAre

(* The things a request is about are those its handles name.               *)
LEMMA NamedAre ==
  ASSUME NEW op, NEW things
  PROVE  Named(op) \subseteq things <=> \A h \in Wanted(op) : Denotes(h) \subseteq things
  <1>1. ASSUME NEW h \in Wanted(op)
        PROVE  Denotes(h) \subseteq Named(op)
    BY DEF Denotes, Named, Kinds
  <1>2. ASSUME NEW kind \in Named(op)
        PROVE  \E h \in Wanted(op) : kind \in Denotes(h)
    <2>1. CASE kind = "repository"
      <3>1. PICK h \in Wanted(op) : h \in {"owner", "repo"}
        BY <2>1 DEF Named
      <3> QED
        BY <2>1, <3>1 DEF Denotes
    <2>2. CASE kind = "pull"
      <3>1. PICK h \in Wanted(op) : h \in {"pull", "head"}
        BY <2>2 DEF Named
      <3> QED
        BY <2>2, <3>1 DEF Denotes
    <2>3. CASE kind = "organization"
      <3>1. "org" \in Wanted(op)
        BY <2>3 DEF Named
      <3> QED
        BY <2>3, <3>1 DEF Denotes
    <2>4. CASE kind = "commit"
      <3>1. "sha" \in Wanted(op)
        BY <2>4 DEF Named
      <3> QED
        BY <2>4, <3>1 DEF Denotes
    <2>5. CASE kind = "discussion"
      <3>1. "category" \in Wanted(op)
        BY <2>5 DEF Named
      <3> QED
        BY <2>5, <3>1 DEF Denotes
    <2>6. CASE kind \in {"issue", "workflow", "run"}
      <3>1. kind \in Wanted(op)
        BY <2>6 DEF Named
      <3> QED
        BY <2>6, <3>1 DEF Denotes
    <2> QED
      BY <2>1, <2>2, <2>3, <2>4, <2>5, <2>6 DEF Named
  <1> QED
    BY <1>1, <1>2

(* So whoever is signed in can write a request just when what it is about  *)
(* is there.                                                               *)
LEMMA WritableWhenThere ==
  ASSUME NEW server \in Adapters, NEW things, Closed(things), NEW op \in OfferedBy(server)
  PROVE  Wanted(op) \subseteq HeldAt(server, TRUE, things) <=>
           /\ op # "resetPassword"
           /\ server = "mock" => op \notin Redirects
           /\ Named(op) \subseteq things
  <1>1. op \in Operations
    BY ServedAreOperations DEF OfferedBy
  <1>2. RequestsTake(op)
    BY <1>1, RequestsTakeWhatIsRead
  <1>3. server = "mock" => op \in Served
    BY DEF OfferedBy
  <1>4. ASSUME Wanted(op) \subseteq HeldAt(server, TRUE, things)
        PROVE  /\ op # "resetPassword"
               /\ server = "mock" => op \notin Redirects
               /\ Named(op) \subseteq things
    <2>1. \A h \in Wanted(op) : /\ h \in Handles /\ Denotes(h) \subseteq things
                                /\ h = "provider" => server # "mock"
      BY <1>4, HeldIsTrue
    <2>2. "token" \notin Handles
      BY DEF Handles
    <2> QED
      BY <1>2, <2>1, <2>2, NamedAre DEF RequestsTake
  <1>5. ASSUME op # "resetPassword", server = "mock" => op \notin Redirects,
               Named(op) \subseteq things, NEW h \in Wanted(op)
        PROVE  h \in HeldAt(server, TRUE, things)
    <2>1. h \in Handles /\ Denotes(h) \subseteq things
      BY <1>2, <1>5, NamedAre DEF RequestsTake
    <2>2. h = "ref" => "repository" \in things
      <3>1. h = "ref" => Denotes("owner") \subseteq things
        BY <1>2, <1>5, NamedAre DEF RequestsTake
      <3> QED
        BY <3>1 DEF Denotes
    <2>3. OffersName(server, h)
      BY <1>2, <1>3, <1>5 DEF RequestsTake, OffersName
    <2> QED
      BY <2>1, <2>2, <2>3, WhatIsThereIsHeld
  <1> QED
    BY <1>4, <1>5

(* What a change that names an entity tag is read by before.               *)
ReadBefore(op) ==
  CASE op \in {"updateRepository", "deleteRepository"} -> "getRepository"
    [] op = "updateIssue" -> "getIssue"
    [] op = "updatePullRequest" -> "getPullRequest"
    [] op = "replaceRepositoryAccess" -> "getRepositoryAccess"
    [] op = "updateRepositoryCachePolicy" -> "getRepositoryCache"
Conditional == {"updateRepository", "deleteRepository", "updateIssue", "updatePullRequest",
                "replaceRepositoryAccess", "updateRepositoryCachePolicy"}
Marks(op) == "etag" \in Inputs[op].headers <=> op \in Conditional \cup {"updateOrganization"}

(* The operations that name an entity tag.                                 *)
LEMMA ConditionalOnes ==
  ASSUME NEW op \in Operations
  PROVE  Marks(op)
  <1>1. CASE op \in DOMAIN AccountRoutes
    BY <1>1, TablesAre, AccountRequests DEF Marks, Conditional, Asks, Changes
  <1>2. CASE op \in DOMAIN PeopleRoutes
    BY <1>2, TablesAre, PeopleRequests DEF Marks, Conditional, Asks, Changes
  <1>3. CASE op \in DOMAIN RepositoryRoutes
    BY <1>3, TablesAre, RepositoryRequests DEF Marks, Conditional, Asks, Changes
  <1>4. CASE op \in DOMAIN GitRoutes
    BY <1>4, TablesAre, GitRequests DEF Marks, Conditional, Asks, Changes
  <1>5. CASE op \in DOMAIN IssueRoutes
    BY <1>5, TablesAre, IssueRequests DEF Marks, Conditional, Asks, Changes
  <1>6. CASE op \in DOMAIN PullRequestRoutes
    BY <1>6, TablesAre, PullRequestRequests DEF Marks, Conditional, Asks, Changes
  <1>7. CASE op \in DOMAIN PublicationRoutes
    BY <1>7, TablesAre, PublicationRequests DEF Marks, Conditional, Asks, Changes
  <1>8. CASE op \in DOMAIN AutomationRoutes
    BY <1>8, TablesAre, AutomationRequests DEF Marks, Conditional, Asks, Changes
  <1>9. CASE op \in DOMAIN SettingsRoutes
    BY <1>9, TablesAre, SettingsRequests DEF Marks, Conditional, Asks, Changes
  <1>10. CASE op \in DOMAIN ActivityRoutes
    BY <1>10, TablesAre, ActivityRequests DEF Marks, Conditional, Asks, Changes
  <1> QED
    BY <1>1, <1>2, <1>3, <1>4, <1>5, <1>6, <1>7, <1>8, <1>9, <1>10, OperationsAre

(* That read is on the same path, takes nothing more and names the tag.    *)
LEMMA TagsAreRead ==
  ASSUME NEW op \in Conditional
  PROVE  /\ op \in Operations
         /\ ReadBefore(op) \in Tagged \cap Operations
         /\ Method(ReadBefore(op)) = "GET"
         /\ Template(ReadBefore(op)) = Template(op)
         /\ Wanted(ReadBefore(op)) \subseteq Wanted(op)
         /\ op \in Served => ReadBefore(op) \in Served
  <1>1. op \in Operations /\ ReadBefore(op) \in Operations
    BY OperationsAre, TablesAre DEF Conditional, ReadBefore
  <1>2. ReadBefore(op) \in Tagged
    BY DEF Conditional, ReadBefore, Tagged
  <1>3. /\ Method(ReadBefore(op)) = "GET"
        /\ Under(ReadBefore(op)) = Under(op) /\ Rest(ReadBefore(op)) = Rest(op)
    BY RepositoryRows, IssueRows, PullRequestRows, SettingsRows
    DEF Conditional, ReadBefore, Row0, Row1, Row2, Row, Rest0, Rest1, Rest2
  <1>4. Template(ReadBefore(op)) = Template(op)
    BY <1>3 DEF Template, Under, Rest
  <1>5. Wanted(ReadBefore(op)) \subseteq Wanted(op)
    BY RepositoryRequests, IssueRequests, PullRequestRequests, SettingsRequests
    DEF Conditional, ReadBefore, Asks, Changes
  <1>6. op \in Served => ReadBefore(op) \in Served
    BY DEF Conditional, ReadBefore, Served, PullRequestInputs
  <1> QED
    BY <1>1, <1>2, <1>3, <1>4, <1>5, <1>6

(* No read names the tag of an organization.                               *)
LEMMA OrganizationsAreUntagged ==
  ASSUME NEW r \in Tagged \cap Operations, Method(r) = "GET"
  PROVE  Template(r) # Template("updateOrganization")
  <1>1. r \in {"getRepository", "getIssue", "getPullRequest", "getRepositoryAccess",
               "getRepositoryCache"}
    BY PeopleRows, RepositoryRows, IssueRows, PullRequestRows, PublicationRows, AutomationRows,
       SettingsRows
    DEF Tagged, Row0, Row1, Row2, Row3, Row
  <1>2. Under(r) = "repository"
    BY <1>1, RepositoryRows, IssueRows, PullRequestRows, SettingsRows
    DEF Row0, Row1, Row2, Row
  <1>3. "updateOrganization" \in Operations /\ Under("updateOrganization") = "organization"
    BY OperationsAre, TablesAre, PeopleRows DEF Row0, Row
  <1> QED
    BY <1>2, <1>3, FirstWords

(* What whoever is signed in can ask for: everything about what is there.  *)
LEMMA AskedWhenThere ==
  ASSUME NEW server \in Adapters, NEW things, Closed(things)
  PROVE  StartableAt(server, TRUE, things) =
           {op \in OfferedBy(server) \ {"updateOrganization", "resetPassword"} :
              /\ server = "mock" => op \notin Redirects
              /\ Named(op) \subseteq things}
  <1> DEFINE held == HeldAt(server, TRUE, things)
             able == {op \in OfferedBy(server) : Wanted(op) \subseteq held}
             TagOf(op) == {r \in Tagged \cap able : Method(r) = "GET" /\ Template(r) = Template(op)}
  <1>1. StartableAt(server, TRUE, things) =
          {op \in able : "etag" \in Inputs[op].headers => TagOf(op) # {}}
    BY DEF StartableAt, Admits
  <1>2. able \subseteq Operations
    BY ServedAreOperations DEF OfferedBy
  <1>3. ASSUME NEW op \in able
        PROVE  ("etag" \in Inputs[op].headers => TagOf(op) # {}) <=> op # "updateOrganization"
    <2>1. CASE op = "updateOrganization"
      <3>1. ASSUME NEW r \in TagOf(op)
            PROVE  FALSE
        <4>1. r \in Tagged \cap Operations /\ Method(r) = "GET"
          BY <1>2
        <4>2. Template(r) = Template("updateOrganization")
          BY <2>1
        <4> QED
          BY <4>1, <4>2, OrganizationsAreUntagged
      <3>2. TagOf(op) = {}
        BY <3>1
      <3> QED
        BY <1>2, <2>1, <3>2, ConditionalOnes DEF Marks
    <2>2. CASE op \in Conditional
      <3>1. ReadBefore(op) \in OfferedBy(server)
        BY <2>2, TagsAreRead DEF OfferedBy
      <3>2. ReadBefore(op) \in TagOf(op)
        BY <2>2, <3>1, TagsAreRead
      <3> QED
        BY <2>2, <3>2 DEF Conditional
    <2>3. CASE op \notin Conditional \cup {"updateOrganization"}
      BY <1>2, <2>3, ConditionalOnes DEF Marks
    <2> QED
      BY <2>1, <2>2, <2>3
  <1>4. able = {op \in OfferedBy(server) :
                  /\ op # "resetPassword"
                  /\ server = "mock" => op \notin Redirects
                  /\ Named(op) \subseteq things}
    BY WritableWhenThere
  <1> HIDE DEF able, TagOf
  <1> QED
    BY <1>1, <1>3, <1>4

(* WhatExistsCanBeAsked is true of every server of the whole contract, not *)
(* only of those with the branches of the run: generated-client.ts has for *)
(* every name a request takes a list that gives it, on the same terms.     *)
THEOREM WhatExistsIsAskable == Spec => []WhatExistsCanBeAsked
  <1>1. TypeOK => WhatExistsCanBeAsked
    <2> SUFFICES ASSUME TypeOK, signed, adapter = "conforming"
                 PROVE  Startable = {op \in Operations \ {"updateOrganization", "resetPassword"} :
                                       Named(op) \subseteq kinds}
      BY DEF WhatExistsCanBeAsked
    <2>1. Closed(kinds) /\ adapter \in Adapters /\ signed = TRUE
      BY DEF TypeOK, Closed
    <2>2. Startable = StartableAt(adapter, TRUE, kinds)
      BY <2>1, StartableIs
    <2>3. StartableAt(adapter, TRUE, kinds) =
            {op \in OfferedBy(adapter) \ {"updateOrganization", "resetPassword"} :
               /\ adapter = "mock" => op \notin Redirects
               /\ Named(op) \subseteq kinds}
      BY <2>1, AskedWhenThere
    <2>4. OfferedBy(adapter) = Operations
      BY DEF OfferedBy
    <2> QED
      BY <2>2, <2>3, <2>4
  <1> QED
    BY <1>1, TypeCorrect, PTL

(* ServedCanBeAsked is true of this repository's server: main.py,          *)
(* collaboration.py and discovery.py implement with each operation that    *)
(* takes a name one that gives it, and with each that takes an entity tag  *)
(* the read of the same path.                                              *)
THEOREM ServedIsAskable == Spec => []ServedCanBeAsked
  <1>1. TypeOK => ServedCanBeAsked
    <2> SUFFICES ASSUME TypeOK, signed, adapter = "mock"
                 PROVE  Startable = {op \in Served \ Redirects : Named(op) \subseteq kinds}
      BY DEF ServedCanBeAsked
    <2>1. Closed(kinds) /\ adapter \in Adapters /\ signed = TRUE
      BY DEF TypeOK, Closed
    <2>2. Startable = StartableAt(adapter, TRUE, kinds)
      BY <2>1, StartableIs
    <2>3. {"updateOrganization", "resetPassword"} \cap Served = {}
      BY DEF Served, PullRequestInputs
    <2>4. StartableAt(adapter, TRUE, kinds) =
            {op \in OfferedBy(adapter) \ {"updateOrganization", "resetPassword"} :
               /\ adapter = "mock" => op \notin Redirects
               /\ Named(op) \subseteq kinds}
      BY <2>1, AskedWhenThere
    <2>5. OfferedBy(adapter) = Served
      BY DEF OfferedBy
    <2> QED
      BY <2>2, <2>3, <2>4, <2>5
  <1> QED
    BY <1>1, TypeCorrect, PTL
=============================================================================
