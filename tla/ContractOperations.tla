-------------------------- MODULE ContractOperations --------------------------
(* The operations of the contract: what the input and output types of         *)
(* generated-client.ts ask of a caller and give it, and where the methods of  *)
(* its class send them.  Query parameters are all optional but search's q.    *)
EXTENDS ContractTypes, Sequences

CONSTANT None    \* no body, no output

ASSUME NoneAssumption == None \notin TypeNames \cup DOMAIN Bodies

(* An operation without headers; one that needs the session's CSRF token, and *)
(* with it a fresh Idempotency-Key or the entity tag of what it changes.      *)
Get(path, output) == [path |-> path, headers |-> {}, body |-> None, output |-> output]
Send(path, body, output) == [Get(path, output) EXCEPT !.body = body]
Act(path, body, output) == [Send(path, body, output) EXCEPT !.headers = {"csrf"}]
Make(path, body, output) == [Send(path, body, output) EXCEPT !.headers = {"csrf", "key"}]
Change(path, body, output) == [Send(path, body, output) EXCEPT !.headers = {"csrf", "etag"}]

InRepo == {"owner", "repo"}

AccountInputs ==
  [ getMeta                 |-> Get({}, "InstanceMeta"),
    getCapabilities         |-> Get({}, "CapabilitySet"),
    getViewer               |-> Get({}, "Viewer"),
    listAuthMethods         |-> Get({}, "AuthMethods"),
    startAuthProvider       |-> Get({"provider"}, None),
    completeAuthProvider    |-> Get({"provider"}, "Session"),
    getSession              |-> Get({}, "Session"),
    logout                  |-> Act({}, None, None),
    login                   |-> Send({}, "LoginRequest", "Session"),
    register                |-> Send({}, "RegisterRequest", "Session"),
    requestPasswordRecovery |-> Send({}, "Email", None),
    resetPassword           |-> Send({"token"}, "Password", None) ]

PeopleInputs ==
  [ getDashboard         |-> Get({}, "Dashboard"),
    getUser              |-> Get({"username"}, "User"),
    listUserRepositories |-> Get({"username"}, "RepositoryPage"),
    listFollowers        |-> Get({"username"}, "UserPage"),
    listFollowing        |-> Get({"username"}, "UserPage"),
    getOrganization      |-> Get({"org"}, "Organization"),
    updateOrganization   |-> Change({"org"}, "OrganizationUpdate", "Organization"),
    listTeams            |-> Get({"org"}, "TeamPage") ]

RepositoryInputs ==
  [ listRepositories |-> Get({}, "RepositoryPage"),
    createRepository |-> Make({}, "RepositoryCreate", "Repository"),
    getRepository    |-> Get(InRepo, "Repository"),
    updateRepository |-> Change(InRepo, "RepositoryUpdate", "Repository"),
    deleteRepository |-> Change(InRepo, None, None),
    listRefs         |-> Get(InRepo, "RefPage") ]

GitInputs ==
  [ getTree         |-> Get(InRepo \cup {"ref"}, "GitTree"),
    getBlob         |-> Get(InRepo \cup {"ref"}, "GitBlob"),
    getRawContent   |-> Get(InRepo \cup {"ref"}, None),
    listCommits     |-> Get(InRepo, "CommitPage"),
    getCommit       |-> Get(InRepo \cup {"sha"}, "CommitDetail"),
    compareRefs     |-> Get(InRepo \cup {"ref"}, "Comparison"),
    getBlame        |-> Get(InRepo \cup {"ref"}, "Blame"),
    downloadArchive |-> Get(InRepo \cup {"ref"}, None) ]

IssueInputs ==
  [ listIssues         |-> Get(InRepo, "IssuePage"),
    createIssue        |-> Make(InRepo, "IssueWrite", "Issue"),
    getIssue           |-> Get(InRepo \cup {"issue"}, "Issue"),
    updateIssue        |-> Change(InRepo \cup {"issue"}, "IssueWrite", "Issue"),
    listIssueComments  |-> Get(InRepo \cup {"issue"}, "CommentPage"),
    createIssueComment |-> Make(InRepo \cup {"issue"}, "CommentWrite", "Comment"),
    listLabels         |-> Get(InRepo, "LabelPage"),
    createLabel        |-> Make(InRepo, "LabelWrite", "Label"),
    listMilestones     |-> Get(InRepo, "MilestonePage") ]

PullRequestInputs ==
  [ listPullRequests        |-> Get(InRepo, "PullRequestPage"),
    createPullRequest       |-> Make(InRepo, "PullRequestCreate", "PullRequest"),
    getPullRequest          |-> Get(InRepo \cup {"pull"}, "PullRequest"),
    updatePullRequest       |-> Change(InRepo \cup {"pull"}, "IssueWrite", "PullRequest"),
    listPullRequestFiles    |-> Get(InRepo \cup {"pull"}, "DiffFilePage"),
    listPullRequestReviews  |-> Get(InRepo \cup {"pull"}, "ReviewPage"),
    submitPullRequestReview |-> Make(InRepo \cup {"pull"}, "ReviewWrite", "Review"),
    getPullRequestChecks    |-> Get(InRepo \cup {"pull"}, "CheckSuitePage"),
    mergePullRequest        |-> Make(InRepo \cup {"pull"}, "MergeRequest", "MergeResult") ]

PublicationInputs ==
  [ listReleases     |-> Get(InRepo, "ReleasePage"),
    createRelease    |-> Make(InRepo, "ReleaseWrite", "Release"),
    listDiscussions  |-> Get(InRepo, "DiscussionPage"),
    createDiscussion |-> Make(InRepo, "DiscussionWrite", "Discussion"),
    listWikiPages    |-> Get(InRepo, "WikiPageList"),
    createWikiPage   |-> Make(InRepo, "WikiWrite", "WikiPage") ]

AutomationInputs ==
  [ listProjects          |-> Get(InRepo, "ProjectPage"),
    createProject         |-> Make(InRepo, "ProjectWrite", "Project"),
    listWorkflows         |-> Get(InRepo, "WorkflowPage"),
    dispatchWorkflow      |-> Make(InRepo \cup {"workflow"}, "WorkflowDispatch", None),
    listWorkflowRuns      |-> Get(InRepo, "WorkflowRunPage"),
    getWorkflowRun        |-> Get(InRepo \cup {"run"}, "WorkflowRun"),
    cancelWorkflowRun     |-> Act(InRepo \cup {"run"}, None, None),
    getSecurityOverview   |-> Get(InRepo, "SecurityOverview"),
    getRepositoryInsights |-> Get(InRepo, "RepositoryInsights") ]

SettingsInputs ==
  [ getRepositoryAccess         |-> Get(InRepo, "AccessSettings"),
    replaceRepositoryAccess     |-> Change(InRepo, "AccessSettings", "AccessSettings"),
    getRepositoryCache          |-> Get(InRepo, "RepositoryCache"),
    updateRepositoryCachePolicy |-> Change(InRepo, "RepositoryCachePolicy", "RepositoryCache"),
    invalidateRepositoryCache   |-> Make(InRepo, None, "CacheInvalidation"),
    listRepositoryRules         |-> Get(InRepo, "RulePage"),
    listWebhooks                |-> Get(InRepo, "WebhookPage"),
    createWebhook               |-> Make(InRepo, "WebhookWrite", "Webhook") ]

ActivityInputs ==
  [ listNotifications     |-> Get({}, "NotificationPage"),
    markNotificationsRead |-> Act({}, "NotificationIds", None),
    search                |-> Get({}, "SearchResultPage"),
    streamEvents          |-> Get({}, None) ]

Operations ==
  UNION {DOMAIN AccountInputs, DOMAIN PeopleInputs, DOMAIN RepositoryInputs, DOMAIN GitInputs,
         DOMAIN IssueInputs, DOMAIN PullRequestInputs, DOMAIN PublicationInputs,
         DOMAIN AutomationInputs, DOMAIN SettingsInputs, DOMAIN ActivityInputs}

Inputs ==
  [op \in Operations |->
     CASE op \in DOMAIN AccountInputs     -> AccountInputs[op]
       [] op \in DOMAIN PeopleInputs      -> PeopleInputs[op]
       [] op \in DOMAIN RepositoryInputs  -> RepositoryInputs[op]
       [] op \in DOMAIN GitInputs         -> GitInputs[op]
       [] op \in DOMAIN IssueInputs       -> IssueInputs[op]
       [] op \in DOMAIN PullRequestInputs -> PullRequestInputs[op]
       [] op \in DOMAIN PublicationInputs -> PublicationInputs[op]
       [] op \in DOMAIN AutomationInputs  -> AutomationInputs[op]
       [] op \in DOMAIN SettingsInputs    -> SettingsInputs[op]
       [] op \in DOMAIN ActivityInputs    -> ActivityInputs[op]]

(* The method of each operation, what its path is under, and the segments     *)
(* after that, those in Parameters standing for a value.                      *)
Parameters == {":provider", ":token", ":username", ":org", ":owner", ":repo", ":ref", ":sha",
               ":base...:head", ":number", ":workflowId", ":runId"}
Base(of) ==
  CASE of = "instance"     -> <<>>
    [] of = "user"         -> <<"users", ":username">>
    [] of = "organization" -> <<"organizations", ":org">>
    [] of = "repository"   -> <<"repositories", ":owner", ":repo">>

AccountRoutes ==
  [ getMeta                 |-> <<"GET", "instance", <<"meta">>>>,
    getCapabilities         |-> <<"GET", "instance", <<"capabilities">>>>,
    getViewer               |-> <<"GET", "instance", <<"viewer">>>>,
    listAuthMethods         |-> <<"GET", "instance", <<"auth", "methods">>>>,
    startAuthProvider       |-> <<"GET", "instance", <<"auth", "providers", ":provider", "start">>>>,
    completeAuthProvider    |-> <<"GET", "instance", <<"auth", "providers", ":provider", "callback">>>>,
    getSession              |-> <<"GET", "instance", <<"auth", "session">>>>,
    logout                  |-> <<"DELETE", "instance", <<"auth", "session">>>>,
    login                   |-> <<"POST", "instance", <<"auth", "login">>>>,
    register                |-> <<"POST", "instance", <<"auth", "register">>>>,
    requestPasswordRecovery |-> <<"POST", "instance", <<"auth", "recovery">>>>,
    resetPassword           |-> <<"POST", "instance", <<"auth", "recovery", ":token">>>> ]

PeopleRoutes ==
  [ getDashboard         |-> <<"GET", "instance", <<"dashboard">>>>,
    getUser              |-> <<"GET", "user", <<>>>>,
    listUserRepositories |-> <<"GET", "user", <<"repositories">>>>,
    listFollowers        |-> <<"GET", "user", <<"followers">>>>,
    listFollowing        |-> <<"GET", "user", <<"following">>>>,
    getOrganization      |-> <<"GET", "organization", <<>>>>,
    updateOrganization   |-> <<"PATCH", "organization", <<>>>>,
    listTeams            |-> <<"GET", "organization", <<"teams">>>> ]

RepositoryRoutes ==
  [ listRepositories |-> <<"GET", "instance", <<"repositories">>>>,
    createRepository |-> <<"POST", "instance", <<"repositories">>>>,
    getRepository    |-> <<"GET", "repository", <<>>>>,
    updateRepository |-> <<"PATCH", "repository", <<>>>>,
    deleteRepository |-> <<"DELETE", "repository", <<>>>>,
    listRefs         |-> <<"GET", "repository", <<"refs">>>> ]

GitRoutes ==
  [ getTree         |-> <<"GET", "repository", <<"tree", ":ref">>>>,
    getBlob         |-> <<"GET", "repository", <<"blob", ":ref">>>>,
    getRawContent   |-> <<"GET", "repository", <<"raw", ":ref">>>>,
    listCommits     |-> <<"GET", "repository", <<"commits">>>>,
    getCommit       |-> <<"GET", "repository", <<"commits", ":sha">>>>,
    compareRefs     |-> <<"GET", "repository", <<"compare", ":base...:head">>>>,
    getBlame        |-> <<"GET", "repository", <<"blame", ":ref">>>>,
    downloadArchive |-> <<"GET", "repository", <<"archive", ":ref">>>> ]

IssueRoutes ==
  [ listIssues         |-> <<"GET", "repository", <<"issues">>>>,
    createIssue        |-> <<"POST", "repository", <<"issues">>>>,
    getIssue           |-> <<"GET", "repository", <<"issues", ":number">>>>,
    updateIssue        |-> <<"PATCH", "repository", <<"issues", ":number">>>>,
    listIssueComments  |-> <<"GET", "repository", <<"issues", ":number", "comments">>>>,
    createIssueComment |-> <<"POST", "repository", <<"issues", ":number", "comments">>>>,
    listLabels         |-> <<"GET", "repository", <<"labels">>>>,
    createLabel        |-> <<"POST", "repository", <<"labels">>>>,
    listMilestones     |-> <<"GET", "repository", <<"milestones">>>> ]

PullRequestRoutes ==
  [ listPullRequests        |-> <<"GET", "repository", <<"pulls">>>>,
    createPullRequest       |-> <<"POST", "repository", <<"pulls">>>>,
    getPullRequest          |-> <<"GET", "repository", <<"pulls", ":number">>>>,
    updatePullRequest       |-> <<"PATCH", "repository", <<"pulls", ":number">>>>,
    listPullRequestFiles    |-> <<"GET", "repository", <<"pulls", ":number", "files">>>>,
    listPullRequestReviews  |-> <<"GET", "repository", <<"pulls", ":number", "reviews">>>>,
    submitPullRequestReview |-> <<"POST", "repository", <<"pulls", ":number", "reviews">>>>,
    getPullRequestChecks    |-> <<"GET", "repository", <<"pulls", ":number", "checks">>>>,
    mergePullRequest        |-> <<"POST", "repository", <<"pulls", ":number", "merge">>>> ]

PublicationRoutes ==
  [ listReleases     |-> <<"GET", "repository", <<"releases">>>>,
    createRelease    |-> <<"POST", "repository", <<"releases">>>>,
    listDiscussions  |-> <<"GET", "repository", <<"discussions">>>>,
    createDiscussion |-> <<"POST", "repository", <<"discussions">>>>,
    listWikiPages    |-> <<"GET", "repository", <<"wiki", "pages">>>>,
    createWikiPage   |-> <<"POST", "repository", <<"wiki", "pages">>>> ]

AutomationRoutes ==
  [ listProjects          |-> <<"GET", "repository", <<"projects">>>>,
    createProject         |-> <<"POST", "repository", <<"projects">>>>,
    listWorkflows         |-> <<"GET", "repository", <<"workflows">>>>,
    dispatchWorkflow      |-> <<"POST", "repository", <<"workflows", ":workflowId", "dispatch">>>>,
    listWorkflowRuns      |-> <<"GET", "repository", <<"runs">>>>,
    getWorkflowRun        |-> <<"GET", "repository", <<"runs", ":runId">>>>,
    cancelWorkflowRun     |-> <<"DELETE", "repository", <<"runs", ":runId">>>>,
    getSecurityOverview   |-> <<"GET", "repository", <<"security">>>>,
    getRepositoryInsights |-> <<"GET", "repository", <<"insights">>>> ]

SettingsRoutes ==
  [ getRepositoryAccess         |-> <<"GET", "repository", <<"settings", "access">>>>,
    replaceRepositoryAccess     |-> <<"PUT", "repository", <<"settings", "access">>>>,
    getRepositoryCache          |-> <<"GET", "repository", <<"settings", "cache">>>>,
    updateRepositoryCachePolicy |-> <<"PUT", "repository", <<"settings", "cache">>>>,
    invalidateRepositoryCache   |-> <<"POST", "repository", <<"settings", "cache", "invalidate">>>>,
    listRepositoryRules         |-> <<"GET", "repository", <<"settings", "rules">>>>,
    listWebhooks                |-> <<"GET", "repository", <<"settings", "hooks">>>>,
    createWebhook               |-> <<"POST", "repository", <<"settings", "hooks">>>> ]

ActivityRoutes ==
  [ listNotifications     |-> <<"GET", "instance", <<"notifications">>>>,
    markNotificationsRead |-> <<"PATCH", "instance", <<"notifications">>>>,
    search                |-> <<"GET", "instance", <<"search">>>>,
    streamEvents          |-> <<"GET", "instance", <<"events", "stream">>>> ]

Routes ==
  [op \in Operations |->
     CASE op \in DOMAIN AccountRoutes     -> AccountRoutes[op]
       [] op \in DOMAIN PeopleRoutes      -> PeopleRoutes[op]
       [] op \in DOMAIN RepositoryRoutes  -> RepositoryRoutes[op]
       [] op \in DOMAIN GitRoutes         -> GitRoutes[op]
       [] op \in DOMAIN IssueRoutes       -> IssueRoutes[op]
       [] op \in DOMAIN PullRequestRoutes -> PullRequestRoutes[op]
       [] op \in DOMAIN PublicationRoutes -> PublicationRoutes[op]
       [] op \in DOMAIN AutomationRoutes  -> AutomationRoutes[op]
       [] op \in DOMAIN SettingsRoutes    -> SettingsRoutes[op]
       [] op \in DOMAIN ActivityRoutes    -> ActivityRoutes[op]]
Method(op) == Routes[op][1]
Template(op) == Base(Routes[op][2]) \o Routes[op][3]   \* after /api/v1

(* The operations whose successful answer has an ETag header.                 *)
Tagged == {"updateOrganization", "createRepository", "getRepository", "updateRepository",
           "createIssue", "getIssue", "updateIssue", "createIssueComment", "createLabel",
           "createPullRequest", "getPullRequest", "updatePullRequest", "createRelease",
           "createDiscussion", "createWikiPage", "createProject", "getRepositoryAccess",
           "replaceRepositoryAccess", "getRepositoryCache", "updateRepositoryCachePolicy",
           "createWebhook"}

(* What the contract gives to those who are not signed in.                    *)
Public ==
  {"getMeta", "getCapabilities", "listAuthMethods", "startAuthProvider", "completeAuthProvider",
   "getSession", "login", "register", "requestPasswordRecovery", "resetPassword", "getRepository",
   "search"}
    \cup {op \in DOMAIN (PeopleInputs @@ GitInputs @@ IssueInputs @@ PullRequestInputs) :
            Method(op) = "GET" /\ op # "getDashboard" /\ op # "listTeams"}
    \cup {"listRefs", "listReleases", "listDiscussions", "listWikiPages", "getRepositoryInsights"}

\* mutation: issues are listed but not read one by one
ServedWithoutGetIssue ==
  {"getMeta", "getCapabilities", "listAuthMethods", "startAuthProvider", "completeAuthProvider",
   "getSession", "login", "logout", "getViewer", "getDashboard", "listRepositories",
   "getRepository", "getTree", "listIssues", "createIssue", "updateIssue",
   "listIssueComments", "createIssueComment", "listNotifications", "markNotificationsRead", "search"}
    \cup DOMAIN PullRequestInputs

(* The operations this repository's server implements.                        *)
Served ==
  {"getMeta", "getCapabilities", "listAuthMethods", "startAuthProvider", "completeAuthProvider",
   "getSession", "login", "logout", "getViewer", "getDashboard", "listRepositories",
   "getRepository", "getTree", "listIssues", "createIssue", "getIssue", "updateIssue",
   "listIssueComments", "createIssueComment", "listNotifications", "markNotificationsRead", "search"}
    \cup DOMAIN PullRequestInputs
=============================================================================
