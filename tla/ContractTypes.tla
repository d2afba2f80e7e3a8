---------------------------- MODULE ContractTypes ----------------------------
(* The data of the contract, from the types of                               *)
(* packages/contracts/src/generated-client.ts.  A type is the set of what a   *)
(* value of it carries: handles, in lower case, that another request needs,  *)
(* and the types, capitalised, of its parts.  A type without an entry        *)
(* carries neither.                                                          *)
EXTENDS TLC, FiniteSetsExt

(* ProblemDetails to InstanceMeta: no handle in any of them.                 *)
SystemTypes ==
  [ ProblemDetails |-> {"FieldError"},
    InstanceMeta   |-> {"BrandingManifest", "Freshness"} ]

AccountTypes ==
  [ AuthProvider |-> {"provider"},
    AuthMethods  |-> {"AuthProvider"},
    Session      |-> {"csrf", "Viewer"},
    Viewer       |-> {"User"},
    User         |-> {"username", "subject", "Freshness"},
    UserPage     |-> {"User", "PageInfo"},
    Organization |-> {"org", "ResourcePermissions"},
    Team         |-> {"subject"},
    TeamPage     |-> {"Team", "PageInfo"} ]

(* An owner's login names an organization as well when it is one.            *)
RepositoryTypes ==
  [ Repository       |-> {"repo", "ref", "RepositoryOwner", "CloneUrls", "RepositoryCounts",
                          "ResourcePermissions", "Freshness"},
    RepositoryOwner  |-> {"owner", "org"},
    RepositoryUpdate |-> {"RepositoryFeatures"},
    RepositoryPage   |-> {"Repository", "PageInfo"},
    Dashboard        |-> {"RepositoryPage", "TimelineEvent"} ]

GitTypes ==
  [ GitRef        |-> {"ref", "sha"},
    RefPage       |-> {"GitRef", "PageInfo"},
    GitTree       |-> {"ref", "TreeEntry", "CommitSummary"},
    TreeEntry     |-> {"CommitSummary"},
    CommitSummary |-> {"sha", "GitActor", "Verification"},
    GitActor      |-> {"User"},
    CommitDetail  |-> {"CommitSummary", "GitActor", "DiffStats", "DiffFile"},
    CommitPage    |-> {"CommitSummary", "PageInfo"},
    DiffFile      |-> {"DiffHunk"},
    DiffHunk      |-> {"DiffLine"},
    DiffFilePage  |-> {"DiffFile", "PageInfo"},
    Comparison    |-> {"CommitSummary", "DiffFile", "DiffStats"},
    Blame         |-> {"CommitSummary"} ]

IssueTypes ==
  [ LabelPage     |-> {"Label", "PageInfo"},
    MilestonePage |-> {"Milestone", "PageInfo"},
    Issue         |-> {"issue", "User", "Label", "Milestone", "ResourcePermissions", "Freshness"},
    IssuePage     |-> {"Issue", "PageInfo"},
    Comment       |-> {"User", "ReactionGroup", "ResourcePermissions"},
    CommentPage   |-> {"Comment", "PageInfo"} ]

PullRequestTypes ==
  [ PullRequest     |-> {"pull", "User", "PullRequestRef", "CheckSummary", "Label",
                         "ResourcePermissions", "Freshness"},
    PullRequestRef  |-> {"ref", "sha", "head"},
    PullRequestPage |-> {"PullRequest", "PageInfo"},
    CheckSuite      |-> {"CheckRun"},
    CheckSuitePage  |-> {"CheckSuite", "PageInfo"},
    Review          |-> {"sha", "User"},
    ReviewPage      |-> {"Review", "PageInfo"},
    MergeResult     |-> {"sha"} ]

\* mutation: a discussion names its category without its id
CategoriesByName ==
  [ Release |-> {"User", "ReleaseAsset"}, ReleasePage |-> {"Release", "PageInfo"},
    Discussion |-> {"User"}, DiscussionPage |-> {"Discussion", "PageInfo"},
    WikiPageList |-> {"WikiPage"} ]

PublicationTypes ==
  [ Release            |-> {"User", "ReleaseAsset"},
    ReleasePage        |-> {"Release", "PageInfo"},
    Discussion         |-> {"DiscussionCategory", "User"},
    DiscussionCategory |-> {"category"},
    DiscussionPage     |-> {"Discussion", "PageInfo"},
    WikiPageList       |-> {"WikiPage"} ]

AutomationTypes ==
  [ Project         |-> {"ProjectView"},
    ProjectPage     |-> {"Project", "PageInfo"},
    Workflow        |-> {"workflow"},
    WorkflowPage    |-> {"Workflow", "PageInfo"},
    WorkflowRun     |-> {"run", "sha", "WorkflowJob"},
    WorkflowRunPage |-> {"WorkflowRun", "PageInfo"} ]

SettingsTypes ==
  [ RepositoryInsights |-> {"TimeSeriesPoint", "ContributorStats"},
    ContributorStats   |-> {"User"},
    RepositoryCache    |-> {"RepositoryCachePolicy", "RepositoryCacheStatus", "Freshness"},
    AccessSettings     |-> {"AccessGrant", "Freshness"},
    AccessGrant        |-> {"subject"},
    RulePage           |-> {"RepositoryRule", "PageInfo"},
    WebhookPage        |-> {"Webhook", "PageInfo"} ]

ActivityTypes ==
  [ Notification           |-> {"SubjectReference", "Repository"},
    NotificationPage       |-> {"Notification", "PageInfo"},
    SearchResult           |-> {"RepositorySearchResult", "UserSearchResult",
                                "IssueSearchResult", "CodeSearchResult"},
    RepositorySearchResult |-> {"Repository"},
    UserSearchResult       |-> {"User"},
    IssueSearchResult      |-> {"Issue", "PullRequest"},
    SearchResultPage       |-> {"SearchResult", "PageInfo"},
    TimelineEvent          |-> {"User", "SubjectReference"} ]

TypeNames ==
  UNION {DOMAIN SystemTypes, DOMAIN AccountTypes, DOMAIN RepositoryTypes, DOMAIN GitTypes,
         DOMAIN IssueTypes, DOMAIN PullRequestTypes, DOMAIN PublicationTypes,
         DOMAIN AutomationTypes, DOMAIN SettingsTypes, DOMAIN ActivityTypes}

Types ==
  [t \in TypeNames |->
     CASE t \in DOMAIN SystemTypes      -> SystemTypes[t]
       [] t \in DOMAIN AccountTypes     -> AccountTypes[t]
       [] t \in DOMAIN RepositoryTypes  -> RepositoryTypes[t]
       [] t \in DOMAIN GitTypes         -> GitTypes[t]
       [] t \in DOMAIN IssueTypes       -> IssueTypes[t]
       [] t \in DOMAIN PullRequestTypes -> PullRequestTypes[t]
       [] t \in DOMAIN PublicationTypes -> PublicationTypes[t]
       [] t \in DOMAIN AutomationTypes  -> AutomationTypes[t]
       [] t \in DOMAIN SettingsTypes    -> SettingsTypes[t]
       [] t \in DOMAIN ActivityTypes    -> ActivityTypes[t]]

(* What the client must have been given to write a body; the rest of it its   *)
(* user types in.                                                            *)
Bodies ==
  [ RepositoryCreate |-> {"username"}, PullRequestCreate |-> {"ref"}, MergeRequest |-> {"head"},
    DiscussionWrite |-> {"category"}, WorkflowDispatch |-> {"ref"}, AccessSettings |-> {"subject"} ]
Written(body) == IF body \in DOMAIN Bodies THEN Bodies[body] ELSE {}

Kinds == {"repository", "organization", "team", "commit", "issue", "pull", "discussion",
          "workflow", "run"}

(* The types whose values exist only once a thing of some kind does.         *)
KindOf(part) ==
  CASE part \in {"Repository", "Notification", "TimelineEvent"} -> {"repository"}
    [] part = "org" -> {"organization"}
    [] part = "Team" -> {"team"}
    [] part \in {"GitRef", "CommitSummary", "Comparison"} -> {"commit"}
    [] part = "Issue" -> {"issue"}
    [] part \in {"PullRequest", "Review"} -> {"pull"}
    [] part = "Discussion" -> {"discussion"}
    [] part = "Workflow" -> {"workflow"}
    [] part = "WorkflowRun" -> {"run"}
    [] OTHER -> {}

Handles == {"owner", "repo", "ref", "sha", "head", "username", "subject", "org", "issue", "pull",
            "category", "workflow", "run", "provider", "csrf"}

(* The handles inside a type, each with the kinds there must be things of for *)
(* it to be there.                                                            *)
Contents ==
  LET Inside[t \in TypeNames] ==
        LET parts == Types[t] \cap TypeNames
            inner == {<<p, KindOf(p)>> : p \in Types[t] \cap Handles} \cup UNION {Inside[p] : p \in parts}
        IN  {<<h[1], {k \in Kinds : k \in h[2] \cup KindOf(t)}>> : h \in inner}
  IN  [t \in TypeNames |-> Inside[t]]

(* What an answer of a type carries, while there are things of those kinds.   *)
Carried(type, those) ==
  {h \in Handles : type \in TypeNames /\ \E c \in Contents[type] : c[1] = h /\ c[2] \subseteq those}
=============================================================================
