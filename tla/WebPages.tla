------------------------------- MODULE WebPages -------------------------------
(***************************************************************************)
(* The pages of apps/web/components/hubgit-app.tsx: which views the        *)
(* application draws for a path, and which paths the views link to.  A     *)
(* path is the sequence of its segments.  Links that only move within the  *)
(* page (#L12) or leave the installation (the source code) are left out,   *)
(* and so is everything a view draws besides its links.                    *)
(***************************************************************************)
EXTENDS Sequences, SequencesExt

Home == <<>>
Under(base, segment) == Append(base, segment)

(* The demonstration repository, which several views name.                 *)
navPath(suffix) == <<"not-the-ccp", "hubgit-ui">> \o suffix
Demo == navPath(<<>>)

AuthRoutes == {"login", "join", "password-reset", "verify", "two-factor"}
IsAuthRoute(path) == Len(path) = 1 /\ path[1] \in AuthRoutes

(* The first segments that are no repository's owner: to the application,  *)
(* and to the route surface, which asks the API for repositories.          *)
NoOwner == {"orgs", "settings", "search", "auth", "login", "join"}
Reserved == NoOwner \cup {"issues", "pulls", "notifications"}

isRepoPath(path) == Len(path) >= 2 /\ path[1] \notin NoOwner
repositoryRoute(path) == Len(path) >= 2 /\ path[1] \notin Reserved
-----------------------------------------------------------------------------
(* The views HubGitApp draws for a path.                                   *)
RepositorySettings == navPath(<<"settings">>)

(* HubGitApp asks whether the path as a string starts with /search,        *)
(* /settings or the repository's /settings: /searchers/x and /settings-x   *)
(* draw these views as well, beside what else they draw.  Here a segment   *)
(* has to be the word itself; the difference is a page with more on it.    *)
Drawn(view, path) ==
  CASE view = "dashboard"     -> path \in {Home, <<"dashboard">>}
    [] view = "issue queue"   -> path = <<"issues">>
    [] view = "pull queue"    -> path = <<"pulls">>
    [] view = "notifications" -> path = <<"notifications">>
    [] view = "search"        -> IsPrefix(<<"search">>, path)
    [] view = "profile"       -> path = <<"not-the-ccp">>
    [] view = "organization"  -> path = <<"orgs", "lcaml-foundation">>
    [] view = "user settings" -> IsPrefix(<<"settings">>, path)
    [] view = "settings"      -> IsPrefix(RepositorySettings, path)
    [] view = "repository"    -> isRepoPath(path) /\ ~IsPrefix(RepositorySettings, path)

AppViews == {"dashboard", "issue queue", "pull queue", "notifications", "search", "profile",
             "organization", "user settings", "settings", "repository"}

HubGitApp(path) == {view \in AppViews : Drawn(view, path)}

(* The view RepositoryShell draws for the first segment after the name of  *)
(* the repository.  What follows another name is the whole path.           *)
Suffix(path, name) ==
  IF IsPrefix(name, path) THEN SubSeq(path, Len(name) + 1, Len(path)) ELSE path

RepositoryViews ==
  {"issues", "pulls", "commits", "commit", "branches", "tags", "releases", "discussions", "actions",
   "projects", "wiki", "security", "pulse", "blob", "compare", "settings"}

(* Mutation: the views for which the navigation has a tab.                 *)
TabbedShell(path, name) ==
  LET suffix == Suffix(path, name) IN
  IF suffix = <<>> THEN {"code"}
  ELSE {suffix[1]} \cap {"issues", "pulls", "discussions", "actions", "projects", "security", "pulse"}

RepositoryShell(path, name) ==
  LET suffix == Suffix(path, name)
      detail == Len(suffix) > 1
  IN  CASE suffix = <<>>                      -> {"code"}
        [] detail /\ suffix[1] = "issues"     -> {"issue"}
        [] detail /\ suffix[1] = "pulls"      -> {"pull"}
        [] OTHER                              -> {suffix[1]} \cap RepositoryViews

(* All that is drawn between the header and the footer, of a path and the  *)
(* repository that the API returned for it.                                *)
Content(path, name) ==
  LET views == HubGitApp(path) IN
  (views \ {"repository"}) \cup IF "repository" \in views THEN RepositoryShell(path, name) ELSE {}
-----------------------------------------------------------------------------
(* The links of the frame.                                                 *)
GlobalHeader(viewer) ==
  {Home, <<"search">>, <<"issues">>, <<"pulls">>, <<"notifications">>,
   IF viewer = "guest" THEN <<"login">> ELSE <<"not-the-ccp">>}

BrandingLinks == {<<"privacy">>, <<"terms">>}

AuthLinks(mode) == {IF mode = "login" THEN <<"join">> ELSE <<"login">>}

(* The links of the views that belong to no repository.                    *)
Dashboard ==
  {Demo, <<"lcaml-foundation", "caramel">>, <<"not-the-ccp", "avelune">>,
   <<"lcaml-foundation", "ouroboros">>, <<"orgs", "lcaml-foundation">>, Home}

FeedCard == {Demo}

IssueRow == navPath(<<"issues", "42">>)
PullRow == navPath(<<"pulls", "57">>)
Queues == [issue |-> {Home, IssueRow}, pull |-> {Home, PullRow}]
Notifications == {Home}
SearchResults == {Home}
ProfilePage == {Home, Demo}
OrganizationPage == {Home}
SettingsPage == {Home}

GlobalLinks(view) ==
  CASE view = "dashboard"     -> Dashboard \cup FeedCard
    [] view = "issue queue"   -> Queues.issue
    [] view = "pull queue"    -> Queues.pull
    [] view = "notifications" -> Notifications
    [] view = "search"        -> SearchResults
    [] view = "profile"       -> ProfilePage
    [] view = "organization"  -> OrganizationPage
    [] view \in {"user settings", "settings"} -> SettingsPage
-----------------------------------------------------------------------------
(* The links of a repository's pages.                                      *)
Tabs == {"issues", "pulls", "discussions", "actions", "projects", "security", "pulse"}
RepositoryNavigation(name) == {name} \cup {Under(name, tab) : tab \in Tabs}

(* Mutation: the files are linked under the demonstration repository.      *)
DemoFiles(name, branch, tree) ==
  {Home} \cup {name \o <<"branches">>, name \o <<"tags">>, name \o <<"commit", "sha">>,
               name \o <<"commits", branch>>}
         \cup {navPath(<<"blob", branch>> \o e.path) : e \in tree}

Readme == {}   \* text without links

CodeView(name, branch, tree) ==
  {Home} \cup {name \o <<"branches">>, name \o <<"tags">>, name \o <<"commit", "sha">>,
               name \o <<"commits", branch>>}
         \cup {name \o <<IF e.folder THEN "tree" ELSE "blob", branch>> \o e.path : e \in tree}
         \cup Readme

RepoSidebar(name) == {Home, Under(name, "releases")}

(* The rows of the lists, and the tabs of a pull request.                  *)
ListPages == [issues |-> {IssueRow}, pulls |-> {PullRow}]
DetailPages == [issue |-> {}, pull |-> {Home}]

(* Lists of features and their buttons; of these views only the wiki and   *)
(* the settings have links.                                                *)
FeatureList == {}
HistoryPages ==
  [commits |-> {}, commit |-> {}, compare |-> {}, branches |-> FeatureList, tags |-> FeatureList]
PlanningPages ==
  [releases |-> FeatureList, discussions |-> FeatureList, actions |-> FeatureList, projects |-> {}]
WikiPage == [wiki |-> {Home}]
OversightPages == [security |-> FeatureList, pulse |-> {}, settings |-> SettingsPage]
BlobPage == [blob |-> {}]

RepositoryPages(view) ==
  CASE view \in DOMAIN ListPages      -> ListPages[view]
    [] view \in DOMAIN DetailPages    -> DetailPages[view]
    [] view \in DOMAIN HistoryPages   -> HistoryPages[view]
    [] view \in DOMAIN PlanningPages  -> PlanningPages[view]
    [] view \in DOMAIN WikiPage       -> WikiPage[view]
    [] view \in DOMAIN OversightPages -> OversightPages[view]
    [] view \in DOMAIN BlobPage       -> BlobPage[view]

RepositoryLinks(view, name, branch, tree) ==
  IF view = "code" THEN CodeView(name, branch, tree) \cup RepoSidebar(name) ELSE RepositoryPages(view)
=============================================================================
