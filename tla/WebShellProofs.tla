---------------------------- MODULE WebShellProofs ----------------------------
(***************************************************************************)
(* Theorems about WebShell for every provider of repositories, every set   *)
(* of entries and every number of sign-ins.  The sessions and the form     *)
(* come first; then the paths that the links lead to, what is drawn for    *)
(* them and which repository they name.                                    *)
(***************************************************************************)
EXTENDS WebShell, SequenceTheorems, TLAPS

(* A document is drawn with what its own loader found out.                 *)
PageOK ==
  /\ page = [path |-> page.path, phase |-> page.phase, bootstrap |-> page.bootstrap,
             repository |-> page.repository, failed |-> page.failed,
             branding |-> page.branding, dark |-> page.dark]
  /\ page.phase # "requested" =>
       /\ page.bootstrap \in Bootstraps
       /\ page.bootstrap.methods \in {Methods, "unknown"}

(* The form waits for a sign-in that was sent, and goes to the dashboard   *)
(* with a cookie.                                                          *)
FormOK ==
  /\ form.submitting => form.login \in Logins
  /\ form.leaving = <<"dashboard">> => cookie # 0

(* The cookie, now or when a request carried it, is one that an answer     *)
(* brought; nobody can carry a session whose answer is on its way.         *)
Brought(c) == c = 0 \/ (c \in Logins /\ logins[c].state = "answered")

CarriedOK ==
  /\ Brought(cookie)
  /\ \A i \in Logins : Brought(logins[i].carried)
  /\ \A i \in Logins : logins[i].state = "accepted" => i \in live

IInv == TypeOK /\ PageOK /\ FormOK /\ CarriedOK /\ CookieIsLive /\ PasswordsGoWhereTaken
-----------------------------------------------------------------------------
LEMMA LoginNumbers == Logins \subseteq 0 .. MaxLogins /\ 0 \notin Logins /\ 0 \in 0 .. MaxLogins
  BY LoginsAssumption DEF Logins

LEMMA InitIInv == Init => IInv
  BY LoginNumbers, NoneAssumption
  DEF Init, IInv, TypeOK, PageOK, FormOK, CarriedOK, Brought, CookieIsLive, PasswordsGoWhereTaken,
      Requested, Idle, Unused, Phases

(* Steps of a document that leave the form and the sign-ins alone.         *)
LEMMA DrawKeeps ==
  ASSUME IInv, UNCHANGED <<form, Kept>>, PageOK',
         page'.phase \in Phases, page'.bootstrap \in Bootstraps \cup {None},
         page'.repository \in Names \cup {None}, page'.failed \in BOOLEAN,
         page'.dark \in BOOLEAN, page'.branding \in {"hubgit", "github-reference"}
  PROVE  IInv'
  BY DEF IInv, TypeOK, FormOK, CarriedOK, Brought, CookieIsLive, PasswordsGoWhereTaken, Kept

LEMMA DrawStep ==
  ASSUME IInv, Load \/ RepositoryArrives \/ ToggleColour \/ SwitchBranding \/ StartProvider \/ Deny
  PROVE  IInv'
  <1> USE DEF IInv
  <1>1. CASE Load
    <2>1. PICK meta \in BOOLEAN, methods \in {Methods, "unknown"} :
            page' = [page EXCEPT !.phase = "shown",
                                 !.bootstrap = [meta |-> meta, methods |-> methods]]
      BY <1>1 DEF Load
    <2>2. UNCHANGED <<form, Kept>>
      BY <1>1 DEF Load
    <2>3. [meta |-> meta, methods |-> methods] \in Bootstraps
      BY DEF Bootstraps, Methods
    <2>4. Methods' = Methods
      BY <2>2 DEF Methods, Kept
    <2> DEFINE bootstrap == [meta |-> meta, methods |-> methods]
    <2>5. bootstrap \in Bootstraps /\ bootstrap.methods \in {Methods, "unknown"}
      BY <2>3
    <2>6. page' = [page EXCEPT !.phase = "shown", !.bootstrap = bootstrap]
      BY <2>1
    <2> HIDE DEF bootstrap
    <2> QED
      BY <2>2, <2>4, <2>5, <2>6, DrawKeeps DEF PageOK, TypeOK, Phases
  <1>2. CASE RepositoryArrives
    <2>1. PICK failed \in BOOLEAN :
            page' = [page EXCEPT !.repository = Found(page.path), !.failed = failed]
      BY <1>2 DEF RepositoryArrives
    <2>2. UNCHANGED <<form, Kept>> /\ Methods' = Methods
      BY <1>2 DEF RepositoryArrives, Methods, Kept
    <2>3. Found(page.path) \in Names \cup {None}
      BY SpelledAssumption DEF Found
    <2> QED
      BY <2>1, <2>2, <2>3, DrawKeeps DEF PageOK, TypeOK
  <1>3. CASE ToggleColour
    <2>1. UNCHANGED <<form, Kept>> /\ Methods' = Methods
      BY <1>3 DEF ToggleColour, Methods, Kept
    <2>2. page' = [page EXCEPT !.dark = ~page.dark]
      BY <1>3 DEF ToggleColour
    <2>3. PICK dark \in BOOLEAN : page' = [page EXCEPT !.dark = dark]
      BY <2>2
    <2> QED
      BY <2>1, <2>3, DrawKeeps DEF PageOK, TypeOK
  <1>4. CASE SwitchBranding
    <2>1. UNCHANGED <<form, Kept>> /\ Methods' = Methods
      BY <1>4 DEF SwitchBranding, Methods, Kept
    <2>2. PICK branding \in {"hubgit", "github-reference"} :
            page' = [page EXCEPT !.branding = branding]
      BY <1>4 DEF SwitchBranding
    <2> QED
      BY <2>1, <2>2, DrawKeeps DEF PageOK, TypeOK
  <1>5. CASE StartProvider \/ Deny
    <2>1. UNCHANGED <<form, Kept>> /\ Methods' = Methods
      BY <1>5 DEF StartProvider, Deny, Methods, Kept
    <2>2. page.phase \in {"shown", "authorizing"}
      BY <1>5 DEF StartProvider, Deny, Surface, Shown
    <2>3. PICK phase \in {"authorizing", "problem"} : page' = [page EXCEPT !.phase = phase]
      BY <1>5 DEF StartProvider, Deny
    <2> QED
      BY <2>1, <2>2, <2>3, DrawKeeps DEF PageOK, TypeOK, Phases
  <1> QED
    BY <1>1, <1>2, <1>3, <1>4, <1>5

LEMMA RequestedPage ==
  ASSUME NEW path, page' = Requested(path)
  PROVE  /\ PageOK'
         /\ page'.phase = "requested" /\ page'.bootstrap = None /\ page'.repository = None
         /\ page'.failed = FALSE /\ page'.dark = FALSE /\ page'.branding = "hubgit"
  BY DEF Requested, PageOK

LEMMA OpenStep ==
  ASSUME IInv, NEW path, Open(path)
  PROVE  IInv'
  BY RequestedPage, LoginNumbers, NoneAssumption
  DEF Open, IInv, TypeOK, FormOK, CarriedOK, Brought, CookieIsLive, PasswordsGoWhereTaken,
      Kept, Idle, Phases

(* The form of a GitHub installation is only there when the loader did not *)
(* learn how to sign in.                                                   *)
LEMMA FormIsLocal ==
  ASSUME IInv, HasForm
  PROVE  /\ page.bootstrap.methods \in {"password", "unknown"}
         /\ instance = "mock" \/ page.bootstrap.methods = "unknown"
  BY DEF HasForm, Surface, Shown, AuthMode, IInv, TypeOK, PageOK, Methods, Instances

LEMMA SubmitStep ==
  ASSUME IInv, Submit
  PROVE  IInv'
  <1> USE DEF IInv
  <1>1. HasForm /\ UNCHANGED <<instance, page, cookie, live>>
    BY DEF Submit, Submittable
  <1>2. PageOK'
    BY <1>1 DEF PageOK, Methods
  <1>3. CASE page.path = <<"login">>
    <2>1. PICK i \in Logins :
            /\ logins[i].state = "unused"
            /\ logins' = [logins EXCEPT ![i] = [state |-> "sent", carried |-> cookie,
                                                methods |-> page.bootstrap.methods]]
            /\ form' = [form EXCEPT !.submitting = TRUE, !.login = i, !.error = FALSE]
      BY <1>3 DEF Submit
    <2>2. /\ logins'[i] = [state |-> "sent", carried |-> cookie,
                           methods |-> page.bootstrap.methods]
          /\ \A j \in Logins \ {i} : logins'[j] = logins[j]
      BY <2>1 DEF TypeOK
    <2>3. TypeOK'
      BY <1>1, <2>1, FormIsLocal, LoginNumbers DEF TypeOK
    <2>4. FormOK'
      BY <1>1, <2>1 DEF FormOK, TypeOK
    <2>5. CarriedOK'
      BY <1>1, <2>1, <2>2 DEF CarriedOK, Brought
    <2>6. CookieIsLive'
      BY <1>1, <2>1, <2>2 DEF CookieIsLive
    <2>7. PasswordsGoWhereTaken'
      BY <1>1, <2>2, FormIsLocal DEF PasswordsGoWhereTaken
    <2> QED
      BY <1>2, <2>3, <2>4, <2>5, <2>6, <2>7
  <1>4. CASE page.path # <<"login">>
    <2>1. form' = [form EXCEPT !.error = FALSE, !.leaving = <<"login">>] /\ UNCHANGED logins
      BY <1>4 DEF Submit
    <2>2. TypeOK'
      BY <1>1, <2>1 DEF TypeOK
    <2>3. FormOK'
      BY <1>1, <2>1 DEF FormOK, TypeOK
    <2> QED
      BY <1>1, <1>2, <2>1, <2>2, <2>3 DEF CarriedOK, Brought, CookieIsLive, PasswordsGoWhereTaken
  <1> QED
    BY <1>3, <1>4

(* A login that is served takes away only what it carried.                 *)
LEMMA AcceptStep ==
  ASSUME IInv, NEW i \in Logins, Accept(i)
  PROVE  IInv'
  <1> USE DEF IInv
  <1>1. /\ logins[i].state = "sent"
        /\ logins' = [logins EXCEPT ![i].state = "accepted"]
        /\ live' = (live \ {logins[i].carried}) \cup {i}
        /\ UNCHANGED <<instance, page, form, cookie>>
    BY DEF Accept
  <1>2. /\ logins'[i].state = "accepted" /\ logins'[i].carried = logins[i].carried
        /\ logins'[i].methods = logins[i].methods
        /\ \A j \in Logins \ {i} : logins'[j] = logins[j]
    BY <1>1 DEF TypeOK
  <1>3. TypeOK'
    BY <1>1 DEF TypeOK
  <1>4. PageOK' /\ FormOK'
    BY <1>1 DEF PageOK, FormOK, Methods
  <1>5. CarriedOK'
    <2>1. \A c : Brought(c) => Brought(c)'
      BY <1>1, <1>2 DEF Brought
    <2>2. Brought(logins[i].carried) /\ \A j \in Logins : logins[j].carried = logins'[j].carried
      BY <1>2 DEF CarriedOK
    <2>3. \A j \in Logins : logins[j].state = "accepted" => j # logins[i].carried
      BY <2>2, LoginNumbers DEF Brought
    <2>4. \A j \in Logins : logins'[j].state = "accepted" => j \in live'
      BY <1>1, <1>2, <2>3 DEF CarriedOK
    <2> QED
      BY <1>1, <2>1, <2>2, <2>4 DEF CarriedOK
  <1>6. CookieIsLive'
    BY <1>1, <1>2 DEF CookieIsLive
  <1>7. PasswordsGoWhereTaken'
    BY <1>1, <1>2 DEF PasswordsGoWhereTaken
  <1> QED
    BY <1>3, <1>4, <1>5, <1>6, <1>7

LEMMA RefuseStep ==
  ASSUME IInv, NEW i \in Logins, Refuse(i)
  PROVE  IInv'
  <1> USE DEF IInv
  <1>1. /\ logins[i].state = "sent"
        /\ logins' = [logins EXCEPT ![i].state = "refused"]
        /\ UNCHANGED <<instance, page, form, cookie, live>>
    BY DEF Refuse
  <1>2. /\ logins'[i].state = "refused" /\ logins'[i].carried = logins[i].carried
        /\ \A j \in Logins \ {i} : logins'[j] = logins[j]
    BY <1>1 DEF TypeOK
  <1>3. TypeOK'
    BY <1>1 DEF TypeOK
  <1> QED
    BY <1>1, <1>2, <1>3 DEF PageOK, FormOK, Methods, CarriedOK, Brought, CookieIsLive,
       PasswordsGoWhereTaken

LEMMA AnswerStep ==
  ASSUME IInv, Answer
  PROVE  IInv'
  <1> USE DEF IInv
  <1> DEFINE i == form.login
  <1>1. /\ i \in Logins /\ logins[i].state \in {"accepted", "refused"}
        /\ logins' = [logins EXCEPT ![i].state = "answered"]
        /\ UNCHANGED <<instance, page, live>>
    BY DEF Answer, FormOK
  <1>2. /\ logins'[i].state = "answered" /\ logins'[i].carried = logins[i].carried
        /\ \A j \in Logins \ {i} : logins'[j] = logins[j]
    BY <1>1 DEF TypeOK
  <1>3. \/ /\ logins[i].state = "accepted" /\ cookie' = i
           /\ form' = [form EXCEPT !.submitting = FALSE, !.leaving = <<"dashboard">>]
        \/ /\ logins[i].state = "refused" /\ UNCHANGED cookie
           /\ form' = [form EXCEPT !.submitting = FALSE, !.error = TRUE]
    BY <1>1 DEF Answer
  <1>4. TypeOK'
    <2>1. cookie' \in 0 .. MaxLogins
      BY <1>1, <1>3, LoginNumbers DEF TypeOK
    <2>2. logins' \in [Logins -> [state : {"unused", "sent", "accepted", "refused", "answered"},
                                  carried : 0 .. MaxLogins,
                                  methods : {None, "provider", "password", "unknown"}]]
      BY <1>1 DEF TypeOK
    <2>3. form' \in [submitting : BOOLEAN, login : 0 .. MaxLogins, error : BOOLEAN,
                     leaving : {None, <<"login">>, <<"dashboard">>}]
      BY <1>3 DEF TypeOK
    <2> QED
      BY <1>1, <2>1, <2>2, <2>3 DEF TypeOK
  <1>5. PageOK'
    BY <1>1 DEF PageOK, Methods
  <1>6. FormOK'
    <2>1. ~form'.submitting
      BY <1>3 DEF TypeOK
    <2>2. CASE cookie' = i
      <3>1. cookie' # 0
        BY <1>1, <2>2, LoginNumbers
      <3> QED
        BY <2>1, <3>1 DEF FormOK
    <2>3. CASE UNCHANGED cookie /\ form' = [form EXCEPT !.submitting = FALSE, !.error = TRUE]
      <3>1. form'.leaving = form.leaving
        BY <2>3 DEF TypeOK
      <3> QED
        BY <2>1, <2>3, <3>1 DEF FormOK
    <2> QED
      BY <1>3, <2>2, <2>3
  <1>7. CarriedOK'
    BY <1>1, <1>2, <1>3 DEF CarriedOK, Brought
  <1>8. CookieIsLive'
    BY <1>1, <1>2, <1>3 DEF CookieIsLive, CarriedOK
  <1>9. PasswordsGoWhereTaken'
    BY <1>1, <1>2 DEF PasswordsGoWhereTaken
  <1> QED
    BY <1>4, <1>5, <1>6, <1>7, <1>8, <1>9

LEMMA AnswerIsLostStep ==
  ASSUME IInv, AnswerIsLost
  PROVE  IInv'
  <1> USE DEF IInv
  <1>1. /\ form' = [form EXCEPT !.submitting = FALSE, !.error = TRUE]
        /\ UNCHANGED <<instance, page, logins, cookie, live>>
    BY DEF AnswerIsLost
  <1>2. TypeOK' /\ FormOK'
    BY <1>1 DEF TypeOK, FormOK
  <1> QED
    BY <1>1, <1>2 DEF PageOK, Methods, CarriedOK, Brought, CookieIsLive, PasswordsGoWhereTaken

(* The provider's callback replaces the browser's session by a new one.    *)
LEMMA AuthorizeStep ==
  ASSUME IInv, Authorize
  PROVE  IInv'
  <1> USE DEF IInv
  <1>1. page.phase = "authorizing" /\ page' = Requested(page.path) /\ form' = Idle
        /\ UNCHANGED instance
    BY DEF Authorize
  <1>2. PICK i \in Logins :
          /\ logins[i].state = "unused"
          /\ logins' = [logins EXCEPT ![i] = [state |-> "answered", carried |-> cookie,
                                              methods |-> page.bootstrap.methods]]
          /\ live' = (live \ {cookie}) \cup {i}
          /\ cookie' = i
    BY DEF Authorize
  <1>3. /\ logins'[i] = [state |-> "answered", carried |-> cookie,
                         methods |-> page.bootstrap.methods]
        /\ \A j \in Logins \ {i} : logins'[j] = logins[j]
    BY <1>2 DEF TypeOK
  <1>4. page.bootstrap.methods \in {"provider", "password", "unknown"}
    BY <1>1 DEF PageOK, Bootstraps
  <1>5. PageOK' /\ page'.phase = "requested" /\ page'.bootstrap = None /\ page'.repository = None
        /\ page'.failed = FALSE /\ page'.dark = FALSE /\ page'.branding = "hubgit"
    BY <1>1, RequestedPage
  <1>6. TypeOK'
    <2>1. /\ form' \in [submitting : BOOLEAN, login : 0 .. MaxLogins, error : BOOLEAN,
                        leaving : {None, <<"login">>, <<"dashboard">>}]
          /\ cookie' \in 0 .. MaxLogins /\ live' \subseteq Logins
      BY <1>1, <1>2, LoginNumbers DEF TypeOK, Idle
    <2>2. logins' \in [Logins -> [state : {"unused", "sent", "accepted", "refused", "answered"},
                                  carried : 0 .. MaxLogins,
                                  methods : {None, "provider", "password", "unknown"}]]
      BY <1>2, <1>4 DEF TypeOK
    <2> QED
      BY <1>1, <1>5, <2>1, <2>2 DEF TypeOK, Phases
  <1>7. FormOK'
    BY <1>1, NoneAssumption DEF FormOK, Idle
  <1>8. CarriedOK'
    BY <1>2, <1>3, LoginNumbers DEF CarriedOK, Brought
  <1>9. CookieIsLive' /\ PasswordsGoWhereTaken'
    BY <1>1, <1>2, <1>3 DEF CookieIsLive, PasswordsGoWhereTaken
  <1> QED
    BY <1>5, <1>6, <1>7, <1>8, <1>9

LEMMA NextIInv == IInv /\ [Next]_vars => IInv'
  <1> SUFFICES ASSUME IInv, [Next]_vars
               PROVE  IInv'
    OBVIOUS
  <1>1. CASE Next
    BY <1>1, DrawStep, OpenStep, SubmitStep, AcceptStep, RefuseStep, AnswerStep, AnswerIsLostStep,
       AuthorizeStep DEF Next, SignIn, Follow, Visit, Leave
  <1>2. CASE UNCHANGED vars
    BY <1>2 DEF vars, IInv, TypeOK, PageOK, FormOK, CarriedOK, Brought, CookieIsLive,
       PasswordsGoWhereTaken, Methods
  <1> QED
    BY <1>1, <1>2

THEOREM Invariance == Spec => []IInv
  BY InitIInv, NextIInv, PTL DEF Spec
-----------------------------------------------------------------------------
(* The document, its form and the sessions keep their types, whatever      *)
(* probes, requests and answers fail.                                      *)
THEOREM TypeCorrect == Spec => []TypeOK
  BY Invariance, PTL DEF IInv

(* The browser's cookie names a session that exists, unless a sign-in that *)
(* replaced it was served and its answer has not arrived.                  *)
THEOREM CookieStaysLive == Spec => []CookieIsLive
  BY Invariance, PTL DEF IInv

(* A password is only sent to an installation that has passwords, or from  *)
(* a page whose loader could not find out.                                 *)
THEOREM PasswordsStayWhereTaken == Spec => []PasswordsGoWhereTaken
  BY Invariance, PTL DEF IInv

(* Who leaves the form for the dashboard has the cookie of a session that  *)
(* exists or was replaced by a sign-in of the same browser.                *)
THEOREM DashboardIsSignedIn == Spec => SignedInAtDashboard
  <1>1. IInv /\ [Next]_vars =>
          [Leave /\ form.leaving = <<"dashboard">> =>
             cookie # 0 /\ (cookie \in live \/ \E i \in Logins : logins[i].carried = cookie)]_vars
    BY DEF IInv, FormOK, CookieIsLive
  <1> QED
    BY <1>1, Invariance, PTL DEF Spec, SignedInAtDashboard
-----------------------------------------------------------------------------
(* What paths are made of.                                                 *)
Segment ==
  STRING \cup Reserved \cup AuthRoutes \cup RepositoryViews \cup Tabs \cup {Branch}
    \cup {"not-the-ccp", "hubgit-ui", "lcaml-foundation", "caramel", "avelune", "ouroboros",
          "dashboard", "privacy", "terms", "tree", "sha", "42", "57"}

(* The paths the application leads to: pages of its own, the policies that *)
(* it does not have, repositories, and what is in them.                    *)
Inside(path) ==
  Len(path) > 2 => path[3] \in RepositoryViews \/ (path[3] = "tree" /\ Len(path) > 3)

Known(path) ==
  /\ path \in Seq(Segment)
  /\ \/ IsAuthRoute(path) \/ path \in BrandingLinks
     \/ HubGitApp(path) \ {"repository"} # {}
     \/ repositoryRoute(path) /\ Inside(path)

(* The document has a known path, and its repository is the one the path   *)
(* asked for.                                                              *)
PathOK ==
  /\ Known(page.path)
  /\ page.repository # None => repositoryRoute(page.path)

(* Every sequence's beginning.                                             *)
LEMMA Beginning ==
  ASSUME NEW S, NEW path \in Seq(S), NEW n \in Nat, n <= Len(path)
  PROVE  /\ SubSeq(path, 1, n) \in Seq(S) /\ Len(SubSeq(path, 1, n)) = n
         /\ \A i \in 1 .. n : SubSeq(path, 1, n)[i] = path[i]
  <1>1. \A i \in 1 .. n : path[i] \in S
    OBVIOUS
  <1>2. /\ SubSeq(path, 1, n) \in Seq(S)
        /\ Len(SubSeq(path, 1, n)) = IF 1 <= n THEN n - 1 + 1 ELSE 0
        /\ \A i \in 1 .. n - 1 + 1 : SubSeq(path, 1, n)[i] = path[1 + i - 1]
    BY <1>1, SubSeqProperties
  <1> QED
    BY <1>2

(* A prefix is what a path begins with.                                    *)
LEMMA BeginsWith ==
  ASSUME NEW S, NEW s \in Seq(S), NEW path \in Seq(S)
  PROVE  /\ IsPrefix(s, path) => Len(s) <= Len(path) /\ \A i \in 1 .. Len(s) : s[i] = path[i]
         /\ Len(s) <= Len(path) /\ (\A i \in 1 .. Len(s) : s[i] = path[i]) => IsPrefix(s, path)
  <1> DEFINE t == SubSeq(path, 1, Len(s))
  <1>1. SubSeq(s, 1, Len(s)) = s
    BY SubSeqFull
  <1>2. IsPrefix(s, path) <=> Len(s) <= Len(path) /\ t = s
    BY <1>1 DEF IsPrefix
  <1>3. ASSUME Len(s) <= Len(path)
        PROVE  t \in Seq(S) /\ Len(t) = Len(s) /\ \A i \in 1 .. Len(s) : t[i] = path[i]
    BY <1>3, Beginning
  <1> HIDE DEF t
  <1>4. ASSUME IsPrefix(s, path)
        PROVE  Len(s) <= Len(path) /\ \A i \in 1 .. Len(s) : s[i] = path[i]
    BY <1>2, <1>3, <1>4
  <1>5. ASSUME Len(s) <= Len(path), \A i \in 1 .. Len(s) : s[i] = path[i]
        PROVE  IsPrefix(s, path)
    <2>1. t = s
      BY <1>3, <1>5, SeqEqual
    <2> QED
      BY <1>2, <1>5, <2>1
  <1> QED
    BY <1>4, <1>5

(* What a path has after its first two segments.                           *)
LEMMA Behind ==
  ASSUME NEW S, NEW path \in Seq(S), Len(path) >= 2
  PROVE  /\ Len(SubSeq(path, 3, Len(path))) = Len(path) - 2
         /\ SubSeq(path, 3, Len(path)) = <<>> <=> Len(path) = 2
         /\ Len(path) > 2 => SubSeq(path, 3, Len(path))[1] = path[3]
  <1>1. \A i \in 3 .. Len(path) : path[i] \in S
    OBVIOUS
  <1>2. Len(path) \in Int /\ 3 \in Int
    OBVIOUS
  <1> DEFINE rest == SubSeq(path, 3, Len(path))
  <1>3. /\ rest \in Seq(S)
        /\ Len(rest) = IF 3 <= Len(path) THEN Len(path) - 3 + 1 ELSE 0
        /\ \A i \in 1 .. Len(path) - 3 + 1 : rest[i] = path[3 + i - 1]
    BY <1>1, <1>2, SubSeqProperties
  <1> HIDE DEF rest
  <1>4. Len(rest) = Len(path) - 2
    <2>1. CASE 3 <= Len(path)
      BY <1>2, <1>3, <2>1
    <2>2. CASE Len(path) = 2
      BY <1>3, <2>2
    <2>3. 3 <= Len(path) \/ Len(path) = 2
      <3> DEFINE n == Len(path)
      <3>1. n \in Nat /\ n >= 2
        OBVIOUS
      <3> HIDE DEF n
      <3>2. 3 <= n \/ n = 2
        BY <3>1
      <3> QED
        BY <3>2 DEF n
    <2> QED
      BY <2>1, <2>2, <2>3
  <1>5. rest = <<>> <=> Len(path) = 2
    BY <1>2, <1>3, <1>4
  <1>6. ASSUME Len(path) > 2
        PROVE  rest[1] = path[3]
    <2>1. 1 \in 1 .. Len(path) - 3 + 1
      BY <1>2, <1>6
    <2> QED
      BY <1>3, <2>1 DEF rest
  <1> QED
    BY <1>4, <1>5, <1>6 DEF rest

(* A path of a repository, with what it adds to the name.                  *)
LEMMA Extended ==
  ASSUME NEW name \in Seq(Segment), Len(name) = 2, name[1] \notin Reserved,
         NEW rest \in Seq(Segment)
  PROVE  /\ name \o rest \in Seq(Segment) /\ Len(name \o rest) = 2 + Len(rest)
         /\ SubSeq(name \o rest, 1, 2) = name
         /\ Len(rest) > 0 => (name \o rest)[3] = rest[1]
         /\ repositoryRoute(name \o rest)
  <1>1. name \o rest \in Seq(Segment) /\ Len(name \o rest) = 2 + Len(rest)
    <2>1. name \o rest \in Seq(Segment) /\ Len(name \o rest) = Len(name) + Len(rest)
      BY ConcatProperties
    <2> QED
      BY <2>1
  <1>2. /\ (name \o rest)[1] = name[1]
        /\ Len(rest) > 0 => (name \o rest)[3] = rest[1]
    <2>1. \A i \in 1 .. Len(name) + Len(rest) :
            (name \o rest)[i] = IF i <= Len(name) THEN name[i] ELSE rest[i - Len(name)]
      BY ConcatProperties
    <2>2. Len(rest) \in Nat
      OBVIOUS
    <2> QED
      BY <2>1, <2>2
  <1>3. SubSeq(name \o rest, 1, 2) = name
    <2>1. 1 \in 1 .. Len(name) /\ 2 \in 1 .. Len(name)
      OBVIOUS
    <2>2. SubSeq(name \o rest, 1, 2) = SubSeq(name, 1, 2)
      BY <2>1, SubSeqOfConcat1, Zenon
    <2>3. SubSeq(name, 1, Len(name)) = name
      BY SubSeqFull
    <2> QED
      BY <2>2, <2>3
  <1> QED
    BY <1>1, <1>2, <1>3 DEF repositoryRoute

(* The names of repositories.                                              *)
LEMMA NamesArePaths ==
  ASSUME NEW name \in Names \cup {Demo}
  PROVE  name \in Seq(Segment) /\ Len(name) = 2 /\ name[1] \notin Reserved
  <1>1. CASE name \in Names
    <2>1. name \in Seq(STRING) /\ Len(name) = 2 /\ name[1] \notin Reserved
      BY <1>1, NamesAssumption
    <2>2. name \in Seq(Segment)
      BY <2>1 DEF Segment
    <2> QED
      BY <2>1, <2>2
  <1>2. CASE name = Demo
    <2>1. Demo = <<"not-the-ccp", "hubgit-ui">>
      BY DEF Demo, navPath
    <2>2. <<"not-the-ccp", "hubgit-ui">> \in Seq(Segment)
      BY DEF Segment
    <2> QED
      BY <1>2, <2>1, <2>2 DEF Reserved, NoOwner
  <1> QED
    BY <1>1, <1>2

(* The pages of the application itself, where its own views lead.          *)
LEMMA OwnPages ==
  /\ Known(Home) /\ Known(<<"dashboard">>) /\ Known(<<"issues">>) /\ Known(<<"pulls">>)
  /\ Known(<<"notifications">>) /\ Known(<<"search">>) /\ Known(<<"not-the-ccp">>)
  /\ Known(<<"orgs", "lcaml-foundation">>)
  /\ Known(<<"login">>) /\ Known(<<"join">>) /\ Known(<<"privacy">>) /\ Known(<<"terms">>)
  <1>1. ASSUME NEW view \in AppViews \ {"repository"}, NEW path \in Seq(Segment), Drawn(view, path)
        PROVE  Known(path)
    BY <1>1 DEF Known, HubGitApp
  <1>2. Known(Home) /\ Known(<<"dashboard">>)
    <2>1. Drawn("dashboard", Home) /\ Drawn("dashboard", <<"dashboard">>)
      BY DEF Drawn
    <2>2. Home \in Seq(Segment) /\ <<"dashboard">> \in Seq(Segment)
      BY DEF Segment, Home
    <2> QED
      BY <1>1, <2>1, <2>2 DEF AppViews
  <1>3. Known(<<"issues">>) /\ Known(<<"pulls">>) /\ Known(<<"notifications">>)
    <2>1. /\ Drawn("issue queue", <<"issues">>) /\ Drawn("pull queue", <<"pulls">>)
          /\ Drawn("notifications", <<"notifications">>)
      BY DEF Drawn
    <2>2. /\ <<"issues">> \in Seq(Segment) /\ <<"pulls">> \in Seq(Segment)
          /\ <<"notifications">> \in Seq(Segment)
      BY DEF Segment, Reserved
    <2> QED
      BY <1>1, <2>1, <2>2 DEF AppViews
  <1>4. Known(<<"search">>)
    <2>1. <<"search">> \in Seq(Segment)
      BY DEF Segment, Reserved, NoOwner
    <2>2. IsPrefix(<<"search">>, <<"search">>)
      BY DEF IsPrefix
    <2>3. Drawn("search", <<"search">>)
      BY <2>2 DEF Drawn
    <2> QED
      BY <1>1, <2>1, <2>3 DEF AppViews
  <1>5. Known(<<"not-the-ccp">>) /\ Known(<<"orgs", "lcaml-foundation">>)
    <2>1. /\ Drawn("profile", <<"not-the-ccp">>)
          /\ Drawn("organization", <<"orgs", "lcaml-foundation">>)
      BY DEF Drawn
    <2>2. /\ <<"not-the-ccp">> \in Seq(Segment)
          /\ <<"orgs", "lcaml-foundation">> \in Seq(Segment)
      BY DEF Segment, Reserved, NoOwner
    <2> QED
      BY <1>1, <2>1, <2>2 DEF AppViews
  <1>6. Known(<<"login">>) /\ Known(<<"join">>)
    <2>1. <<"login">> \in Seq(Segment) /\ <<"join">> \in Seq(Segment)
      BY DEF Segment, AuthRoutes
    <2> QED
      BY <2>1 DEF Known, IsAuthRoute, AuthRoutes
  <1>7. Known(<<"privacy">>) /\ Known(<<"terms">>)
    <2>1. <<"privacy">> \in Seq(Segment) /\ <<"terms">> \in Seq(Segment)
      BY DEF Segment
    <2> QED
      BY <2>1 DEF Known, BrandingLinks
  <1> QED
    BY <1>2, <1>3, <1>4, <1>5, <1>6, <1>7

(* A repository's own path, and what its pages add to it.                  *)
LEMMA RepositoryPaths ==
  ASSUME NEW name \in Names \cup {Demo}, NEW rest \in Seq(Segment),
         Len(rest) > 0 => rest[1] \in RepositoryViews \/ (rest[1] = "tree" /\ Len(rest) > 1)
  PROVE  /\ Known(name \o rest) /\ repositoryRoute(name \o rest)
         /\ SubSeq(name \o rest, 1, 2) = name
  <1>1. name \in Seq(Segment) /\ Len(name) = 2 /\ name[1] \notin Reserved
    BY NamesArePaths
  <1>2. /\ name \o rest \in Seq(Segment) /\ Len(name \o rest) = 2 + Len(rest)
        /\ SubSeq(name \o rest, 1, 2) = name
        /\ Len(rest) > 0 => (name \o rest)[3] = rest[1]
        /\ repositoryRoute(name \o rest)
    BY <1>1, Extended
  <1>3. Len(rest) \in Nat
    OBVIOUS
  <1>4. Inside(name \o rest)
    BY <1>2, <1>3 DEF Inside
  <1> QED
    BY <1>2, <1>4 DEF Known

(* A link of a repository's pages that keeps its name.                     *)
Keeps(name, path) == Known(path) /\ SubSeq(path, 1, 2) = name

(* The tabs keep the name.                                                 *)
LEMMA NavigationLinks ==
  ASSUME NEW name \in Names \cup {Demo}, NEW path \in RepositoryNavigation(name)
  PROVE  Keeps(name, path)
  <1>1. name \in Seq(Segment) /\ Len(name) = 2
    BY NamesArePaths
  <1>2. CASE path = name
    <2> DEFINE rest == <<>>
    <2>1. rest \in Seq(Segment) /\ ~(Len(rest) > 0)
      OBVIOUS
    <2> HIDE DEF rest
    <2>2. Keeps(name, name \o rest)
      BY <2>1, RepositoryPaths DEF Keeps
    <2>3. name \o rest = name
      BY <1>1 DEF rest
    <2> QED
      BY <1>2, <2>2, <2>3
  <1>3. CASE path # name
    <2>1. PICK tab \in Tabs : path = Under(name, tab)
      BY <1>3 DEF RepositoryNavigation
    <2>2. <<tab>> \in Seq(Segment) /\ <<tab>>[1] = tab
      BY DEF Segment
    <2>3. tab \in RepositoryViews
      BY DEF Tabs, RepositoryViews
    <2>4. Keeps(name, name \o <<tab>>)
      BY <2>2, <2>3, RepositoryPaths DEF Keeps
    <2>5. path = name \o <<tab>>
      BY <1>1, <2>1, <2>2 DEF Under
    <2> QED
      BY <2>4, <2>5
  <1> QED
    BY <1>2, <1>3

(* The code view leads home or keeps the name.                             *)
LEMMA CodeLinks ==
  ASSUME NEW name \in Names \cup {Demo},
         NEW path \in CodeView(name, Branch, Tree) \cup RepoSidebar(name)
  PROVE  path = Home \/ Keeps(name, path)
  <1>1. name \in Seq(Segment) /\ Len(name) = 2
    BY NamesArePaths
  <1>2. {"branches", "tags", "commit", "commits", "blob", "releases"} \subseteq RepositoryViews
    BY DEF RepositoryViews
  <1>3. /\ <<"branches">> \in Seq(Segment) /\ <<"tags">> \in Seq(Segment)
        /\ <<"commit", "sha">> \in Seq(Segment) /\ <<"commits", Branch>> \in Seq(Segment)
        /\ <<"releases">> \in Seq(Segment)
    BY DEF Segment, RepositoryViews
  <1>4. /\ Keeps(name, name \o <<"branches">>) /\ Keeps(name, name \o <<"tags">>)
        /\ Keeps(name, name \o <<"commit", "sha">>) /\ Keeps(name, name \o <<"commits", Branch>>)
        /\ Keeps(name, name \o <<"releases">>)
    BY <1>2, <1>3, RepositoryPaths DEF Keeps
  <1>5. ASSUME NEW e \in Tree
        PROVE  Keeps(name, name \o <<IF e.folder THEN "tree" ELSE "blob", Branch>> \o e.path)
    <2> DEFINE kind == IF e.folder THEN "tree" ELSE "blob"
    <2>1. kind \in {"tree", "blob"} /\ kind \in Segment
      BY DEF Segment, RepositoryViews
    <2> HIDE DEF kind
    <2>2. /\ <<kind, Branch>> \in Seq(Segment)
          /\ Len(<<kind, Branch>>) = 2 /\ <<kind, Branch>>[1] = kind
      BY <2>1 DEF Segment
    <2>3. e.path \in Seq(Segment)
      <3>1. e.path \in Seq(STRING)
        BY TreeAssumption
      <3> QED
        BY <3>1 DEF Segment
    <2>4. /\ <<kind, Branch>> \o e.path \in Seq(Segment)
          /\ Len(<<kind, Branch>> \o e.path) = 2 + Len(e.path)
          /\ (<<kind, Branch>> \o e.path)[1] = kind
      <3> DEFINE front == <<kind, Branch>>
      <3>1. front \in Seq(Segment) /\ Len(front) = 2 /\ front[1] = kind
        BY <2>2
      <3> HIDE DEF front
      <3>2. /\ front \o e.path \in Seq(Segment) /\ Len(front \o e.path) = Len(front) + Len(e.path)
            /\ \A i \in 1 .. Len(front) + Len(e.path) :
                 (front \o e.path)[i] = IF i <= Len(front) THEN front[i] ELSE e.path[i - Len(front)]
        BY <2>3, <3>1, ConcatProperties
      <3>3. Len(e.path) \in Nat
        BY <2>3
      <3>4. (front \o e.path)[1] = kind
        BY <3>1, <3>2, <3>3
      <3> QED
        BY <3>1, <3>2, <3>4 DEF front
    <2>5. Len(e.path) \in Nat
      BY <2>3
    <2>6. Keeps(name, name \o (<<kind, Branch>> \o e.path))
      <3> DEFINE rest == <<kind, Branch>> \o e.path
      <3>1. rest \in Seq(Segment) /\ Len(rest) > 1 /\ rest[1] \in RepositoryViews \cup {"tree"}
        BY <1>2, <2>1, <2>4, <2>5
      <3> HIDE DEF rest
      <3>2. Keeps(name, name \o rest)
        BY <3>1, RepositoryPaths DEF Keeps
      <3> QED
        BY <3>2 DEF rest
    <2>7. name \o (<<kind, Branch>> \o e.path) = name \o <<kind, Branch>> \o e.path
      <3> DEFINE front == <<kind, Branch>>
      <3>1. front \in Seq(Segment)
        BY <2>2
      <3> HIDE DEF front
      <3>2. (name \o front) \o e.path = name \o (front \o e.path)
        <4>1. \A s, t, u \in Seq(Segment) : (s \o t) \o u = s \o (t \o u)
          BY ConcatAssociative
        <4> QED
          BY <1>1, <2>3, <3>1, <4>1, Zenon
      <3> QED
        BY <3>2 DEF front
    <2> QED
      BY <2>6, <2>7 DEF kind
  <1>6. Under(name, "releases") = name \o <<"releases">>
    BY <1>1, <1>3 DEF Under
  <1> QED
    BY <1>4, <1>5, <1>6 DEF CodeView, RepoSidebar, Readme

(* The repositories and the rows that the lists name.                      *)
LEMMA ListedPaths ==
  /\ Known(Demo) /\ Known(IssueRow) /\ Known(PullRow)
  /\ Known(<<"lcaml-foundation", "caramel">>) /\ Known(<<"not-the-ccp", "avelune">>)
  /\ Known(<<"lcaml-foundation", "ouroboros">>)
  <1>1. Keeps(Demo, Demo)
    BY NavigationLinks DEF RepositoryNavigation
  <1>2. Demo = <<"not-the-ccp", "hubgit-ui">>
    BY DEF Demo, navPath
  <1>3. /\ <<"issues", "42">> \in Seq(Segment) /\ <<"pulls", "57">> \in Seq(Segment)
        /\ {"issues", "pulls"} \subseteq RepositoryViews
    BY DEF Segment, RepositoryViews
  <1>4. Known(Demo \o <<"issues", "42">>) /\ Known(Demo \o <<"pulls", "57">>)
    BY <1>3, RepositoryPaths
  <1>5. IssueRow = Demo \o <<"issues", "42">> /\ PullRow = Demo \o <<"pulls", "57">>
    BY <1>2 DEF IssueRow, PullRow, navPath
  <1>6. ASSUME NEW a \in {"lcaml-foundation", "not-the-ccp"}, NEW b \in Segment
        PROVE  Known(<<a, b>>)
    <2>1. <<a, b>> \in Seq(Segment) /\ Len(<<a, b>>) = 2 /\ <<a, b>>[1] = a
      BY DEF Segment
    <2>2. a \notin Reserved
      BY DEF Reserved, NoOwner
    <2> QED
      BY <2>1, <2>2 DEF Known, repositoryRoute, Inside
  <1>7. {"caramel", "avelune", "ouroboros"} \subseteq Segment
    BY DEF Segment
  <1> QED
    BY <1>1, <1>4, <1>5, <1>6, <1>7 DEF Keeps

(* What RepositoryShell draws is a view of a repository's.                 *)
LEMMA ShellViews ==
  \A path, name :
    RepositoryShell(path, name) \subseteq RepositoryViews \cup {"code", "issue", "pull"}
  <1> SUFFICES ASSUME NEW path, NEW name
               PROVE  RepositoryShell(path, name) \subseteq
                        RepositoryViews \cup {"code", "issue", "pull"}
    OBVIOUS
  <1> DEFINE suffix == Suffix(path, name)
             detail == Len(suffix) > 1
  <1>1. RepositoryShell(path, name) =
          CASE suffix = <<>>                      -> {"code"}
            [] detail /\ suffix[1] = "issues"     -> {"issue"}
            [] detail /\ suffix[1] = "pulls"      -> {"pull"}
            [] OTHER                              -> {suffix[1]} \cap RepositoryViews
    BY DEF RepositoryShell
  <1> HIDE DEF suffix, detail
  <1> QED
    BY <1>1

(* Every view that is drawn is one of the application or of a repository.  *)
LEMMA DrawnViews ==
  ASSUME NEW path, NEW name, NEW view \in Content(path, name)
  PROVE  \/ view \in AppViews \ {"repository"}
         \/ view \in RepositoryViews \cup {"code", "issue", "pull"}
  BY ShellViews DEF Content, HubGitApp

(* The links of the views that belong to no repository.                    *)
LEMMA GlobalViewLinks ==
  ASSUME NEW view \in AppViews \ {"repository"}, NEW path \in GlobalLinks(view)
  PROVE  Known(path)
  BY OwnPages, ListedPaths
  DEF AppViews, GlobalLinks, Dashboard, FeedCard, Queues, Notifications, SearchResults, ProfilePage,
      OrganizationPage, SettingsPage

(* The pages of a repository but its code lead home, or from a list to the *)
(* row that every list has.                                                *)
LEMMA RepositoryPageLinks ==
  ASSUME NEW view \in (RepositoryViews \ {"settings"}) \cup {"issue", "pull"},
         NEW path \in RepositoryPages(view)
  PROVE  path = Home \/ (path \in {IssueRow, PullRow} /\ view \in {"issues", "pulls"})
  BY DEF RepositoryPages, RepositoryViews, ListPages, DetailPages, HistoryPages, PlanningPages,
     WikiPage, OversightPages, BlobPage, FeatureList

(* Every link of a document leads to a path that is known.                 *)
LEMMA KnownLinks ==
  ASSUME TypeOK, Known(page.path), NEW path \in Links
  PROVE  Known(path)
  <1>1. Name \in Names \cup {Demo}
    BY DEF TypeOK, Name
  <1>2. CASE Surface = "app"
    <2>1. \/ path \in GlobalHeader(Viewer) \cup BrandingLinks
          \/ path \in RepositoryNavigation(Name)
          \/ \E view \in Drawing :
               path \in IF view \in AppViews THEN GlobalLinks(view)
                        ELSE RepositoryLinks(view, Name, Branch, Tree)
      BY <1>2 DEF Links
    <2>2. CASE path \in GlobalHeader(Viewer) \cup BrandingLinks
      BY <2>2, OwnPages DEF GlobalHeader, BrandingLinks
    <2>3. CASE path \in RepositoryNavigation(Name)
      BY <1>1, <2>3, NavigationLinks DEF Keeps
    <2>4. ASSUME NEW view \in Drawing,
                 path \in IF view \in AppViews THEN GlobalLinks(view)
                          ELSE RepositoryLinks(view, Name, Branch, Tree)
          PROVE  Known(path)
      <3>1. \/ view \in AppViews \ {"repository"}
            \/ view \notin AppViews /\ view \in RepositoryViews \cup {"code", "issue", "pull"}
        BY DrawnViews DEF Drawing, RepositoryViews
      <3>2. CASE view \in AppViews \ {"repository"}
        BY <2>4, <3>2, GlobalViewLinks
      <3>3. CASE view = "code"
        <4>1. view \notin AppViews
          BY <3>3 DEF AppViews
        <4>2. path \in CodeView(Name, Branch, Tree) \cup RepoSidebar(Name)
          BY <2>4, <3>3, <4>1 DEF RepositoryLinks
        <4> QED
          BY <1>1, <4>2, CodeLinks, OwnPages DEF Keeps
      <3>4. CASE view \notin AppViews /\ view \in RepositoryViews \cup {"issue", "pull"}
        <4>1. view # "settings" /\ view # "code"
          BY <3>4 DEF AppViews, RepositoryViews
        <4>2. path \in RepositoryPages(view)
          BY <2>4, <3>4, <4>1 DEF RepositoryLinks
        <4>3. path = Home \/ path \in {IssueRow, PullRow}
          BY <3>4, <4>1, <4>2, RepositoryPageLinks
        <4> QED
          BY <4>3, OwnPages, ListedPaths
      <3> QED
        BY <3>1, <3>2, <3>3, <3>4
    <2> QED
      BY <2>1, <2>2, <2>3, <2>4
  <1>3. CASE Surface = "auth"
    <2>1. path \in {<<"login">>, <<"join">>}
      BY <1>3 DEF Links, AuthLinks
    <2> QED
      BY <2>1, OwnPages
  <1>4. CASE Surface \notin {"app", "auth"}
    <2>1. path = page.path
      BY <1>4 DEF Links
    <2> QED
      BY <2>1
  <1> QED
    BY <1>2, <1>3, <1>4

(* What a user types is known.                                             *)
LEMMA KnownEntries ==
  ASSUME NEW path \in Entries
  PROVE  Known(path)
  <1>1. /\ path \in Seq(STRING)
        /\ \/ IsAuthRoute(path)
           \/ HubGitApp(path) \ {"repository"} # {}
           \/ repositoryRoute(path) /\ Len(path) = 2
    BY EntriesAssumption
  <1>2. path \in Seq(Segment)
    BY <1>1 DEF Segment
  <1>3. Len(path) = 2 => Inside(path)
    BY DEF Inside
  <1> QED
    BY <1>1, <1>2, <1>3 DEF Known

(* A user starts at a known path.                                          *)
LEMMA InitPathOK == Init => PathOK
  BY KnownEntries DEF Init, PathOK, Requested

(* And so goes on: from the links, the form and the provider.              *)
LEMMA NextPathOK == TypeOK /\ PageOK /\ PathOK /\ [Next]_vars => PathOK'
  <1> SUFFICES ASSUME TypeOK, PageOK, PathOK, [Next]_vars
               PROVE  PathOK'
    OBVIOUS
  <1>1. ASSUME NEW path, Known(path), page' = Requested(path)
        PROVE  PathOK'
    BY <1>1 DEF PathOK, Requested
  <1>2. ASSUME UNCHANGED <<page.path, page.repository>>
        PROVE  PathOK'
    BY <1>2 DEF PathOK
  <1>3. CASE Load \/ ToggleColour \/ SwitchBranding \/ StartProvider \/ Deny
    <2>1. page'.path = page.path /\ page'.repository = page.repository
      BY <1>3 DEF PageOK, Load, ToggleColour, SwitchBranding, StartProvider, Deny
    <2> QED
      BY <1>2, <2>1
  <1>4. CASE RepositoryArrives
    <2>1. page'.path = page.path /\ repositoryRoute(page.path)
      BY <1>4 DEF PageOK, RepositoryArrives, Requires
    <2> QED
      BY <2>1 DEF PathOK
  <1>5. CASE \E path \in Links : Follow(path)
    BY <1>1, <1>5, KnownLinks DEF PathOK, Follow, Open
  <1>6. CASE \E path \in Entries : Visit(path)
    BY <1>1, <1>6, KnownEntries DEF Visit, Open
  <1>7. CASE Leave
    <2>1. form.leaving \in {<<"login">>, <<"dashboard">>} /\ page' = Requested(form.leaving)
      BY <1>7 DEF TypeOK, Leave, Open
    <2> QED
      BY <1>1, <2>1, OwnPages
  <1>8. CASE Authorize
    BY <1>1, <1>8 DEF PathOK, Authorize
  <1>9. CASE UNCHANGED page
    BY <1>2, <1>9
  <1> QED
    BY <1>3, <1>4, <1>5, <1>6, <1>7, <1>8, <1>9
    DEF Next, SignIn, Submit, Answer, AnswerIsLost, Accept, Refuse, vars
-----------------------------------------------------------------------------
(* What a path of two segments is not.                                     *)
LEMMA ShortPaths ==
  ASSUME NEW path, Len(path) >= 2
  PROVE  path # <<>> /\ \A a : path # <<a>>
  <1>1. Len(<<>>) = 0 /\ \A a : Len(<<a>>) = 1
    OBVIOUS
  <1>2. ASSUME path = <<>>
        PROVE  FALSE
    BY <1>2
  <1>3. ASSUME NEW a, path = <<a>>
        PROVE  FALSE
    BY <1>3
  <1> QED
    BY <1>2, <1>3

(* A path that the API is asked for a repository of draws no other view,   *)
(* but for the settings.                                                   *)
LEMMA RepositoryDraws ==
  ASSUME NEW path \in Seq(Segment), repositoryRoute(path)
  PROVE  /\ HubGitApp(path) \subseteq {"settings", "repository"}
         /\ IsPrefix(RepositorySettings, path) => "settings" \in HubGitApp(path)
         /\ ~IsPrefix(RepositorySettings, path) => "repository" \in HubGitApp(path)
  <1>1. Len(path) >= 2 /\ path[1] \notin Reserved
    BY DEF repositoryRoute
  <1>2. isRepoPath(path)
    BY <1>1 DEF isRepoPath, Reserved
  <1>3. \A a \in {"search", "settings"} : ~IsPrefix(<<a>>, path)
    <2> SUFFICES ASSUME NEW a \in {"search", "settings"}, IsPrefix(<<a>>, path)
                 PROVE  FALSE
      OBVIOUS
    <2>1. <<a>> \in Seq(Segment)
      BY DEF Segment, Reserved, NoOwner
    <2> DEFINE s == <<a>>
    <2>2. s \in Seq(Segment) /\ Len(s) = 1 /\ s[1] = a
      BY <2>1
    <2>3. IsPrefix(s, path)
      OBVIOUS
    <2> HIDE DEF s
    <2>4. \A i \in 1 .. Len(s) : s[i] = path[i]
      BY <2>2, <2>3, BeginsWith
    <2>5. path[1] = a
      BY <2>2, <2>4
    <2> QED
      BY <1>1, <2>5 DEF Reserved, NoOwner
  <1>4. /\ ~Drawn("dashboard", path) /\ ~Drawn("issue queue", path) /\ ~Drawn("pull queue", path)
        /\ ~Drawn("notifications", path) /\ ~Drawn("profile", path)
    BY <1>1, ShortPaths DEF Drawn, Home
  <1>5. ~Drawn("organization", path)
    BY <1>1 DEF Drawn, Reserved, NoOwner
  <1>6. ~Drawn("search", path) /\ ~Drawn("user settings", path)
    BY <1>3 DEF Drawn
  <1>7. /\ Drawn("settings", path) <=> IsPrefix(RepositorySettings, path)
        /\ Drawn("repository", path) <=> ~IsPrefix(RepositorySettings, path)
    BY <1>2 DEF Drawn
  <1> QED
    BY <1>4, <1>5, <1>6, <1>7 DEF HubGitApp, AppViews

(* An application page without a view is one of the three kinds.           *)
LEMMA BlankPages ==
  ASSUME TypeOK, PathOK
  PROVE  BlankPagesAreKnown
  <1> DEFINE path == page.path
  <1> SUFFICES ASSUME Surface = "app", Drawing = {}
               PROVE  \/ Len(path) > 3 /\ path[3] = "tree"
                      \/ path \in BrandingLinks
                      \/ page.repository # None /\ SubSeq(path, 1, 2) # page.repository
    BY DEF BlankPagesAreKnown
  <1>1. path \in Seq(Segment) /\ Shown /\ ~IsAuthRoute(path)
    BY DEF PathOK, Known, Surface
  <1>2. HubGitApp(path) \ {"repository"} = {}
    BY DEF Drawing, Content
  <1>3. CASE path \in BrandingLinks
    BY <1>3
  <1>4. CASE repositoryRoute(path) /\ Inside(path)
    <2>1. page.repository # None
      BY <1>1, <1>4 DEF Surface, Requires
    <2>2. CASE SubSeq(path, 1, 2) # page.repository
      BY <2>1, <2>2
    <2>3. CASE SubSeq(path, 1, 2) = page.repository
      <3>1. Name = page.repository /\ Name \in Names
        BY <2>1 DEF Name, TypeOK
      <3>2. Name \in Seq(Segment) /\ Len(Name) = 2
        BY <3>1, NamesArePaths
      <3>3. Len(path) >= 2
        BY <1>4 DEF repositoryRoute
      <3>4. IsPrefix(Name, path)
        BY <2>3, <3>1, <3>2, <3>3, SubSeqFull DEF IsPrefix
      <3> DEFINE suffix == SubSeq(path, 3, Len(path))
      <3>5. Suffix(path, Name) = suffix
        BY <3>2, <3>4 DEF Suffix
      <3>6. /\ suffix = <<>> <=> Len(path) = 2
            /\ Len(path) > 2 => suffix[1] = path[3]
        BY <1>1, <3>3, Behind
      <3>7. "repository" \in HubGitApp(path)
        BY <1>1, <1>2, <1>4, RepositoryDraws
      <3>8. RepositoryShell(path, Name) = {}
        BY <3>7 DEF Drawing, Content
      <3> DEFINE detail == Len(suffix) > 1
      <3>9. RepositoryShell(path, Name) =
              CASE suffix = <<>>                      -> {"code"}
                [] detail /\ suffix[1] = "issues"     -> {"issue"}
                [] detail /\ suffix[1] = "pulls"      -> {"pull"}
                [] OTHER                              -> {suffix[1]} \cap RepositoryViews
        BY <3>5 DEF RepositoryShell
      <3> HIDE DEF suffix, detail
      <3>10. suffix # <<>> /\ suffix[1] \notin RepositoryViews
        BY <3>8, <3>9
      <3>11. Len(path) > 2
        <4> DEFINE n == Len(path)
        <4>1. n \in Nat /\ n >= 2 /\ n # 2
          BY <1>1, <3>3, <3>6, <3>10
        <4> HIDE DEF n
        <4>2. n > 2
          BY <4>1
        <4> QED
          BY <4>2 DEF n
      <3> QED
        BY <1>4, <3>6, <3>10, <3>11 DEF Inside
    <2> QED
      BY <2>2, <2>3
  <1> QED
    BY <1>1, <1>2, <1>3, <1>4 DEF PathOK, Known

(* A link from a page of a repository to a path with a repository's name.  *)
LEMMA LinksKeepTheName ==
  ASSUME TypeOK, PathOK, NEW path \in Links, Surface = "app", page.repository \in Names,
         repositoryRoute(path)
  PROVE  \/ SubSeq(path, 1, 2) = page.repository
         \/ path \in {IssueRow, PullRow} /\ Drawing \cap {"issues", "pulls"} # {}
  <1>1. Name = page.repository /\ Name \in Names /\ repositoryRoute(page.path)
    BY NoneAssumption DEF Name, PathOK
  <1>2. page.path \in Seq(Segment)
    BY DEF PathOK, Known
  <1>3. Drawing \cap AppViews \subseteq {"settings"}
    <2>1. HubGitApp(page.path) \ {"repository"} \subseteq {"settings"}
      BY <1>1, <1>2, RepositoryDraws
    <2>2. (RepositoryViews \cup {"code", "issue", "pull"}) \cap AppViews = {"settings"}
      BY DEF RepositoryViews, AppViews
    <2>3. Drawing \subseteq (HubGitApp(page.path) \ {"repository"})
                             \cup RepositoryViews \cup {"code", "issue", "pull"}
      <3>1. \A view \in Drawing : \/ view \in HubGitApp(page.path) \ {"repository"}
                                  \/ view \in RepositoryShell(page.path, Name)
        BY DEF Drawing, Content
      <3> QED
        BY <3>1, ShellViews
    <2> QED
      BY <2>1, <2>2, <2>3
  <1>4. /\ path # Home
        /\ path \notin GlobalHeader(Viewer) \cup BrandingLinks
    BY ShortPaths DEF repositoryRoute, Home, GlobalHeader, BrandingLinks
  <1>5. \/ path \in RepositoryNavigation(Name)
        \/ \E view \in Drawing :
             path \in IF view \in AppViews THEN GlobalLinks(view)
                      ELSE RepositoryLinks(view, Name, Branch, Tree)
    BY <1>4 DEF Links
  <1>6. CASE path \in RepositoryNavigation(Name)
    BY <1>1, <1>6, NavigationLinks DEF Keeps
  <1>7. ASSUME NEW view \in Drawing,
               path \in IF view \in AppViews THEN GlobalLinks(view)
                        ELSE RepositoryLinks(view, Name, Branch, Tree)
        PROVE  \/ SubSeq(path, 1, 2) = page.repository
               \/ path \in {IssueRow, PullRow} /\ view \in {"issues", "pulls"}
    <2>1. CASE view \in AppViews
      <3>1. path \in GlobalLinks("settings")
        BY <1>3, <1>7, <2>1
      <3> QED
        BY <1>4, <3>1 DEF GlobalLinks, SettingsPage
    <2>2. CASE view = "code"
      <3>1. path \in CodeView(Name, Branch, Tree) \cup RepoSidebar(Name)
        BY <1>7, <2>2 DEF RepositoryLinks, AppViews
      <3> QED
        BY <1>1, <1>4, <3>1, CodeLinks DEF Keeps
    <2>3. CASE view \notin AppViews /\ view # "code"
      <3>1. view \in (RepositoryViews \ {"settings"}) \cup {"issue", "pull"}
        BY <2>3, DrawnViews DEF Drawing, AppViews
      <3>2. path \in RepositoryPages(view)
        BY <1>7, <2>3 DEF RepositoryLinks
      <3> QED
        BY <1>4, <3>1, <3>2, RepositoryPageLinks
    <2> QED
      BY <2>1, <2>2, <2>3
  <1> QED
    BY <1>5, <1>6, <1>7

(* Documents have known paths in every state of every behaviour.           *)
THEOREM PathInvariance == Spec => [](IInv /\ PathOK)
  <1>1. IInv /\ PathOK /\ [Next]_vars => (IInv /\ PathOK)'
    BY NextIInv, NextPathOK DEF IInv
  <1> QED
    BY <1>1, InitIInv, InitPathOK, PTL DEF Spec

(* HubGitApp and RepositoryShell: by its own links the application leads   *)
(* from its pages to pages that have something to show, but for folders,   *)
(* policies and repositories that go by another name than was asked for.   *)
THEOREM BlankPagesStayKnown == Spec => []BlankPagesAreKnown
  <1>1. IInv /\ PathOK => BlankPagesAreKnown
    BY BlankPages DEF IInv
  <1> QED
    BY <1>1, PathInvariance, PTL

(* The links of RepositoryShell and CodeView: from a page of a repository  *)
(* no link leads to a page of another, but for the rows of the lists.      *)
THEOREM LinksStayInTheRepository == Spec => RepositoryLinksKeepTheName
  <1>1. IInv /\ PathOK =>
          \A path \in Links :
            Surface = "app" /\ Follow(path) /\ page.repository \in Names /\ repositoryRoute(path)
              => \/ SubSeq(path, 1, 2) = page.repository
                 \/ path \in {IssueRow, PullRow} /\ Drawing \cap {"issues", "pulls"} # {}
    BY LinksKeepTheName DEF IInv
  <1> QED
    BY <1>1, PathInvariance, PTL DEF RepositoryLinksKeepTheName
=============================================================================
