----------------------------- MODULE HubGitClient -----------------------------
(* A caller of the generated client, HubGitClient, and a server of its        *)
(* contract: this repository's with the mock provider ("mock") or any that    *)
(* implements the whole of it ("conforming").  The caller reads what it can   *)
(* and makes one request after another, each of which it has to be able to    *)
(* write from what it has read.                                               *)
EXTENDS ContractOperations, SequencesExt

CONSTANT Refs    \* names of branches, as sequences of the pieces they are spelled with

(* A piece is what is written, never an escape: encodeURIComponent escapes    *)
(* the "%" of a name too.                                                     *)
ASSUME RefsAssumption ==
  \A ref \in Refs : ref \in Seq(STRING) /\ ToSet(ref) \cap {"%2F", "%23"} = {}

VARIABLES adapter,   \* the server: fixed
          kinds,     \* which kinds of things exist on the server
          signed,    \* whether the caller's cookie is a session's
          call       \* the request in progress or the last one

vars == <<adapter, kinds, signed, call>>

Adapters == {"mock", "conforming"}
NoCall == [phase |-> "none", op |-> None, ref |-> <<>>, url |-> <<>>, answer |-> None, outcome |-> None]

----------------------------------------------------------------------------
(* What there can be: everything is in the one repository, an organization    *)
(* counts when it owns it.                                                    *)
Needs(kind) ==
  CASE kind = "repository" -> {}
    [] kind = "team" -> {"repository", "organization"}
    [] kind \in {"pull", "workflow"} -> {"repository", "commit"}
    [] kind = "run" -> {"repository", "commit", "workflow"}
    [] OTHER -> {"repository"}

Possible == {UNION {{kind} \cup Needs(kind) : kind \in things} : things \in SUBSET Kinds}

OfferedBy(server) == IF server = "mock" THEN Served ELSE Operations
Offered == OfferedBy(adapter)

(* Who is answered at all: the contract's security, or the dependencies of    *)
(* the routes.                                                                *)
Admits(server, session, op) ==
  session \/ op \in Public \/ (server = "mock" /\ op = "listRepositories")
MayAsk(op) == Admits(adapter, signed, op)

(* A signed-in session carries the token and the viewer; the mock provider    *)
(* lists no authorization provider.                                           *)
Gives(server, session, things, op) ==
  {h \in Carried(Inputs[op].output, things) :
     /\ op \in {"getSession", "login", "register", "completeAuthProvider"} => session
     /\ h = "provider" => server # "mock"}

Wanted(op) == Inputs[op].path \cup Written(Inputs[op].body) \cup (Inputs[op].headers \ {"key", "etag"})

(* Everything reading can bring to a caller that starts with nothing.         *)
HeldAt(server, session, things) ==
  LET reads == {op \in OfferedBy(server) : Method(op) = "GET" /\ Admits(server, session, op)}
      gives == [op \in reads |-> Gives(server, session, things, op)]
      After[n \in 0..5] ==
        IF n = 0 THEN {}
        ELSE LET before == After[n - 1]
             IN  {h \in Handles : \/ h \in before
                                  \/ \E op \in reads : h \in gives[op] /\ Wanted(op) \subseteq before}
  IN  After[5]

(* What it can then ask for.  The entity tag for If-Match comes with a read   *)
(* of what is to be changed.                                                  *)
StartableAt(server, session, things) ==
  LET held == HeldAt(server, session, things)
      able == {op \in OfferedBy(server) : Wanted(op) \subseteq held}
      TagOf(op) == {r \in Tagged \cap able : Method(r) = "GET" /\ Template(r) = Template(op)}
  IN  {op \in able : "etag" \in Inputs[op].headers => \E r \in TagOf(op) : Admits(server, session, r)}

Chances == {[server |-> server, session |-> session, things |-> things,
             operations |-> StartableAt(server, session, things)] :
              server \in Adapters, session \in BOOLEAN, things \in Possible}
Startable ==
  (CHOOSE c \in Chances : c.server = adapter /\ c.session = signed /\ c.things = kinds).operations

----------------------------------------------------------------------------
Plainly(value) == value   \* mutation: values go into the path as they are

(* The segments of a request's path: its template with every value percent-   *)
(* encoded.  URL ends the path at a "#" that is not.                          *)
Encode(value) == [i \in DOMAIN value |-> CASE value[i] = "/" -> "%2F" [] value[i] = "#" -> "%23"
                                           [] OTHER -> value[i]]
Holds(segment) == segment \in {":ref", ":base...:head"}
Filled(segment, ref) ==
  IF Holds(segment) THEN Encode(ref)
  ELSE IF segment \in Parameters THEN <<"value">> ELSE <<segment>>

Place(piece, value) == Min({i \in DOMAIN value : value[i] = piece} \cup {Len(value) + 1})
UpTo(piece, value) == SubSeq(value, 1, Place(piece, value) - 1)
Url(op, ref) ==
  LET path == [i \in DOMAIN Template(op) |-> Filled(Template(op)[i], ref)]
      last == Min({i \in DOMAIN path : "#" \in ToSet(path[i])} \cup {Len(path)})
  IN  [i \in 1..last |-> UpTo("#", path[i])]

(* uvicorn decodes a path before it is matched with the routes, so that a     *)
(* branch with slashes is several segments; the contract means a value to be  *)
(* decoded after it.  A path has one branch.                                  *)
Decode(value) == [i \in DOMAIN value |-> CASE value[i] = "%2F" -> "/" [] value[i] = "%23" -> "#"
                                           [] OTHER -> value[i]]
Parts(value) ==
  LET cuts == {0} \cup {i \in DOMAIN value : value[i] = "/"}
  IN  [k \in 1..Cardinality(cuts) |->
         LET cut == CHOOSE c \in cuts : Cardinality({d \in cuts : d < c}) = k - 1
         IN  UpTo("/", SubSeq(value, cut + 1, Len(value)))]
Segments(url) ==
  LET path == [i \in DOMAIN url |-> Decode(url[i])]
      slashed == {i \in DOMAIN path : "/" \in ToSet(path[i])}
  IN  IF adapter = "conforming" \/ slashed = {} THEN path
      ELSE LET at == Min(slashed)
           IN  SubSeq(path, 1, at - 1) \o Parts(path[at]) \o SubSeq(path, at + 1, Len(path))

Matches(op, method, segments) ==
  /\ Method(op) = method /\ Len(Template(op)) = Len(segments)
  /\ \A i \in DOMAIN segments :
       Template(op)[i] \in Parameters \/ segments[i] = <<Template(op)[i]>>

RefIn(op, segments) ==
  LET held == {i \in DOMAIN segments : Holds(Template(op)[i])}
  IN  IF held = {} THEN <<>> ELSE segments[Min(held)]

(* The success an operation's routes and the contract name.                   *)
Redirects == {"startAuthProvider", "completeAuthProvider"}
StatusOf(op) ==
  CASE op \in {"logout", "resetPassword", "deleteRepository", "markNotificationsRead"} -> 204
    [] op \in {"requestPasswordRecovery", "dispatchWorkflow", "cancelWorkflowRun",
               "invalidateRepositoryCache"} -> 202
    [] OTHER -> 200
(* What a success may say its content is.  The page a redirect leads to and   *)
(* the bytes of a file may be of any media, JSON too.                         *)
MediaOf(op) ==
  CASE op = "streamEvents" -> {"stream"}
    [] op \in Redirects \cup {"getRawContent", "downloadArchive"} -> {"json", "other"}
    [] Inputs[op].output = None -> {"empty"}
    [] OTHER -> {"json"}
Answered(op, ref, status, media) == [by |-> op, ref |-> ref, status |-> status, media |-> media]

----------------------------------------------------------------------------
Init ==
  /\ adapter \in Adapters
  /\ kinds = IF adapter = "mock" THEN {"repository", "commit"} ELSE {}
  /\ signed = FALSE
  /\ call = NoCall

Call ==
  /\ call.phase = "none"
  /\ \E op \in Startable :
       \E ref \in IF \E i \in DOMAIN Template(op) : Holds(Template(op)[i]) THEN Refs ELSE {<<>>} :
         call' = [NoCall EXCEPT !.phase = "sent", !.op = op, !.ref = ref, !.url = Url(op, ref)]
  /\ UNCHANGED <<adapter, kinds, signed>>

(* What a success changes on the server.                                      *)
Makes(op) ==
  CASE op = "createRepository" -> {"repository"}
    [] op = "createIssue" -> {"issue"}
    [] op = "createPullRequest" -> {"pull"}
    [] op = "createDiscussion" -> {"discussion"}
    [] op = "dispatchWorkflow" -> {"run"}
    [] OTHER -> {}
\* mutation: what was in the repository stays
LeavingTheRest(op) == (kinds \cup Makes(op)) \ (IF op = "deleteRepository" THEN {"repository"} ELSE {})

Remaining(op) == IF op = "deleteRepository" THEN {} ELSE kinds \cup Makes(op)
Serve ==
  /\ call.phase = "sent"
  /\ \E segments \in {Segments(call.url)}, op \in Offered : \E media \in MediaOf(op) :
       /\ Matches(op, Method(call.op), segments) /\ MayAsk(op)
       /\ \A kind \in Makes(op) : Needs(kind) \subseteq kinds
       /\ kinds' = Remaining(op)
       /\ signed' = (op \in {"login", "register", "completeAuthProvider"} \/ (signed /\ op # "logout"))
       /\ call' = [call EXCEPT !.phase = "answered",
                              !.url = <<>>, !.answer = Answered(op, RefIn(op, segments),
                                                  StatusOf(op), media)]
  /\ UNCHANGED adapter

(* A problem of the server's, or an answer of what stands before it: a page,  *)
(* or data of its own, also as a success.                                     *)
Intervene ==
  /\ call.phase = "sent"
  /\ \E status \in {200, 404}, media \in {"json", "other"} :
       call' = [call EXCEPT !.phase = "answered", !.answer = Answered(None, <<>>, status, media)]
  /\ UNCHANGED <<adapter, kinds, signed>>

(* A 204 has no data, JSON is parsed, anything else is text.                  *)
Content(answer) ==
  IF answer.status = 204 THEN "undefined" ELSE IF answer.media = "json" THEN "json" ELSE "text"
Settled(answer) ==
  IF answer.status \in 200..299 THEN Content(answer) ELSE "HubGitRequestError"

(* request's tail.  A stream of events has no end to wait for.                *)
Read ==
  /\ call.phase = "answered" /\ call.answer.media # "stream"
  /\ call' = [call EXCEPT !.phase = "done", !.url = <<>>, !.outcome = Settled(call.answer)]
  /\ UNCHANGED <<adapter, kinds, signed>>

Failed == [call EXCEPT !.phase = "done", !.url = <<>>, !.answer = None, !.outcome = "failed"]

(* The body is cut short, or what says it is JSON is not.                     *)
ReadFails ==
  /\ call.phase = "answered" /\ call.answer.status # 204
  /\ call' = Failed
  /\ UNCHANGED <<adapter, kinds, signed>>

(* fetch rejects: no answer comes, a redirect leads where the page may not    *)
(* read, or the caller's signal aborts.                                       *)
Lose ==
  /\ call.phase \in {"sent", "answered"}
  /\ call' = Failed
  /\ UNCHANGED <<adapter, kinds, signed>>

Return ==
  /\ call.phase = "done"
  /\ call' = NoCall
  /\ UNCHANGED <<adapter, kinds, signed>>

(* Others use the server too: pushes, organizations, what is made there.      *)
Elsewhere(kind) ==
  /\ adapter = "conforming" /\ kind \notin kinds /\ Needs(kind) \subseteq kinds
  /\ kinds' = kinds \cup {kind}
  /\ UNCHANGED <<adapter, signed, call>>

(* A session ends by itself.                                                  *)
Expire == signed /\ signed' = FALSE /\ UNCHANGED <<adapter, kinds, call>>

Next ==
  \/ Call
  \/ Serve
  \/ Intervene
  \/ Read
  \/ ReadFails
  \/ Lose
  \/ Return
  \/ \E kind \in Kinds : Elsewhere(kind)
  \/ Expire

Spec == Init /\ [][Next]_vars

----------------------------------------------------------------------------
TypeOK ==
  /\ adapter \in Adapters /\ kinds \subseteq Kinds /\ signed \in BOOLEAN
  /\ \A kind \in kinds : Needs(kind) \subseteq kinds
  /\ call.phase \in {"none", "sent", "answered", "done"}
  /\ call.op \in Operations \cup {None} /\ call.ref \in Refs \cup {<<>>}
  /\ call.outcome \in {None, "undefined", "json", "text", "HubGitRequestError", "failed"}

(* The kinds of things an operation is about.                                 *)
Named(op) ==
  LET handles == Wanted(op)
  IN  {kind \in Kinds :
         \/ kind = "repository" /\ handles \cap {"owner", "repo"} # {}
         \/ kind = "organization" /\ "org" \in handles
         \/ kind = "commit" /\ "sha" \in handles
         \/ kind = "pull" /\ handles \cap {"pull", "head"} # {}
         \/ kind = "discussion" /\ "category" \in handles
         \/ kind \in {"issue", "workflow", "run"} /\ kind \in handles}

(* generated-client.ts: with a session, a caller of a server of the whole     *)
(* contract can write every request about things that exist, from what it     *)
(* reads: their names, the entity tags If-Match takes, the CSRF token.  Only  *)
(* two it never can: no read gives an organization's entity tag, and the      *)
(* token of a password reset comes by mail.                                   *)
WhatExistsCanBeAsked ==
  (call.phase = "none" /\ signed /\ adapter = "conforming") =>
    Startable = {op \in Operations \ {"updateOrganization", "resetPassword"} : Named(op) \subseteq kinds}

(* main.py, collaboration.py, discovery.py: the part of the contract this     *)
(* server implements is closed: with a session, what it serves can all be     *)
(* asked for from what it serves itself.  Without authorization providers the *)
(* two operations about them cannot.                                          *)
ServedCanBeAsked ==
  (call.phase = "none" /\ signed /\ adapter = "mock") =>
    Startable = {op \in Served \ Redirects : Named(op) \subseteq kinds}

(* HubGitClient.request: what is returned is what the operation that was      *)
(* called answered, about the branch it was called for, however the branch is *)
(* spelled and whenever the path is decoded; or it is a success that no       *)
(* operation gave, but what stands before the server did, which nothing in    *)
(* the client tells from the server's.                                        *)
AnswersAreAsked ==
  (call.phase = "done" /\ call.outcome \in {"undefined", "json", "text"}) =>
    \/ call.answer.by = call.op /\ call.answer.ref = call.ref
    \/ call.answer.by = None /\ call.answer.status \in 200..299
=============================================================================
