---------------------------- MODULE Collaboration ----------------------------
(***************************************************************************)
(* Issues, pull requests, their comments and reviews, and the replay       *)
(* records of apps/api/hubgit_api/collaboration.py, as the requests of one  *)
(* repository see them.                                                    *)
(*                                                                         *)
(* A request is a coroutine that yields to the others at every await.      *)
(* SQLite (through aiosqlite, in its default transaction mode) gives every *)
(* SELECT before the first write a snapshot of its own; the first INSERT   *)
(* or UPDATE takes the one write lock of the database file, which is held  *)
(* to COMMIT or ROLLBACK.  An UPDATE writes the whole JSON document and    *)
(* the version that the request computed from the row it LOADED, with no   *)
(* condition on the version the row has by then.                           *)
(***************************************************************************)
EXTENDS Integers, FiniteSets

CONSTANTS Requests,   \* HTTP requests, each handled at most once
          Users,      \* authenticated users
          Writers,    \* the users whose repository permission includes write
          Keys,       \* values of the Idempotency-Key header
          Commands,   \* the commands a request may carry
          None        \* no request, no command, no row

Kinds == {"issue", "issueComment", "pullRequest", "pullReview"}
ItemIds == Kinds \X Nat

CreateOps == {"createIssue", "createPull", "comment", "review"}
KeyedOps == CreateOps \cup {"merge"}      \* operations with an Idempotency-Key
EditOps == {"updateIssue", "updatePull"}  \* operations with an If-Match
Ops == KeyedOps \cup EditOps

(* What a payload asks for, as far as the handlers tell payloads apart: an *)
(* issue without title or with a state, an edit of the title only or of    *)
(* the state too ("null" is an explicit null), a review's event, a merge's *)
(* method or an expected head that is not the head.                        *)
Payloads(op) ==
  CASE op = "createIssue"                  -> {"untitled", "open", "closed"}
    [] op = "createPull"                   -> {"text", "other"}
    [] op = "comment"                      -> {"text", "other"}
    [] op = "review"                       -> {"comment", "approve", "request_changes"}
    [] op = "merge"                        -> {"merge", "squash", "staleHead"}
    [] op \in {"updateIssue", "updatePull"} -> {"title", "open", "closed", "null"}

Bodies == UNION {Payloads(op) : op \in Ops}

Command == [op : Ops, user : Users, target : Nat, key : Keys,
            body : Bodies, ifMatch : Nat]

ASSUME WritersAssumption == Writers \subseteq Users
ASSUME CommandsAssumption ==
  \A c \in Commands : c \in Command /\ c.body \in Payloads(c.op)
States == {"open", "closed", "merged", "null"}
Decisions == {"review_required", "approved", "changes_requested"}

(* One row of collaboration_items: "of" is issueNumber or pullNumber, and  *)
(* closedAt, mergedAt say whether those dates are set.                     *)
Item == [of : Nat, state : States, closedAt : BOOLEAN, mergedAt : BOOLEAN,
         commentCount : Nat, reviewDecision : Decisions, version : Nat]

NewItem(parent, state) ==
  [of |-> parent, state |-> state, closedAt |-> FALSE, mergedAt |-> FALSE,
   commentCount |-> 0, reviewDecision |-> "review_required", version |-> 1]

SeededItems == {<<"issue", 1>>, <<"issueComment", 1>>, <<"pullRequest", 2>>}

(* The rows of seed_collaboration.                                         *)
SeedItem(id) ==
  CASE id = <<"issue", 1>>        -> [NewItem(0, "open") EXCEPT !.commentCount = 1]
    [] id = <<"issueComment", 1>> -> NewItem(1, "open")
    [] id = <<"pullRequest", 2>>  -> NewItem(0, "open")

Refusals == {"repository.write_forbidden", "issue.title_required", "not_found",
             "resource.etag_mismatch", "idempotency.payload_mismatch",
             "pull.merge_not_open", "pull.expected_head_mismatch",
             "server.internal_error"}
Successes == {"created", "merged", "updated"}

(* A response: its code, the item it is about, and the version of its      *)
(* ETag, 0 where it carries none.  What is recorded is the body, without   *)
(* the header.                                                             *)
Response == [code : Refusals \cup Successes, item : ItemIds \cup {None}, version : Nat]
Result == [code : {"created", "merged"}, item : ItemIds, version : {0}]

Scopes == KeyedOps \X Users \X Nat
Names == Scopes \X Keys
Fingerprints == [name : Names, hash : Bodies]   \* what identifies a keyed command

ASSUME NoneAssumption == None \notin Requests \cup Command \cup Response \cup Fingerprints

Steps == {"idle", "load", "replay", "number", "flush", "commit", "respond",
          "done", "lost"}

VARIABLES
  items,       \* collaboration_items: id -> row, defined on the rows that exist
  records,     \* idempotency_records: <<scope, key>> -> hash and response
  writer,      \* the request whose transaction holds the write lock, or None
  step,        \* the await each request has reached
  command,     \* what it was asked to do
  loaded,      \* the row it loaded, on which its UPDATE is computed
  nextNumber,  \* the number it computed for the row it inserts
  response     \* what its client was answered

database == <<items, records, writer>>
local == <<command, loaded, nextNumber>>
vars == <<items, records, writer, step, command, loaded, nextNumber, response>>

-----------------------------------------------------------------------------
ItemKind(op) ==
  CASE op = "createIssue" -> "issue"
    [] op = "createPull"  -> "pullRequest"
    [] op = "comment"     -> "issueComment"
    [] op = "review"      -> "pullReview"

ParentKind(op) == IF op \in {"comment", "updateIssue"} THEN "issue" ELSE "pullRequest"

HasParent(c) == c.op \notin {"createIssue", "createPull"}
ParentId(c) == <<ParentKind(c.op), c.target>>
NewId(r) == <<ItemKind(command[r].op), nextNumber[r]>>

Name(c) == << <<c.op, c.user, c.target>>, c.key >>
Fingerprint(c) == c.body   \* sha256 of the payload: equal for equal payloads only

(* The UNIQUE constraints of collaboration_items and idempotency_records.  *)
NeverTaken(id) == FALSE        \* mutation: the first constraint is dropped
Taken(id) == id \in DOMAIN items
NeverRecorded(c) == FALSE      \* mutation: the second one is dropped
Recorded(c) == Name(c) \in DOMAIN records

(* The checks that answer 412 and 409, and what _replay looks up.          *)
NeverHolds(c, row) == FALSE    \* mutation: a check is left out
Stale(c, row) == c.ifMatch # row.version
NotOpen(c, row) == row.state # "open"
NeverFound(c) == FALSE         \* mutation: the record is never looked up
Found(c) == Name(c) \in DOMAIN records
NeverDiffers(c) == FALSE       \* mutation: the request hash is not compared
Differs(c) == records[Name(c)].hash # Fingerprint(c)

(* The operations that call _store_replay; mutation: a merge does not.      *)
StoringUnlessMerge(c) == c.op \in CreateOps
Storing(c) == c.op \in KeyedOps

NumbersOf(kind) == {id[2] : id \in {i \in DOMAIN items : i[1] = kind}}

(* Mutation: the count of all rows, whatever their kind.                   *)
CountNumber(kind) == Cardinality(DOMAIN items)

(* SELECT max(number), or 0 when the kind has no row.                      *)
MaxNumber(kind) ==
  IF NumbersOf(kind) = {} THEN 0
  ELSE CHOOSE n \in NumbersOf(kind) : \A m \in NumbersOf(kind) : m <= n

Put(f, x, v) == [y \in DOMAIN f \cup {x} |-> IF y = x THEN v ELSE f[y]]

InFlight(r) == step[r] \notin {"idle", "done", "lost"}

Answer(code, id, v) == [code |-> code, item |-> id, version |-> v]

(* The handler ends with this response.                                    *)
Reply(r, answer) ==
  /\ response' = [response EXCEPT ![r] = answer]
  /\ step' = [step EXCEPT ![r] = "done"]

Refuse(r, code) == Reply(r, Answer(code, None, 0))
Goto(r, s) == step' = [step EXCEPT ![r] = s] /\ UNCHANGED response
-----------------------------------------------------------------------------
Init ==
  /\ items = [id \in SeededItems |-> SeedItem(id)]
  /\ records = [name \in {} |-> None]
  /\ writer = None
  /\ step = [r \in Requests |-> "idle"]
  /\ command = [r \in Requests |-> None]
  /\ loaded = [r \in Requests |-> None]
  /\ nextNumber = [r \in Requests |-> 0]
  /\ response = [r \in Requests |-> None]

(* A request arrives; everything up to its first query: write permission,  *)
(* then the title of a new issue.                                          *)
Arrive(r) ==
  /\ step[r] = "idle"
  /\ \E c \in Commands :
       /\ command' = [command EXCEPT ![r] = c]
       /\ IF c.user \notin Writers THEN Refuse(r, "repository.write_forbidden")
          ELSE IF c.op = "createIssue" /\ c.body = "untitled"
               THEN Refuse(r, "issue.title_required")
          ELSE Goto(r, IF HasParent(c) THEN "load" ELSE "replay")
  /\ UNCHANGED <<database, loaded, nextNumber>>

(* _item: SELECT the issue or pull request; an edit compares its ETag.     *)
LoadItem(r) ==
  LET c == command[r] IN
  /\ step[r] = "load"
  /\ IF ParentId(c) \notin DOMAIN items
     THEN Refuse(r, "not_found") /\ UNCHANGED loaded
     ELSE /\ loaded' = [loaded EXCEPT ![r] = items[ParentId(c)]]
          /\ IF c.op \notin EditOps THEN Goto(r, "replay")
             ELSE IF Stale(c, items[ParentId(c)])
                  THEN Refuse(r, "resource.etag_mismatch")
             ELSE Goto(r, "flush")
  /\ UNCHANGED <<database, command, nextNumber>>

(* _replay: the record of this scope and key answers the request, or       *)
(* conflicts with it; a merge then checks the pull request it loaded.      *)
Replay(r) ==
  LET c == command[r] IN
  /\ step[r] = "replay"
  /\ IF Found(c)
     THEN IF Differs(c)
          THEN Refuse(r, "idempotency.payload_mismatch")
          ELSE Reply(r, records[Name(c)].response)
     ELSE IF c.op # "merge" THEN Goto(r, "number")
     ELSE IF NotOpen(c, loaded[r]) THEN Refuse(r, "pull.merge_not_open")
     ELSE IF c.body = "staleHead" THEN Refuse(r, "pull.expected_head_mismatch")
     ELSE Goto(r, "flush")
  /\ UNCHANGED <<database, local>>

PickNumber(r) ==
  /\ step[r] = "number"
  /\ nextNumber' = [nextNumber EXCEPT ![r] = MaxNumber(ItemKind(command[r].op)) + 1]
  /\ Goto(r, "flush")
  /\ UNCHANGED <<database, command, loaded>>

(* Mutation: after the UNIQUE violation, try again with the same number.   *)
FlushRetrying(r) ==
  /\ step[r] = "flush"
  /\ writer = None
  /\ IF command[r].op \in CreateOps /\ NewId(r) \in DOMAIN items
     THEN Goto(r, "flush") /\ UNCHANGED writer
     ELSE Goto(r, "commit") /\ writer' = r
  /\ UNCHANGED <<items, records, local>>

(* Mutation: after the UNIQUE violation, the transaction is left open.     *)
FlushKeepingLock(r) ==
  /\ step[r] = "flush"
  /\ writer = None
  /\ writer' = r
  /\ IF command[r].op \in CreateOps /\ NewId(r) \in DOMAIN items
     THEN Refuse(r, "server.internal_error")
     ELSE Goto(r, "commit")
  /\ UNCHANGED <<items, records, local>>

(* The first INSERT or UPDATE takes the write lock.  Inserting a number    *)
(* that is taken violates the UNIQUE constraint of collaboration_items:    *)
(* the transaction is rolled back and the client gets a 500.               *)
Flush(r) ==
  /\ step[r] = "flush"
  /\ writer = None
  /\ IF command[r].op \in CreateOps /\ Taken(NewId(r))
     THEN Refuse(r, "server.internal_error") /\ UNCHANGED writer
     ELSE Goto(r, "commit") /\ writer' = r
  /\ UNCHANGED <<items, records, local>>

(* SQLite gives up waiting for the lock: "database is locked", a 500.      *)
BusyTimeout(r) ==
  /\ step[r] = "flush"
  /\ writer # None
  /\ Refuse(r, "server.internal_error")
  /\ UNCHANGED <<database, local>>
-----------------------------------------------------------------------------
Versioned(row) == [row EXCEPT !.version = @ + 1]

(* Mutation: reopening an issue leaves its closedAt.                       *)
EditedKeepingDate(c, row) ==
  [Versioned(row) EXCEPT !.state = IF c.body = "title" THEN @ ELSE c.body,
                         !.closedAt = @ \/ c.body = "closed"]

(* The document an operation writes over its parent, from the row it       *)
(* loaded.                                                                 *)
Edited(c, row) ==
  IF c.body = "title" THEN Versioned(row)
  ELSE IF c.op = "updateIssue" /\ c.body # "null"
       THEN [Versioned(row) EXCEPT !.state = c.body, !.closedAt = (c.body = "closed")]
  ELSE [Versioned(row) EXCEPT !.state = c.body]

Commented(row) == [Versioned(row) EXCEPT !.commentCount = @ + 1]

(* Mutation: a review puts the pull request back to open.                  *)
ReviewedReopening(c, row) == [Versioned(row) EXCEPT !.state = "open"]

Decision(c, row) ==
  CASE c.body = "approve"         -> "approved"
    [] c.body = "request_changes" -> "changes_requested"
    [] OTHER                      -> row.reviewDecision

Reviewed(c, row) == [Versioned(row) EXCEPT !.reviewDecision = Decision(c, row)]

Merged(row) == [Versioned(row) EXCEPT !.state = "merged", !.mergedAt = TRUE]

ParentAfter(c, row) ==
  CASE c.op \in EditOps  -> Edited(c, row)
    [] c.op = "comment"  -> Commented(row)
    [] c.op = "review"   -> Reviewed(c, row)
    [] c.op = "merge"    -> Merged(row)

(* Mutation: a comment is stored without its issueNumber.                  *)
NewRowDetached(c) == NewItem(0, "open")

(* The row an operation inserts: an issue may be created closed.           *)
NewRow(c) ==
  NewItem(IF HasParent(c) THEN c.target ELSE 0,
          IF c.op = "createIssue" /\ c.body = "closed" THEN "closed" ELSE "open")

(* collaboration_items once the transaction of r is committed.             *)
Written(r) ==
  LET c == command[r]
      inserted == IF c.op \in CreateOps THEN Put(items, NewId(r), NewRow(c)) ELSE items
  IN IF HasParent(c) THEN Put(inserted, ParentId(c), ParentAfter(c, loaded[r]))
     ELSE inserted

(* The body that _store_replay records.                                    *)
StoredResponse(r) ==
  IF command[r].op = "merge" THEN Answer("merged", ParentId(command[r]), 0)
  ELSE Answer("created", NewId(r), 0)

(* COMMIT: the items and the replay record of one request, or nothing when *)
(* the record violates the UNIQUE constraint of idempotency_records.       *)
Commit(r) ==
  LET c == command[r] IN
  /\ step[r] = "commit"
  /\ writer' = None
  /\ IF Storing(c) /\ Recorded(c)
     THEN Refuse(r, "server.internal_error") /\ UNCHANGED <<items, records>>
     ELSE /\ items' = Written(r)
          /\ records' = IF ~Storing(c) THEN records
                        ELSE Put(records, Name(c),
                                 [hash |-> Fingerprint(c), response |-> StoredResponse(r)])
          /\ Goto(r, "respond")
  /\ UNCHANGED local

(* The answer of the request that performed a keyed command: the body, and *)
(* for a new issue or pull request the ETag of the row as it was inserted. *)
Original(r) ==
  [StoredResponse(r) EXCEPT
     !.version = IF HasParent(command[r]) THEN 0 ELSE NewRow(command[r]).version]

(* The response after the commit; an edit first refreshes its row, so that *)
(* its ETag is that of the row as it is now.                               *)
Respond(r) ==
  LET c == command[r] IN
  /\ step[r] = "respond"
  /\ Reply(r, IF c.op \in EditOps
              THEN Answer("updated", ParentId(c), items[ParentId(c)].version)
              ELSE Original(r))
  /\ UNCHANGED <<database, local>>

(* The process stops and starts again: what was not committed is rolled    *)
(* back and the clients of the requests in flight get no answer.           *)
Restart ==
  /\ \E r \in Requests : InFlight(r)
  /\ step' = [r \in Requests |-> IF InFlight(r) THEN "lost" ELSE step[r]]
  /\ writer' = None
  /\ UNCHANGED <<items, records, local, response>>

Handle(r) ==
  \/ LoadItem(r)
  \/ Replay(r)
  \/ PickNumber(r)
  \/ Flush(r)
  \/ BusyTimeout(r)
  \/ Commit(r)
  \/ Respond(r)

Next == Restart \/ \E r \in Requests : Arrive(r) \/ Handle(r)

Spec == Init /\ [][Next]_vars

(* The event loop resumes every coroutine whose await is over, and SQLite  *)
(* answers or gives up waiting for the lock.                               *)
FairSpec == Spec /\ \A r \in Requests : WF_vars(Handle(r))

(* The same handlers when no two requests overlap, as in the tests of the  *)
(* repository.                                                             *)
Starts == \E r \in Requests : step[r] = "idle" /\ step'[r] # "idle"
NoneInFlight == \A r \in Requests : ~InFlight(r)
SequentialSpec == Init /\ [][Next /\ (Starts => NoneInFlight)]_vars
-----------------------------------------------------------------------------
(* Every variable keeps its type, and the lock is held by the request that *)
(* is between its first write and its commit, and by no other.             *)
TypeOK ==
  /\ DOMAIN items \subseteq ItemIds
  /\ \A id \in DOMAIN items : items[id] \in Item
  /\ DOMAIN records \subseteq Names
  /\ \A n \in DOMAIN records : records[n] \in [hash : Bodies, response : Result]
  /\ step \in [Requests -> Steps]
  /\ command \in [Requests -> Commands \cup {None}]
  /\ loaded \in [Requests -> Item \cup {None}]
  /\ nextNumber \in [Requests -> Nat]
  /\ response \in [Requests -> Response \cup {None}]
  /\ writer \in Requests \cup {None}
  /\ \A r \in Requests : step[r] = "commit" <=> writer = r

FirstNumber(kind) == IF kind = "pullRequest" THEN 2 ELSE 1

(* However many requests compute max(number) + 1 at the same time, and     *)
(* whichever of them fail or are lost, the numbers of a kind have neither  *)
(* gaps nor duplicates.                                                    *)
NumbersAreDense ==
  \A kind \in Kinds :
    \E last \in NumbersOf(kind) \cup {0} : NumbersOf(kind) = FirstNumber(kind) .. last

Creates(name, id) == records[name].response = Answer("created", id, 0)

(* An item and the replay record of the command that created it are        *)
(* committed together or not at all: a row that is not seeded is the       *)
(* result of exactly one record, and no record names a row that is not     *)
(* there.  A retry after a lost answer relies on it.                       *)
EffectsAreRecorded ==
  /\ \A id \in DOMAIN items \ SeededItems :
       \E name \in DOMAIN records :
         /\ Creates(name, id)
         /\ \A other \in DOMAIN records : Creates(other, id) => other = name
  /\ \A name \in DOMAIN records : records[name].response.item \in DOMAIN items

Told(r) == response[r] # None /\ response[r].code \in {"created", "merged"}

(* What a client is told beside the ETag.                                  *)
Body(answer) == [answer EXCEPT !.version = 0]

(* Whoever is told that a keyed command succeeded is told what the durable *)
(* record of its scope and key says, for its own payload: duplicates, and  *)
(* requests answered before and after a restart, hear the same body.  The  *)
(* header is not recorded: only the request that performed the command may *)
(* hear the new row's ETag, so that of those who share a key at most one   *)
(* does, and its ETag is the one the row was created with.                 *)
AnswersAreRecorded ==
  /\ \A r \in Requests : Told(r) =>
       /\ Name(command[r]) \in DOMAIN records
       /\ records[Name(command[r])] =
            [hash |-> Fingerprint(command[r]), response |-> Body(response[r])]
       /\ response[r].version \in {0, 1}
  /\ \A r, q \in Requests :
       (/\ Told(r) /\ Told(q) /\ Name(command[r]) = Name(command[q])
        /\ response[r].version = 1 /\ response[q].version = 1) => r = q

CommentsOf(n) ==
  {id \in DOMAIN items : id[1] = "issueComment" /\ items[id].of = n}

(* An issue never shows more comments than it has, although the count is   *)
(* computed from a row that was loaded before the comment got its number.  *)
CommentsAreNotOvercounted ==
  \A n \in NumbersOf("issue") :
    items[<<"issue", n>>].commentCount <= Cardinality(CommentsOf(n))

(* A pull request that was ever written with a merge date has the record   *)
(* of a merge command: no stale document invents a merge.                  *)
MergesAreRecorded ==
  \A n \in NumbersOf("pullRequest") :
    items[<<"pullRequest", n>>].mergedAt =>
      \E name \in DOMAIN records :
        records[name].response = Answer("merged", <<"pullRequest", n>>, 0)

(* closedAt is never left on an open issue, and a merged pull request has  *)
(* its date, whichever whole document is written over which.               *)
DatesAgreeWithState ==
  \A id \in DOMAIN items :
    /\ items[id].closedAt => items[id].state # "open"
    /\ items[id].state = "merged" => items[id].mergedAt
-----------------------------------------------------------------------------
Commits(r) == step[r] = "commit" /\ step'[r] = "respond"

(* architecture-and-adapters.md: a stale If-Match is answered 412 and not  *)
(* applied.  An edit commits only over the version its client named.       *)
ConditionalWrite ==
  [][\A r \in Requests :
       Commits(r) /\ command[r].op \in EditOps =>
         command[r].ifMatch = items[ParentId(command[r])].version]_vars

(* A merged pull request leaves that state only by an edit of its current  *)
(* version, not by a review or an edit of what it was before the merge.    *)
MergeIsNotUndone ==
  [][\A n \in NumbersOf("pullRequest") :
       LET id == <<"pullRequest", n>> IN
       items[id].state = "merged" /\ items'[id].state # "merged" =>
         \E r \in Requests :
           /\ Commits(r)
           /\ command[r].op = "updatePull"
           /\ command[r].ifMatch = items[id].version]_vars

(* architecture-and-adapters.md: reusing a key returns the original result *)
(* or a stable conflict.  A request whose command is recorded by the time  *)
(* it is answered is not answered with an internal error.                  *)
ReuseIsAnswered ==
  [][\A r \in Requests :
       (step[r] # "done" /\ step'[r] = "done" /\ Name(command'[r]) \in DOMAIN records)
         => response'[r].code # "server.internal_error"]_vars

(* Every request is answered, unless the process stops under it.           *)
EveryRequestEnds ==
  \A r \in Requests : InFlight(r) ~> step[r] \in {"done", "lost"}
-----------------------------------------------------------------------------
(* The replay records implement IdempotentCommands: asked is the scope and *)
(* key of a request's command, done the records, told the bodies of the    *)
(* success answers.                                                        *)

AskedCommands ==
  [r \in Requests |->
     IF command[r] # None /\ command[r].op \in KeyedOps
     THEN [name |-> Name(command[r]), hash |-> Fingerprint(command[r])]
     ELSE None]

ToldResults == [r \in Requests |-> IF Told(r) THEN Body(response[r]) ELSE None]

Idempotent == INSTANCE IdempotentCommands WITH
  Hashes  <- Bodies,
  Results <- Result,
  Shared  <- {result \in Result : result.code = "merged"},
  asked   <- AskedCommands,
  done    <- records,
  told    <- ToldResults

(* Every step of the handlers is a step of the promise, or none.           *)
ImplementsIdempotentCommands == Idempotent!Spec
=============================================================================
