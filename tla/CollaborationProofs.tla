------------------------- MODULE CollaborationProofs -------------------------
(***************************************************************************)
(* Theorems about Collaboration for every set of requests, users, keys and *)
(* commands.                                                               *)
(***************************************************************************)
EXTENDS Collaboration, TLAPS

(* A command keeps its meaning while its request is handled, and what the  *)
(* request remembers between two awaits stays true of the database: the    *)
(* row it loaded still exists, the number it picked follows an existing    *)
(* one, and while it holds the lock that number is free.                   *)
RequestOK(r) ==
  LET c == command[r] IN
  /\ c = None <=> step[r] = "idle"
  /\ step[r] = "load" => HasParent(c)
  /\ step[r] = "replay" => c.op \notin EditOps
  /\ step[r] = "number" => c.op \in CreateOps
  /\ step[r] \in {"replay", "number", "flush", "commit", "respond"} /\ HasParent(c) =>
       /\ loaded[r] \in Item
       /\ ParentId(c) \in DOMAIN items
  /\ step[r] \in {"flush", "commit"} /\ c.op \in CreateOps =>
       LET kind == ItemKind(c.op) IN
       /\ nextNumber[r] >= FirstNumber(kind)
       /\ nextNumber[r] = FirstNumber(kind)
            \/ <<kind, nextNumber[r] - 1>> \in DOMAIN items
  /\ step[r] = "commit" /\ c.op \in CreateOps => NewId(r) \notin DOMAIN items
  /\ step[r] = "respond" /\ c.op \in CreateOps => NewId(r) \in DOMAIN items

LocalOK == \A r \in Requests : RequestOK(r)

SeedsStay == SeededItems \subseteq DOMAIN items

IInv == TypeOK /\ LocalOK /\ SeedsStay /\ NumbersAreDense
-----------------------------------------------------------------------------
(* The documents that operations write are rows.                           *)
LEMMA CommandFields ==
  ASSUME NEW c \in Commands
  PROVE  /\ c \in Command
         /\ c # None
         /\ c.body \in Payloads(c.op)
         /\ c.body \in Bodies
         /\ c.op \in Ops
         /\ c.user \in Users /\ c.target \in Nat /\ c.key \in Keys
  BY CommandsAssumption, NoneAssumption DEF Command

LEMMA RowFields ==
  ASSUME NEW row \in Item
  PROVE  /\ Versioned(row) \in Item
         /\ \A s \in States : [row EXCEPT !.state = s] \in Item
         /\ \A s \in States, b \in BOOLEAN :
              /\ [row EXCEPT !.state = s, !.closedAt = b] \in Item
              /\ [row EXCEPT !.state = s, !.mergedAt = b] \in Item
         /\ [row EXCEPT !.commentCount = @ + 1] \in Item
         /\ \A d \in Decisions : [row EXCEPT !.reviewDecision = d] \in Item
  <1>1. Versioned(row) \in Item
    BY DEF Item, Versioned
  <1>2. \A s \in States : [row EXCEPT !.state = s] \in Item
    BY DEF Item
  <1>3. ASSUME NEW s \in States, NEW b \in BOOLEAN
        PROVE  /\ [row EXCEPT !.state = s, !.closedAt = b] \in Item
               /\ [row EXCEPT !.state = s, !.mergedAt = b] \in Item
    BY DEF Item
  <1>4. [row EXCEPT !.commentCount = @ + 1] \in Item
    BY DEF Item
  <1>5. \A d \in Decisions : [row EXCEPT !.reviewDecision = d] \in Item
    BY DEF Item
  <1> QED
    BY <1>1, <1>2, <1>3, <1>4, <1>5

LEMMA ParentAfterType ==
  ASSUME NEW c \in Commands, NEW row \in Item, HasParent(c)
  PROVE  ParentAfter(c, row) \in Item
  <1>0. Versioned(row) \in Item
    BY RowFields
  <1>1. CASE c.op \in EditOps
    <2>1. c.body \in {"title", "open", "closed", "null"}
      BY <1>1, CommandFields DEF EditOps, Payloads
    <2>2. c.body # "title" => c.body \in States
      BY <2>1 DEF States
    <2>3. c.body # "title" =>
            [Versioned(row) EXCEPT !.state = c.body, !.closedAt = (c.body = "closed")] \in Item
      <3> DEFINE b == c.body = "closed"
      <3>1. b \in BOOLEAN
        OBVIOUS
      <3> HIDE DEF b
      <3>2. c.body # "title" => [Versioned(row) EXCEPT !.state = c.body, !.closedAt = b] \in Item
        BY <1>0, <2>2, <3>1, RowFields
      <3> QED
        BY <3>2 DEF b
    <2>4. c.body # "title" => [Versioned(row) EXCEPT !.state = c.body] \in Item
      BY <1>0, <2>2, RowFields
    <2>5. Edited(c, row) \in Item
      BY <1>0, <2>3, <2>4 DEF Edited
    <2>6. ParentAfter(c, row) = Edited(c, row)
      BY <1>1 DEF ParentAfter, EditOps
    <2> QED
      BY <2>5, <2>6
  <1>2. CASE c.op = "comment"
    <2>1. ParentAfter(c, row) = Commented(row)
      BY <1>2 DEF ParentAfter, EditOps
    <2> QED
      BY <1>0, <2>1, RowFields DEF Commented
  <1>3. CASE c.op = "review"
    <2>1. ParentAfter(c, row) = Reviewed(c, row)
      BY <1>3 DEF ParentAfter, EditOps
    <2>2. Decision(c, row) \in Decisions
      BY DEF Decision, Decisions, Item
    <2> QED
      BY <1>0, <2>1, <2>2, RowFields DEF Reviewed
  <1>4. CASE c.op = "merge"
    <2>1. ParentAfter(c, row) = Merged(row)
      BY <1>4 DEF ParentAfter, EditOps
    <2> QED
      BY <1>0, <2>1, RowFields DEF Merged, States
  <1> QED
    BY <1>1, <1>2, <1>3, <1>4, CommandFields DEF HasParent, Ops, KeyedOps, CreateOps

LEMMA NewRowType ==
  ASSUME NEW c \in Commands
  PROVE  NewRow(c) \in Item
  BY CommandFields DEF NewRow, NewItem, Item, States, Decisions

LEMMA IdTypes ==
  ASSUME NEW c \in Commands, NEW n \in Nat
  PROVE  /\ ParentId(c) \in ItemIds
         /\ c.op \in CreateOps => ItemKind(c.op) \in Kinds
         /\ c.op \in CreateOps => <<ItemKind(c.op), n>> \in ItemIds
         /\ c.op \in KeyedOps => Name(c) \in Names
  BY CommandFields DEF ParentId, ParentKind, ItemIds, Kinds, ItemKind, CreateOps,
     Name, Names, Scopes

(* The set of numbers of a kind is read off the keys of the table.         *)
LEMMA NumbersInDomain ==
  ASSUME NEW D \in SUBSET ItemIds, NEW kind \in Kinds, NEW n
  PROVE  n \in {id[2] : id \in {i \in D : i[1] = kind}} <=> <<kind, n>> \in D
  <1>1. ASSUME NEW id \in D
        PROVE  id = <<id[1], id[2]>>
    BY DEF ItemIds
  <1> QED
    BY <1>1

(* max(number) + 1 follows a number that exists, or is the first one.      *)
LEMMA MaxNumberFollows ==
  ASSUME TypeOK, SeedsStay, NumbersAreDense, NEW kind \in Kinds
  PROVE  /\ MaxNumber(kind) \in Nat
         /\ MaxNumber(kind) + 1 >= FirstNumber(kind)
         /\ MaxNumber(kind) + 1 = FirstNumber(kind)
              \/ <<kind, MaxNumber(kind)>> \in DOMAIN items
  <1> DEFINE ns == NumbersOf(kind)
  <1>1. \A n : n \in ns <=> <<kind, n>> \in DOMAIN items
    BY NumbersInDomain DEF NumbersOf, TypeOK
  <1>2. PICK last \in ns \cup {0} : ns = FirstNumber(kind) .. last
    BY DEF NumbersAreDense
  <1>3. ns \subseteq Nat
    <2> HIDE DEF ns
    <2>1. \A n : <<kind, n>> \in ItemIds => n \in Nat
      BY DEF ItemIds
    <2> QED
      BY <1>1, <2>1 DEF TypeOK
  <1>4. CASE ns = {}
    <2>1. kind # "pullRequest"
      BY <1>1, <1>4 DEF SeedsStay, SeededItems
    <2> QED
      BY <1>4, <2>1 DEF MaxNumber, FirstNumber
  <1>5. CASE ns # {}
    <2>1. last \in ns /\ \A m \in ns : m <= last
      BY <1>2, <1>3, <1>5 DEF FirstNumber
    <2>2. MaxNumber(kind) \in ns
      BY <1>5, <2>1 DEF MaxNumber
    <2> QED
      BY <1>1, <1>2, <1>3, <2>2 DEF FirstNumber
  <1> QED
    BY <1>4, <1>5
LEMMA StoredResponseType ==
  ASSUME TypeOK, NEW r \in Requests, command[r] \in Commands, command[r].op \notin EditOps
  PROVE  StoredResponse(r) \in Result
  <1>1. nextNumber[r] \in Nat
    BY DEF TypeOK
  <1> QED
    BY <1>1, CommandFields, IdTypes DEF StoredResponse, Answer, Result, NewId, Ops, KeyedOps

(* What is recorded is a body, and the original answer is that body with   *)
(* or without the ETag of a new row.                                       *)
LEMMA BodyOfResult ==
  ASSUME NEW result \in Result
  PROVE  Body(result) = result
  BY DEF Body, Result

LEMMA OriginalType ==
  ASSUME TypeOK, NEW r \in Requests, command[r] \in Commands, command[r].op \notin EditOps
  PROVE  /\ Original(r) \in Response
         /\ Body(Original(r)) = StoredResponse(r)
         /\ Original(r).code \in {"created", "merged"}
         /\ Original(r).version \in {0, 1}
  <1>1. StoredResponse(r) \in Result
    BY StoredResponseType
  <1>2. NewRow(command[r]).version = 1
    BY DEF NewRow, NewItem
  <1>3. Original(r) = [StoredResponse(r) EXCEPT
                         !.version = IF HasParent(command[r]) THEN 0 ELSE 1]
    BY <1>2 DEF Original
  <1> DEFINE result == StoredResponse(r)
             version == IF HasParent(command[r]) THEN 0 ELSE 1
  <1>4. version \in {0, 1}
    OBVIOUS
  <1>5. Original(r) = [result EXCEPT !.version = version] /\ result \in Result
    BY <1>1, <1>3
  <1> HIDE DEF result, version
  <1>6. Original(r) = [code |-> result.code, item |-> result.item, version |-> version]
    BY <1>5 DEF Result
  <1>7. result = [code |-> result.code, item |-> result.item, version |-> 0]
    BY <1>5 DEF Result
  <1>8. result.code \in {"created", "merged"} /\ result.item \in ItemIds
    BY <1>5 DEF Result
  <1>9. Body(Original(r)) = result
    BY <1>6, <1>7 DEF Body
  <1> QED
    BY <1>4, <1>6, <1>8, <1>9 DEF Response, Successes, result
-----------------------------------------------------------------------------
LEMMA InitIInv == Init => IInv
  <1> SUFFICES ASSUME Init
               PROVE  IInv
    OBVIOUS
  <1>1. SeededItems \subseteq ItemIds
    BY DEF SeededItems, ItemIds, Kinds
  <1>2. \A id \in SeededItems : SeedItem(id) \in Item
    BY DEF SeededItems, SeedItem, NewItem, Item, States, Decisions
  <1>3. TypeOK
    BY <1>1, <1>2, NoneAssumption DEF Init, TypeOK, Steps
  <1>4. LocalOK
    BY DEF Init, LocalOK, RequestOK
  <1>5. SeedsStay
    BY DEF Init, SeedsStay
  <1>6. NumbersAreDense
    <2> SUFFICES ASSUME NEW kind \in Kinds
                 PROVE  \E last \in NumbersOf(kind) \cup {0} :
                          NumbersOf(kind) = FirstNumber(kind) .. last
      BY DEF NumbersAreDense
    <2>1. \A n : n \in NumbersOf(kind) <=> <<kind, n>> \in SeededItems
      BY <1>1, NumbersInDomain DEF NumbersOf, Init
    <2>2. CASE kind \in {"issue", "issueComment"}
      <3>1. NumbersOf(kind) = {1}
        BY <2>1, <2>2 DEF SeededItems
      <3> QED
        BY <3>1, <2>2 DEF FirstNumber
    <2>3. CASE kind = "pullRequest"
      <3>1. NumbersOf(kind) = {2}
        BY <2>1, <2>3 DEF SeededItems
      <3> QED
        BY <3>1, <2>3 DEF FirstNumber
    <2>4. CASE kind = "pullReview"
      <3>1. NumbersOf(kind) = {}
        BY <2>1, <2>4 DEF SeededItems
      <3> QED
        BY <3>1, <2>4 DEF FirstNumber
    <2> QED
      BY <2>2, <2>3, <2>4 DEF Kinds
  <1> QED
    BY <1>3, <1>4, <1>5, <1>6 DEF IInv

(* What a step that leaves the table of items alone must still establish.  *)
LEMMA ItemsUnchanged ==
  ASSUME SeedsStay, NumbersAreDense, UNCHANGED items
  PROVE  SeedsStay' /\ NumbersAreDense'
  BY DEF SeedsStay, NumbersAreDense, NumbersOf

LEMMA RefuseType ==
  ASSUME TypeOK, NEW r \in Requests, NEW code \in Refusals, Refuse(r, code)
  PROVE  /\ response' \in [Requests -> Response \cup {None}]
         /\ step' \in [Requests -> Steps]
         /\ step' = [step EXCEPT ![r] = "done"]
  BY DEF TypeOK, Refuse, Reply, Answer, Response, Steps

LEMMA GotoType ==
  ASSUME TypeOK, NEW r \in Requests, NEW s \in Steps, Goto(r, s)
  PROVE  /\ response' \in [Requests -> Response \cup {None}]
         /\ step' \in [Requests -> Steps]
         /\ step' = [step EXCEPT ![r] = s]
  BY DEF TypeOK, Goto, Steps

LEMMA ArriveStep ==
  ASSUME IInv, NEW r \in Requests, Arrive(r)
  PROVE  IInv'
  <1> USE DEF IInv
  <1>1. PICK c \in Commands :
          /\ command' = [command EXCEPT ![r] = c]
          /\ IF c.user \notin Writers THEN Refuse(r, "repository.write_forbidden")
             ELSE IF c.op = "createIssue" /\ c.body = "untitled"
                  THEN Refuse(r, "issue.title_required")
             ELSE Goto(r, IF HasParent(c) THEN "load" ELSE "replay")
    BY DEF Arrive
  <1>2. UNCHANGED <<items, records, writer, loaded, nextNumber>> /\ step[r] = "idle"
    BY DEF Arrive, database
  <1>3. PICK s \in {"done", "load", "replay"} :
          /\ step' = [step EXCEPT ![r] = s]
          /\ s = "load" => HasParent(c)
          /\ s = "replay" => ~HasParent(c)
          /\ response' \in [Requests -> Response \cup {None}]
    BY <1>1, RefuseType, GotoType DEF Refusals, Steps
  <1>4. TypeOK'
    BY <1>1, <1>2, <1>3 DEF TypeOK, Steps
  <1>5. LocalOK'
    BY <1>1, <1>2, <1>3, CommandFields DEF LocalOK, RequestOK, TypeOK, HasParent, EditOps, NewId
  <1> QED
    BY <1>2, <1>4, <1>5, ItemsUnchanged

LEMMA LoadItemStep ==
  ASSUME IInv, NEW r \in Requests, LoadItem(r)
  PROVE  IInv'
  <1> USE DEF IInv
  <1> DEFINE c == command[r]
  <1>1. c \in Commands /\ step[r] = "load" /\ HasParent(c)
    BY DEF LoadItem, LocalOK, RequestOK, TypeOK
  <1>2. UNCHANGED <<items, records, writer, command, nextNumber>>
    BY DEF LoadItem, database
  <1>3. PICK s \in {"done", "replay", "flush"} :
          /\ step' = [step EXCEPT ![r] = s]
          /\ s = "replay" => c.op \notin EditOps
          /\ s = "flush" => c.op \in EditOps
          /\ s # "done" =>
               /\ ParentId(c) \in DOMAIN items
               /\ loaded' = [loaded EXCEPT ![r] = items[ParentId(c)]]
          /\ response' \in [Requests -> Response \cup {None}]
    BY RefuseType, GotoType DEF LoadItem, Refusals, Steps
  <1>4. loaded' \in [Requests -> Item \cup {None}]
    BY DEF LoadItem, TypeOK
  <1>5. TypeOK'
    BY <1>1, <1>2, <1>3, <1>4 DEF TypeOK, Steps
  <1>6. ASSUME NEW q \in Requests
        PROVE  RequestOK(q)'
    <2>1. CASE q = r
      <3>1. step'[q] = s /\ command'[q] = c /\ c # None
        BY <1>1, <1>2, <1>3, <2>1, CommandFields DEF TypeOK
      <3>2. s # "done" => loaded'[q] = items[ParentId(c)] /\ ParentId(c) \in DOMAIN items
        BY <1>3, <2>1 DEF TypeOK
      <3>3. s # "done" => loaded'[q] \in Item
        BY <3>2 DEF TypeOK
      <3>4. s = "flush" => c.op \notin CreateOps
        BY <1>3 DEF EditOps, CreateOps
      <3> QED
        BY <1>2, <1>3, <3>1, <3>2, <3>3, <3>4 DEF RequestOK
    <2>2. CASE q # r
      <3>1. step'[q] = step[q] /\ loaded'[q] = loaded[q]
        BY <1>3, <2>2 DEF TypeOK, LoadItem
      <3> QED
        BY <1>2, <3>1 DEF LocalOK, RequestOK, NewId
    <2> QED
      BY <2>1, <2>2
  <1>7. LocalOK'
    BY <1>6 DEF LocalOK
  <1> QED
    BY <1>2, <1>5, <1>7, ItemsUnchanged

LEMMA ReplayStep ==
  ASSUME IInv, NEW r \in Requests, Replay(r)
  PROVE  IInv'
  <1> USE DEF IInv
  <1> DEFINE c == command[r]
  <1>1. c \in Commands /\ step[r] = "replay" /\ c.op \notin EditOps
    BY DEF Replay, LocalOK, RequestOK, TypeOK
  <1>2. UNCHANGED <<items, records, writer, command, loaded, nextNumber>>
    BY DEF Replay, database, local
  <1>3. Name(c) \in DOMAIN records => records[Name(c)].response \in Response
    BY DEF TypeOK, Result, Response, Successes
  <1>4. PICK s \in {"done", "number", "flush"} :
          /\ step' = [step EXCEPT ![r] = s]
          /\ s = "number" => c.op # "merge"
          /\ s = "flush" => c.op = "merge"
          /\ response' \in [Requests -> Response \cup {None}]
    <2>1. CASE Name(c) \in DOMAIN records /\ records[Name(c)].hash = Fingerprint(c)
      BY <1>3, <2>1 DEF Replay, Found, Differs, Reply, TypeOK
    <2>2. CASE ~(Name(c) \in DOMAIN records /\ records[Name(c)].hash = Fingerprint(c))
      BY <2>2, RefuseType, GotoType DEF Replay, Found, Differs, Refusals, Steps
    <2> QED
      BY <2>1, <2>2
  <1>5. TypeOK'
    BY <1>1, <1>2, <1>4 DEF TypeOK, Steps
  <1>6. LocalOK'
    BY <1>1, <1>2, <1>4, CommandFields DEF LocalOK, RequestOK, TypeOK, NewId, EditOps, CreateOps,
       Ops, KeyedOps
  <1> QED
    BY <1>2, <1>5, <1>6, ItemsUnchanged

LEMMA PickNumberStep ==
  ASSUME IInv, NEW r \in Requests, PickNumber(r)
  PROVE  IInv'
  <1> USE DEF IInv
  <1> DEFINE c == command[r]
             kind == ItemKind(c.op)
  <1>1. c \in Commands /\ step[r] = "number" /\ c.op \in CreateOps
    BY DEF PickNumber, LocalOK, RequestOK, TypeOK
  <1>2. UNCHANGED <<items, records, writer, command, loaded>>
    BY DEF PickNumber, database
  <1>3. kind \in Kinds
    BY <1>1, IdTypes
  <1>4. /\ MaxNumber(kind) + 1 \in Nat
        /\ MaxNumber(kind) + 1 >= FirstNumber(kind)
        /\ MaxNumber(kind) + 1 = FirstNumber(kind)
             \/ <<kind, (MaxNumber(kind) + 1) - 1>> \in DOMAIN items
    <2> DEFINE n == MaxNumber(kind)
    <2>1. /\ n \in Nat
          /\ n + 1 >= FirstNumber(kind)
          /\ n + 1 = FirstNumber(kind) \/ <<kind, n>> \in DOMAIN items
      BY <1>3, MaxNumberFollows
    <2> HIDE DEF n, kind
    <2>2. n + 1 \in Nat /\ (n + 1) - 1 = n
      BY <2>1
    <2>3. <<kind, (n + 1) - 1>> = <<kind, n>>
      BY <2>2
    <2>4. /\ n + 1 \in Nat
          /\ n + 1 >= FirstNumber(kind)
          /\ n + 1 = FirstNumber(kind) \/ <<kind, (n + 1) - 1>> \in DOMAIN items
      BY <2>1, <2>2, <2>3
    <2> QED
      BY <2>4 DEF n
  <1>5. nextNumber' = [nextNumber EXCEPT ![r] = MaxNumber(kind) + 1]
    BY DEF PickNumber
  <1>6. /\ step' = [step EXCEPT ![r] = "flush"]
        /\ response' \in [Requests -> Response \cup {None}]
    BY GotoType DEF PickNumber, Steps
  <1>7. TypeOK'
    BY <1>1, <1>2, <1>4, <1>5, <1>6 DEF TypeOK, Steps
  <1>8. LocalOK'
    <2> SUFFICES ASSUME NEW q \in Requests
                 PROVE  RequestOK(q)'
      BY DEF LocalOK, RequestOK
    <2>1. CASE q = r
      BY <1>1, <1>2, <1>4, <1>5, <1>6, <2>1 DEF LocalOK, RequestOK, TypeOK, NewId
    <2>2. CASE q # r
      BY <1>1, <1>2, <1>5, <1>6, <2>2 DEF LocalOK, RequestOK, TypeOK, NewId
    <2> QED
      BY <2>1, <2>2
  <1> QED
    BY <1>2, <1>7, <1>8, ItemsUnchanged

LEMMA FlushStep ==
  ASSUME IInv, NEW r \in Requests, Flush(r)
  PROVE  IInv'
  <1> USE DEF IInv
  <1>1. step[r] = "flush" /\ writer = None
        /\ UNCHANGED <<items, records, command, loaded, nextNumber>>
    BY DEF Flush, local
  <1>2. PICK s \in {"done", "commit"} :
          /\ step' = [step EXCEPT ![r] = s]
          /\ writer' = IF s = "commit" THEN r ELSE None
          /\ s = "commit" /\ command[r].op \in CreateOps => NewId(r) \notin DOMAIN items
          /\ response' \in [Requests -> Response \cup {None}]
    BY <1>1, RefuseType, GotoType DEF Flush, Taken, Refusals, Steps
  <1>3. TypeOK'
    BY <1>1, <1>2, NoneAssumption DEF TypeOK, Steps
  <1>4. LocalOK'
    BY <1>1, <1>2 DEF LocalOK, RequestOK, TypeOK, NewId
  <1> QED
    BY <1>1, <1>3, <1>4, ItemsUnchanged

LEMMA BusyTimeoutStep ==
  ASSUME IInv, NEW r \in Requests, BusyTimeout(r)
  PROVE  IInv'
  <1> USE DEF IInv
  <1>1. step[r] = "flush"
        /\ UNCHANGED <<items, records, writer, command, loaded, nextNumber>>
    BY DEF BusyTimeout, database, local
  <1>2. /\ step' = [step EXCEPT ![r] = "done"]
        /\ response' \in [Requests -> Response \cup {None}]
    BY RefuseType DEF BusyTimeout, Refusals
  <1>3. TypeOK' /\ LocalOK'
    BY <1>1, <1>2 DEF TypeOK, LocalOK, RequestOK, Steps, NewId
  <1> QED
    BY <1>1, <1>3, ItemsUnchanged

LEMMA RespondStep ==
  ASSUME IInv, NEW r \in Requests, Respond(r)
  PROVE  IInv'
  <1> USE DEF IInv
  <1> DEFINE c == command[r]
  <1>1. c \in Commands /\ step[r] = "respond"
        /\ UNCHANGED <<items, records, writer, command, loaded, nextNumber>>
    BY DEF Respond, LocalOK, RequestOK, TypeOK, database, local
  <1>2. /\ c.op \in EditOps => items[ParentId(c)].version \in Nat
        /\ c.op \notin EditOps => Original(r) \in Response
    BY <1>1, OriginalType DEF LocalOK, RequestOK, TypeOK, Item, HasParent, EditOps
  <1>3. /\ step' = [step EXCEPT ![r] = "done"]
        /\ response' \in [Requests -> Response \cup {None}]
    <2>1. CASE c.op \in EditOps
      <3>1. Answer("updated", ParentId(c), items[ParentId(c)].version) \in Response
        BY <1>1, <1>2, <2>1, IdTypes DEF Answer, Response, Successes
      <3> QED
        BY <2>1, <3>1 DEF Respond, Reply, TypeOK
    <2>2. CASE c.op \notin EditOps
      <3>1. Original(r) \in Response
        BY <1>2, <2>2
      <3> QED
        BY <2>2, <3>1 DEF Respond, Reply, TypeOK
    <2> QED
      BY <2>1, <2>2
  <1>4. TypeOK' /\ LocalOK'
    BY <1>1, <1>3 DEF TypeOK, LocalOK, RequestOK, Steps, NewId
  <1> QED
    BY <1>1, <1>4, ItemsUnchanged

LEMMA RestartStep ==
  ASSUME IInv, Restart
  PROVE  IInv'
  <1> USE DEF IInv
  <1>1. UNCHANGED <<items, records, command, loaded, nextNumber, response>>
        /\ writer' = None
        /\ step' = [r \in Requests |-> IF InFlight(r) THEN "lost" ELSE step[r]]
    BY DEF Restart, local
  <1>2. TypeOK' /\ LocalOK'
    BY <1>1, NoneAssumption DEF TypeOK, LocalOK, RequestOK, Steps, NewId, InFlight
  <1> QED
    BY <1>1, <1>2, ItemsUnchanged

(* The table a commit writes: one new row at most, one row replaced at     *)
(* most, and every row well-formed.                                        *)
LEMMA WrittenRows ==
  ASSUME IInv, NEW r \in Requests, step[r] = "commit"
  PROVE  LET c == command[r] IN
         /\ c \in Commands
         /\ DOMAIN Written(r) =
              DOMAIN items \cup IF c.op \in CreateOps THEN {NewId(r)} ELSE {}
         /\ c.op \in CreateOps =>
              NewId(r) \in ItemIds /\ Written(r)[NewId(r)] = NewRow(c)
         /\ HasParent(c) => Written(r)[ParentId(c)] = ParentAfter(c, loaded[r])
         /\ \A id \in DOMAIN items :
              (HasParent(c) => id # ParentId(c)) => Written(r)[id] = items[id]
         /\ \A id \in DOMAIN Written(r) : Written(r)[id] \in Item
  <1> USE DEF IInv
  <1> DEFINE c == command[r]
             inserted == IF c.op \in CreateOps THEN Put(items, NewId(r), NewRow(c)) ELSE items
  <1>1. c \in Commands /\ nextNumber[r] \in Nat
    BY DEF LocalOK, RequestOK, TypeOK
  <1>2. /\ HasParent(c) => loaded[r] \in Item /\ ParentId(c) \in DOMAIN items
        /\ c.op \in CreateOps => NewId(r) \notin DOMAIN items
    BY DEF LocalOK, RequestOK
  <1>3. c.op \in CreateOps => NewId(r) \in ItemIds
    BY <1>1, IdTypes DEF NewId
  <1>4. /\ DOMAIN inserted =
             DOMAIN items \cup IF c.op \in CreateOps THEN {NewId(r)} ELSE {}
        /\ c.op \in CreateOps => inserted[NewId(r)] = NewRow(c)
        /\ \A id \in DOMAIN items : inserted[id] = items[id]
    <2>1. CASE c.op \in CreateOps
      <3>1. inserted = Put(items, NewId(r), NewRow(c))
        BY <2>1
      <3> QED
        BY <1>2, <2>1, <3>1 DEF Put
    <2>2. CASE c.op \notin CreateOps
      BY <2>2
    <2> QED
      BY <2>1, <2>2
  <1>5. Written(r) = IF HasParent(c) THEN Put(inserted, ParentId(c), ParentAfter(c, loaded[r]))
                     ELSE inserted
    BY DEF Written
  <1> HIDE DEF inserted
  <1>6. /\ DOMAIN Written(r) = DOMAIN inserted
        /\ HasParent(c) => Written(r)[ParentId(c)] = ParentAfter(c, loaded[r])
        /\ \A id \in DOMAIN inserted :
             (HasParent(c) => id # ParentId(c)) => Written(r)[id] = inserted[id]
    <2>1. CASE HasParent(c)
      <3>1. ParentId(c) \in DOMAIN inserted
        BY <1>2, <1>4, <2>1
      <3> QED
        BY <1>5, <2>1, <3>1 DEF Put
    <2>2. CASE ~HasParent(c)
      BY <1>5, <2>2
    <2> QED
      BY <2>1, <2>2
  <1>7. /\ HasParent(c) => ParentAfter(c, loaded[r]) \in Item
        /\ NewRow(c) \in Item
    BY <1>1, <1>2, ParentAfterType, NewRowType
  <1>8. \A id \in DOMAIN items : items[id] \in Item
    BY DEF TypeOK
  <1> QED
    BY <1>1, <1>2, <1>3, <1>4, <1>6, <1>7, <1>8

(* A number that is free and follows an existing one is the next number.   *)
LEMMA DenseAfterInsert ==
  ASSUME TypeOK, NumbersAreDense, NEW kind \in Kinds, NEW n \in Nat,
         <<kind, n>> \notin DOMAIN items,
         n >= FirstNumber(kind),
         n = FirstNumber(kind) \/ <<kind, n - 1>> \in DOMAIN items,
         DOMAIN items' = DOMAIN items \cup {<<kind, n>>}
  PROVE  NumbersAreDense'
  <1> SUFFICES ASSUME NEW k \in Kinds
               PROVE  \E last \in NumbersOf(k)' \cup {0} :
                        NumbersOf(k)' = FirstNumber(k) .. last
    BY DEF NumbersAreDense, FirstNumber
  <1>1. DOMAIN items' \in SUBSET ItemIds /\ DOMAIN items \in SUBSET ItemIds
    BY DEF TypeOK, ItemIds
  <1>2. /\ \A m : m \in NumbersOf(k) <=> <<k, m>> \in DOMAIN items
        /\ \A m : m \in NumbersOf(k)' <=> <<k, m>> \in DOMAIN items'
    BY <1>1, NumbersInDomain DEF NumbersOf
  <1>3. PICK last \in NumbersOf(k) \cup {0} : NumbersOf(k) = FirstNumber(k) .. last
    BY DEF NumbersAreDense
  <1>4. CASE k # kind
    <2>1. NumbersOf(k)' = NumbersOf(k)
      BY <1>2, <1>4
    <2> QED
      BY <1>3, <2>1
  <1>5. CASE k = kind
    <2>1. NumbersOf(k)' = NumbersOf(k) \cup {n}
      BY <1>2, <1>5
    <2>2. n \notin NumbersOf(k) /\ (n = FirstNumber(k) \/ n - 1 \in NumbersOf(k))
      BY <1>2, <1>5
    <2>3. FirstNumber(k) \in Nat /\ FirstNumber(k) >= 1 /\ last \in Int
      BY <1>2, <1>3, <1>1 DEF FirstNumber, ItemIds
    <2>4. NumbersOf(k) \cup {n} = FirstNumber(k) .. n
      BY <1>3, <1>5, <2>2, <2>3
    <2> QED
      BY <2>1, <2>4
  <1> QED
    BY <1>4, <1>5

LEMMA CommitStep ==
  ASSUME IInv, NEW r \in Requests, Commit(r)
  PROVE  IInv'
  <1> USE DEF IInv
  <1> DEFINE c == command[r]
  <1>1. step[r] = "commit" /\ writer' = None /\ UNCHANGED <<command, loaded, nextNumber>>
    BY DEF Commit, Storing, local
  <1>2. c \in Commands
    BY <1>1, WrittenRows
  <1>3. CASE c.op \in KeyedOps /\ Recorded(c)
    <2>1. /\ UNCHANGED <<items, records>>
          /\ step' = [step EXCEPT ![r] = "done"]
          /\ response' \in [Requests -> Response \cup {None}]
      BY <1>3, RefuseType DEF Commit, Storing, Refusals
    <2>2. TypeOK' /\ LocalOK'
      BY <1>1, <2>1, NoneAssumption DEF TypeOK, LocalOK, RequestOK, Steps, NewId
    <2> QED
      BY <2>1, <2>2, ItemsUnchanged
  <1>4. CASE ~(c.op \in KeyedOps /\ Recorded(c))
    <2>1. /\ items' = Written(r)
          /\ records' = IF c.op \notin KeyedOps THEN records
                        ELSE Put(records, Name(c),
                                 [hash |-> Fingerprint(c), response |-> StoredResponse(r)])
          /\ step' = [step EXCEPT ![r] = "respond"]
          /\ response' \in [Requests -> Response \cup {None}]
      BY <1>4, GotoType DEF Commit, Storing, Steps
    <2>2. /\ DOMAIN items' = DOMAIN items \cup IF c.op \in CreateOps THEN {NewId(r)} ELSE {}
          /\ c.op \in CreateOps => NewId(r) \in ItemIds
          /\ \A id \in DOMAIN items' : items'[id] \in Item
      BY <1>1, <2>1, WrittenRows
    <2>3. DOMAIN items' \subseteq ItemIds
      BY <2>2 DEF TypeOK
    <2>4. c.op \in KeyedOps =>
            [hash |-> Fingerprint(c), response |-> StoredResponse(r)]
              \in [hash : Bodies, response : Result]
      BY <1>2, CommandFields, StoredResponseType DEF Fingerprint, KeyedOps, EditOps, CreateOps
    <2>5. /\ DOMAIN records' \subseteq Names
          /\ \A n \in DOMAIN records' : records'[n] \in [hash : Bodies, response : Result]
      <3> DEFINE record == [hash |-> Fingerprint(c), response |-> StoredResponse(r)]
      <3>1. c.op \in KeyedOps => Name(c) \in Names
        BY <1>2, IdTypes DEF TypeOK
      <3>2. c.op \in KeyedOps => record \in [hash : Bodies, response : Result]
        BY <2>4
      <3>3. records' = IF c.op \notin KeyedOps THEN records ELSE Put(records, Name(c), record)
        BY <2>1
      <3> HIDE DEF record
      <3> QED
        BY <3>1, <3>2, <3>3 DEF TypeOK, Put
    <2>6. TypeOK'
      BY <1>1, <2>1, <2>2, <2>3, <2>5, NoneAssumption DEF TypeOK, Steps
    <2>7. LocalOK'
      <3> SUFFICES ASSUME NEW q \in Requests
                   PROVE  RequestOK(q)'
        BY DEF LocalOK
      <3>1. RequestOK(q) /\ DOMAIN items \subseteq DOMAIN items'
        BY <2>2 DEF LocalOK
      <3>2. CASE q = r
        BY <1>1, <2>1, <2>2, <3>1, <3>2 DEF RequestOK, TypeOK, NewId
      <3>3. CASE q # r
        <4>1. step[q] # "commit" /\ step'[q] = step[q]
          BY <1>1, <2>1, <3>3 DEF TypeOK
        <4> QED
          BY <1>1, <3>1, <4>1 DEF RequestOK, NewId
      <3> QED
        BY <3>2, <3>3
    <2>8. SeedsStay'
      BY <2>2 DEF SeedsStay
    <2>9. NumbersAreDense'
      <3>1. CASE c.op \in CreateOps
        <4>1. ItemKind(c.op) \in Kinds /\ nextNumber[r] \in Nat
          BY <1>2, <3>1, IdTypes DEF TypeOK
        <4>2. /\ <<ItemKind(c.op), nextNumber[r]>> \notin DOMAIN items
              /\ nextNumber[r] >= FirstNumber(ItemKind(c.op))
              /\ nextNumber[r] = FirstNumber(ItemKind(c.op))
                   \/ <<ItemKind(c.op), nextNumber[r] - 1>> \in DOMAIN items
          BY <1>1, <3>1 DEF LocalOK, RequestOK, NewId
        <4>3. DOMAIN items' = DOMAIN items \cup {<<ItemKind(c.op), nextNumber[r]>>}
          BY <2>2, <3>1 DEF NewId
        <4> QED
          BY <4>1, <4>2, <4>3, DenseAfterInsert
      <3>2. CASE c.op \notin CreateOps
        <4>1. DOMAIN items' = DOMAIN items
          BY <2>2, <3>2
        <4> QED
          BY <4>1 DEF NumbersAreDense, NumbersOf
      <3> QED
        BY <3>1, <3>2
    <2> QED
      BY <2>6, <2>7, <2>8, <2>9
  <1> QED
    BY <1>3, <1>4

LEMMA NextIInv == IInv /\ [Next]_vars => IInv'
  <1> SUFFICES ASSUME IInv, [Next]_vars
               PROVE  IInv'
    OBVIOUS
  <1>1. CASE Restart
    BY <1>1, RestartStep
  <1>2. ASSUME NEW r \in Requests, Arrive(r) \/ Handle(r)
        PROVE  IInv'
    BY <1>2, ArriveStep, LoadItemStep, ReplayStep, PickNumberStep, FlushStep,
       BusyTimeoutStep, CommitStep, RespondStep DEF Handle
  <1>3. CASE UNCHANGED vars
    <2>1. TypeOK' /\ LocalOK'
      BY <1>3 DEF IInv, TypeOK, LocalOK, RequestOK, NewId, vars
    <2> QED
      BY <1>3, <2>1, ItemsUnchanged DEF IInv, vars
  <1> QED
    BY <1>1, <1>2, <1>3 DEF Next

THEOREM InductiveInvariant == Spec => []IInv
  BY InitIInv, NextIInv, PTL DEF Spec

(* In every reachable state every variable has its type and the write lock *)
(* is held by exactly the request between its first write and its commit.  *)
THEOREM TypeCorrect == Spec => []TypeOK
  <1>1. IInv => TypeOK
    BY DEF IInv
  <1> QED
    BY <1>1, InductiveInvariant, PTL

(* Concurrent creations never leave a gap in, or reuse, the numbers of a   *)
(* kind, for any number of requests.                                       *)
THEOREM NumbersStayDense == Spec => []NumbersAreDense
  <1>1. IInv => NumbersAreDense
    BY DEF IInv
  <1> QED
    BY <1>1, InductiveInvariant, PTL
-----------------------------------------------------------------------------
(* The replay records and what clients are told.  A request that has       *)
(* committed and not answered yet is covered too: its record says what it  *)
(* is about to answer.                                                     *)
Committed ==
  \A r \in Requests :
    /\ response[r] # None => step[r] = "done"
    /\ step[r] = "respond" /\ command[r].op \in KeyedOps =>
         /\ Name(command[r]) \in DOMAIN records
         /\ records[Name(command[r])] =
              [hash |-> Fingerprint(command[r]), response |-> StoredResponse(r)]

AnswersHaveRecords ==
  \A r \in Requests : Told(r) =>
    /\ Name(command[r]) \in DOMAIN records
    /\ records[Name(command[r])] =
         [hash |-> Fingerprint(command[r]), response |-> Body(response[r])]
    /\ response[r].version \in {0, 1}

(* The requests that performed their command: they have committed it and   *)
(* not answered yet, or have answered with its ETag.  A name has one.      *)
Performed(r) ==
  \/ step[r] = "respond" /\ command[r].op \in KeyedOps
  \/ Told(r) /\ response[r].version = 1

PerformedOnce ==
  \A r, q \in Requests :
    Performed(r) /\ Performed(q) /\ Name(command[r]) = Name(command[q]) => r = q

RInv == EffectsAreRecorded /\ Committed /\ AnswersHaveRecords /\ PerformedOnce

LEMMA InitRInv == Init => RInv
  BY DEF Init, RInv, EffectsAreRecorded, Committed, AnswersHaveRecords, PerformedOnce,
         Performed, Told

LEMMA RInvAnswers == RInv => AnswersAreRecorded
  BY DEF RInv, AnswersHaveRecords, PerformedOnce, Performed, AnswersAreRecorded

(* Nobody performs a command who did not, and performers keep theirs.      *)
LEMMA PerformersKept ==
  ASSUME PerformedOnce,
         \A q \in Requests : Performed(q)' => Performed(q) /\ command'[q] = command[q]
  PROVE  PerformedOnce'
  BY DEF PerformedOnce, Name

(* Steps that write no item and no record, and answer r with a refusal if  *)
(* they answer at all.                                                     *)
LEMMA RInvKept ==
  ASSUME IInv, RInv, UNCHANGED <<items, records>>,
         \A q \in Requests :
           /\ step[q] = "respond" => command'[q] = command[q] /\ nextNumber'[q] = nextNumber[q]
           /\ step'[q] = "respond" => step[q] = "respond"
           /\ response[q] # None =>
                response'[q] = response[q] /\ step'[q] = "done" /\ command'[q] = command[q]
           /\ response[q] = None /\ response'[q] # None =>
                step'[q] = "done" /\ response'[q].code \notin {"created", "merged"}
  PROVE  RInv'
  <1>1. EffectsAreRecorded'
    BY DEF RInv, EffectsAreRecorded, Creates
  <1>2. Committed'
    BY DEF RInv, Committed, StoredResponse, NewId
  <1>3. AnswersHaveRecords'
    BY DEF RInv, AnswersHaveRecords, Told
  <1>4. \A q \in Requests : Performed(q)' => Performed(q) /\ command'[q] = command[q]
    BY DEF Performed, Told
  <1>5. PerformedOnce'
    BY <1>4, PerformersKept DEF RInv
  <1> QED
    BY <1>1, <1>2, <1>3, <1>5 DEF RInv

LEMMA RefuseRInv ==
  ASSUME IInv, RInv, NEW r \in Requests, NEW code \in Refusals, Refuse(r, code),
         step[r] \notin {"done", "respond"}, UNCHANGED <<items, records>>,
         \A q \in Requests \ {r} : command'[q] = command[q] /\ nextNumber'[q] = nextNumber[q]
  PROVE  RInv'
  <1>1. response[r] = None
    BY DEF RInv, Committed
  <1>2. /\ response' = [response EXCEPT ![r] = [code |-> code, item |-> None, version |-> 0]]
        /\ step' = [step EXCEPT ![r] = "done"]
    BY DEF Refuse, Reply, Answer
  <1>3. code \notin {"created", "merged"}
    BY DEF Refusals
  <1> QED
    BY <1>1, <1>2, <1>3, RInvKept DEF IInv, TypeOK, RInv, Committed

LEMMA GotoRInv ==
  ASSUME IInv, RInv, NEW r \in Requests, NEW s \in Steps \ {"respond"}, Goto(r, s),
         step[r] \notin {"done", "respond"}, UNCHANGED <<items, records>>,
         \A q \in Requests \ {r} : command'[q] = command[q] /\ nextNumber'[q] = nextNumber[q]
  PROVE  RInv'
  <1>1. response[r] = None
    BY DEF RInv, Committed
  <1>2. UNCHANGED response /\ step' = [step EXCEPT ![r] = s]
    BY DEF Goto
  <1> QED
    BY <1>1, <1>2, RInvKept DEF IInv, TypeOK, RInv, Committed

LEMMA ReplayRInv ==
  ASSUME IInv, RInv, NEW r \in Requests, Replay(r)
  PROVE  RInv'
  <1> DEFINE c == command[r]
  <1>1. step[r] = "replay" /\ UNCHANGED <<items, records, command, nextNumber>>
    BY DEF Replay, database, local
  <1>2. CASE Name(c) \in DOMAIN records /\ records[Name(c)].hash = Fingerprint(c)
    <2>1. /\ response' = [response EXCEPT ![r] = records[Name(c)].response]
          /\ step' = [step EXCEPT ![r] = "done"]
      BY <1>2 DEF Replay, Found, Differs, Reply
    <2>2. records[Name(c)] = [hash |-> Fingerprint(c), response |-> records[Name(c)].response]
      BY <1>2 DEF IInv, TypeOK
    <2>3. EffectsAreRecorded'
      BY <1>1 DEF RInv, EffectsAreRecorded, Creates
    <2>4. Committed'
      BY <1>1, <2>1 DEF RInv, Committed, StoredResponse, NewId, IInv, TypeOK
    <2>5. /\ records[Name(c)].response \in Result
          /\ Body(records[Name(c)].response) = records[Name(c)].response
          /\ records[Name(c)].response.version = 0
      BY <1>2, BodyOfResult DEF IInv, TypeOK, Result
    <2>6. \A q \in Requests \ {r} : response'[q] = response[q] /\ step'[q] = step[q]
      BY <2>1 DEF IInv, TypeOK
    <2>7. response'[r] = records[Name(c)].response /\ step'[r] = "done"
      BY <2>1 DEF IInv, TypeOK
    <2>8. AnswersHaveRecords'
      BY <1>1, <1>2, <2>2, <2>5, <2>6, <2>7 DEF RInv, AnswersHaveRecords, Told
    <2>9. \A q \in Requests : Performed(q)' => Performed(q)
      BY <1>1, <2>5, <2>6, <2>7 DEF Performed, Told
    <2>10. PerformedOnce'
      BY <1>1, <2>9, PerformersKept DEF RInv
    <2> QED
      BY <2>3, <2>4, <2>8, <2>10 DEF RInv
  <1>3. CASE ~(Name(c) \in DOMAIN records /\ records[Name(c)].hash = Fingerprint(c))
    <2>1. \/ \E code \in Refusals : Refuse(r, code)
          \/ \E s \in Steps \ {"respond"} : Goto(r, s)
      BY <1>3 DEF Replay, Found, Differs, Refusals, Steps
    <2> QED
      BY <1>1, <2>1, RefuseRInv, GotoRInv
  <1> QED
    BY <1>2, <1>3

(* A commit adds the item and the record of r together.                    *)
LEMMA CommitRInv ==
  ASSUME IInv, RInv, NEW r \in Requests, Commit(r)
  PROVE  RInv'
  <1> DEFINE c == command[r]
             record == [hash |-> Fingerprint(c), response |-> StoredResponse(r)]
  <1>1. step[r] = "commit" /\ UNCHANGED <<command, nextNumber>>
    BY DEF Commit, Storing, local
  <1>2. CASE c.op \in KeyedOps /\ Recorded(c)
    <2>1. Refuse(r, "server.internal_error") /\ UNCHANGED <<items, records>>
      BY <1>2 DEF Commit, Storing
    <2> QED
      BY <1>1, <2>1, RefuseRInv DEF Refusals
  <1>3. CASE ~(c.op \in KeyedOps /\ Recorded(c))
    <2>1. /\ items' = Written(r)
          /\ records' = IF c.op \notin KeyedOps THEN records ELSE Put(records, Name(c), record)
          /\ step' = [step EXCEPT ![r] = "respond"]
          /\ UNCHANGED response
      BY <1>3 DEF Commit, Storing, Goto
    <2>2. /\ DOMAIN items' = DOMAIN items \cup IF c.op \in CreateOps THEN {NewId(r)} ELSE {}
          /\ c \in Commands
          /\ c.op \in CreateOps => NewId(r) \notin DOMAIN items
          /\ HasParent(c) => ParentId(c) \in DOMAIN items
      BY <1>1, <2>1, WrittenRows DEF IInv, LocalOK, RequestOK
    <2>3. c.op \in KeyedOps =>
            /\ Name(c) \notin DOMAIN records
            /\ DOMAIN records' = DOMAIN records \cup {Name(c)}
            /\ records'[Name(c)] = record
            /\ \A n \in DOMAIN records : records'[n] = records[n]
      <3> HIDE DEF record
      <3> QED
        BY <1>3, <2>1 DEF Recorded, Put
    <2>4. c.op \notin KeyedOps => UNCHANGED records
      BY <2>1
    <2>5. /\ c.op = "merge" => record.response = Answer("merged", ParentId(c), 0)
          /\ c.op \in CreateOps => record.response = Answer("created", NewId(r), 0)
      BY DEF StoredResponse, CreateOps
    <2>6. c.op \in KeyedOps => c.op = "merge" \/ c.op \in CreateOps
      BY DEF KeyedOps
    <2>7. /\ \A n \in DOMAIN records : n \in DOMAIN records' /\ records'[n] = records[n]
          /\ \A n \in DOMAIN records' \ DOMAIN records :
               n = Name(c) /\ c.op \in KeyedOps /\ records'[n] = record
      BY <2>3, <2>4
    <2> HIDE DEF record
    <2>8. EffectsAreRecorded'
      <3>1. ASSUME NEW id \in DOMAIN items' \ SeededItems
            PROVE  \E name \in DOMAIN records' :
                     /\ Creates(name, id)'
                     /\ \A other \in DOMAIN records' : Creates(other, id)' => other = name
        <4>1. CASE id \in DOMAIN items
          <5>1. PICK name \in DOMAIN records :
                  /\ Creates(name, id)
                  /\ \A other \in DOMAIN records : Creates(other, id) => other = name
            BY <3>1, <4>1 DEF RInv, EffectsAreRecorded
          <5>2. ASSUME NEW other \in DOMAIN records' \ DOMAIN records
                PROVE  ~ Creates(other, id)'
            BY <2>2, <2>5, <2>6, <2>7, <4>1 DEF Creates, Answer
          <5> QED
            BY <2>7, <5>1, <5>2 DEF Creates
        <4>2. CASE id \notin DOMAIN items
          <5>1. c.op \in CreateOps /\ id = NewId(r) /\ c.op \in KeyedOps
            BY <2>2, <3>1, <4>2 DEF KeyedOps
          <5>2. /\ Name(c) \in DOMAIN records'
                /\ records'[Name(c)].response = Answer("created", id, 0)
            <6>1. records'[Name(c)].response = record.response
              BY <2>3, <5>1
            <6> QED
              BY <2>3, <2>5, <5>1, <6>1
          <5>3. \A other \in DOMAIN records :
                  records'[other].response # Answer("created", id, 0)
            <6>1. \A other \in DOMAIN records : records[other].response.item # id
              BY <4>2 DEF RInv, EffectsAreRecorded
            <6> QED
              BY <2>7, <6>1 DEF Answer
          <5> QED
            BY <2>7, <5>2, <5>3 DEF Creates
        <4> QED
          BY <4>1, <4>2
      <3>2. ASSUME NEW name \in DOMAIN records'
            PROVE  records'[name].response.item \in DOMAIN items'
        <4>1. CASE name \in DOMAIN records
          BY <2>2, <2>7, <4>1 DEF RInv, EffectsAreRecorded
        <4>2. CASE name \notin DOMAIN records
          <5>1. c.op = "merge" => ParentId(c) \in DOMAIN items
            BY <2>2 DEF HasParent
          <5> QED
            BY <2>2, <2>5, <2>6, <2>7, <3>2, <4>2, <5>1 DEF Answer
        <4> QED
          BY <4>1, <4>2
      <3> QED
        BY <3>1, <3>2 DEF EffectsAreRecorded
    <2>9. Committed'
      <3> SUFFICES ASSUME NEW q \in Requests
                   PROVE  /\ response'[q] # None => step'[q] = "done"
                          /\ step'[q] = "respond" /\ command'[q].op \in KeyedOps =>
                               /\ Name(command'[q]) \in DOMAIN records'
                               /\ records'[Name(command'[q])] =
                                    [hash |-> Fingerprint(command'[q]),
                                     response |-> StoredResponse(q)']
        BY DEF Committed, Name, Fingerprint
      <3>1. StoredResponse(q)' = StoredResponse(q)
        BY <1>1 DEF StoredResponse, NewId
      <3>2. CASE q = r
        BY <1>1, <2>1, <2>3, <3>1, <3>2 DEF RInv, Committed, IInv, TypeOK, record
      <3>3. CASE q # r
        BY <1>1, <2>1, <2>7, <3>1, <3>3 DEF RInv, Committed, IInv, TypeOK
      <3> QED
        BY <3>2, <3>3
    <2>10. AnswersHaveRecords'
      BY <1>1, <2>1, <2>7 DEF RInv, AnswersHaveRecords, Told
    <2>11. PerformedOnce'
      <3>1. \A q \in Requests \ {r} : Performed(q)' <=> Performed(q)
        BY <1>1, <2>1 DEF Performed, Told, IInv, TypeOK
      <3>2. \A q \in Requests : Performed(q) => Name(command[q]) \in DOMAIN records
        BY DEF Performed, RInv, Committed, AnswersHaveRecords
      <3>3. Performed(r)' => c.op \in KeyedOps
        <4>1. response[r] = None
          BY <1>1 DEF RInv, Committed
        <4> QED
          BY <1>1, <2>1, <4>1 DEF Performed, Told
      <3>4. Performed(r)' => Name(c) \notin DOMAIN records
        BY <2>3, <3>3
      <3> QED
        BY <1>1, <3>1, <3>2, <3>4 DEF RInv, PerformedOnce, Name
    <2> QED
      BY <2>8, <2>9, <2>10, <2>11 DEF RInv
  <1> QED
    BY <1>2, <1>3

LEMMA RespondRInv ==
  ASSUME IInv, RInv, NEW r \in Requests, Respond(r)
  PROVE  RInv'
  <1> DEFINE c == command[r]
  <1>1. step[r] = "respond" /\ UNCHANGED <<items, records, command, nextNumber>>
    BY DEF Respond, database, local
  <1>2. step' = [step EXCEPT ![r] = "done"]
        /\ response' = [response EXCEPT ![r] = response'[r]]
    BY DEF Respond, Reply, IInv, TypeOK
  <1>3. /\ c.op \in EditOps => response'[r].code = "updated"
        /\ c.op \notin EditOps => response'[r] = Original(r)
    BY DEF Respond, Reply, Answer, IInv, TypeOK
  <1>4. c \in Commands /\ (c.op \notin EditOps => c.op \in KeyedOps)
    BY <1>1, CommandFields DEF IInv, TypeOK, LocalOK, RequestOK, Ops
  <1>5. EffectsAreRecorded'
    BY <1>1 DEF RInv, EffectsAreRecorded, Creates
  <1>6. Committed'
    BY <1>1, <1>2 DEF RInv, Committed, StoredResponse, NewId, IInv, TypeOK
  <1>7. c.op \notin EditOps =>
          /\ Body(Original(r)) = StoredResponse(r)
          /\ Original(r).version \in {0, 1}
    BY <1>4, OriginalType DEF IInv
  <1>8. \A q \in Requests \ {r} : response'[q] = response[q] /\ step'[q] = step[q]
    BY <1>2 DEF IInv, TypeOK
  <1>9. AnswersHaveRecords'
    <2> SUFFICES ASSUME NEW q \in Requests, Told(q)'
                 PROVE  /\ Name(command'[q]) \in DOMAIN records'
                        /\ records'[Name(command'[q])] =
                             [hash |-> Fingerprint(command'[q]),
                              response |-> Body(response'[q])]
                        /\ response'[q].version \in {0, 1}
      BY DEF AnswersHaveRecords, Name, Fingerprint
    <2>1. CASE q = r
      <3>1. c.op \notin EditOps
        BY <1>3, <2>1 DEF Told
      <3>2. /\ Name(c) \in DOMAIN records
            /\ records[Name(c)] = [hash |-> Fingerprint(c), response |-> StoredResponse(r)]
        BY <1>1, <1>4, <3>1 DEF RInv, Committed
      <3> QED
        BY <1>1, <1>3, <1>7, <2>1, <3>1, <3>2
    <2>2. CASE q # r
      BY <1>1, <1>8, <2>2 DEF RInv, AnswersHaveRecords, Told
    <2> QED
      BY <2>1, <2>2
  <1>10. PerformedOnce'
    <2>1. \A q \in Requests \ {r} : Performed(q)' => Performed(q)
      BY <1>1, <1>8 DEF Performed, Told
    <2>2. Performed(r)' => Performed(r)
      BY <1>1, <1>2, <1>3, <1>4 DEF Performed, Told, IInv, TypeOK
    <2> QED
      BY <1>1, <2>1, <2>2, PerformersKept DEF RInv
  <1> QED
    BY <1>5, <1>6, <1>9, <1>10 DEF RInv

LEMMA NextRInv == IInv /\ RInv /\ [Next]_vars => RInv'
  <1> SUFFICES ASSUME IInv, RInv, [Next]_vars
               PROVE  RInv'
    OBVIOUS
  <1>1. CASE Restart
    <2>1. /\ UNCHANGED <<items, records, command, nextNumber, response>>
          /\ step' = [r \in Requests |-> IF InFlight(r) THEN "lost" ELSE step[r]]
      BY <1>1 DEF Restart, local
    <2> QED
      BY <2>1, RInvKept DEF RInv, Committed, InFlight
  <1>2. ASSUME NEW r \in Requests, Arrive(r) \/ Handle(r)
        PROVE  RInv'
    <2>1. CASE Arrive(r)
      <3>1. /\ step[r] = "idle"
            /\ UNCHANGED <<items, records, nextNumber>>
            /\ \A q \in Requests \ {r} : command'[q] = command[q]
            /\ \/ \E code \in Refusals : Refuse(r, code)
               \/ \E s \in Steps \ {"respond"} : Goto(r, s)
        BY <2>1 DEF Arrive, database, Refusals, Steps, IInv, TypeOK
      <3> QED
        BY <3>1, RefuseRInv, GotoRInv
    <2>2. CASE LoadItem(r)
      <3>1. /\ step[r] = "load"
            /\ UNCHANGED <<items, records, command, nextNumber>>
            /\ \/ \E code \in Refusals : Refuse(r, code)
               \/ \E s \in Steps \ {"respond"} : Goto(r, s)
        BY <2>2 DEF LoadItem, database, Refusals, Steps
      <3> QED
        BY <3>1, RefuseRInv, GotoRInv
    <2>3. CASE PickNumber(r)
      <3>1. /\ step[r] = "number"
            /\ UNCHANGED <<items, records, command>>
            /\ \A q \in Requests \ {r} : nextNumber'[q] = nextNumber[q]
            /\ \E s \in Steps \ {"respond"} : Goto(r, s)
        BY <2>3 DEF PickNumber, database, Steps, IInv, TypeOK
      <3> QED
        BY <3>1, GotoRInv
    <2>4. CASE Flush(r) \/ BusyTimeout(r)
      <3>1. /\ step[r] = "flush"
            /\ UNCHANGED <<items, records, command, nextNumber>>
            /\ \/ \E code \in Refusals : Refuse(r, code)
               \/ \E s \in Steps \ {"respond"} : Goto(r, s)
        BY <2>4 DEF Flush, BusyTimeout, database, local, Refusals, Steps
      <3> QED
        BY <3>1, RefuseRInv, GotoRInv
    <2> QED
      BY <1>2, <2>1, <2>2, <2>3, <2>4, ReplayRInv, CommitRInv, RespondRInv DEF Handle
  <1>3. CASE UNCHANGED vars
    BY <1>3, RInvKept DEF vars, RInv, Committed
  <1> QED
    BY <1>1, <1>2, <1>3 DEF Next

THEOREM RecordsInvariant == Spec => []RInv
  BY InitIInv, NextIInv, InitRInv, NextRInv, PTL DEF Spec

(* An item exists exactly when the record of the command that created it   *)
(* does, whatever crashes or loses a race in between.                      *)
THEOREM EffectsStayRecorded == Spec => []EffectsAreRecorded
  <1>1. RInv => EffectsAreRecorded
    BY DEF RInv
  <1> QED
    BY <1>1, RecordsInvariant, PTL

(* The body of every success that was ever answered to a keyed command is  *)
(* in the durable record of its scope and key, and of the requests of one  *)
(* key at most one has heard the ETag of the row they created.             *)
THEOREM AnswersStayRecorded == Spec => []AnswersAreRecorded
  BY RInvAnswers, RecordsInvariant, PTL
-----------------------------------------------------------------------------
(* The refinement of IdempotentCommands, one handler step at a time.       *)
LEMMA InitRefines == Init => Idempotent!Init
  BY DEF Init, Idempotent!Init, AskedCommands, ToldResults, Told

LEMMA StutterRefines ==
  ASSUME UNCHANGED records, ToldResults' = ToldResults, AskedCommands' = AskedCommands
  PROVE  UNCHANGED Idempotent!vars
  BY DEF Idempotent!vars

LEMMA FingerprintIsSome ==
  ASSUME NEW c \in Commands, c.op \in KeyedOps
  PROVE  LET asked == [name |-> Name(c), hash |-> Fingerprint(c)] IN
         asked \in Fingerprints /\ asked # None
  <1>1. Name(c) \in Names
    <2>1. 0 \in Nat
      OBVIOUS
    <2> QED
      BY <2>1, IdTypes
  <1>2. Fingerprint(c) \in Bodies
    BY CommandFields DEF Fingerprint
  <1> QED
    BY <1>1, <1>2, NoneAssumption DEF Fingerprints

(* A refusal, or a step to another await, tells nobody anything.           *)
LEMMA NothingTold ==
  ASSUME IInv, RInv, NEW r \in Requests, step[r] # "done",
         (\E code \in Refusals : Refuse(r, code)) \/ (\E s \in Steps : Goto(r, s))
  PROVE  ToldResults' = ToldResults
  <1>1. response[r] = None
    BY DEF RInv, Committed
  <1>2. CASE \E code \in Refusals : Refuse(r, code)
    <2>1. PICK code \in Refusals :
            response' = [response EXCEPT ![r] = [code |-> code, item |-> None, version |-> 0]]
      BY <1>2 DEF Refuse, Reply, Answer
    <2>2. code \notin {"created", "merged"}
      BY DEF Refusals
    <2>3. \A q \in Requests : (Told(q)' <=> Told(q)) /\ (Told(q) => response'[q] = response[q])
      BY <1>1, <2>1, <2>2 DEF Told, IInv, TypeOK
    <2> QED
      BY <2>3 DEF ToldResults
  <1>3. CASE \E s \in Steps : Goto(r, s)
    BY <1>3 DEF Goto, ToldResults, Told
  <1> QED
    BY <1>2, <1>3

(* An answer whose body is the record of a request's name is a Tell.       *)
LEMMA TellRefines ==
  ASSUME IInv, RInv, NEW r \in Requests, step[r] # "done",
         command[r] \in Commands, command[r].op \in KeyedOps,
         Name(command[r]) \in DOMAIN records,
         records[Name(command[r])].hash = Fingerprint(command[r]),
         \E answer :
           /\ answer.code \in {"created", "merged"} /\ answer # None
           /\ Body(answer) = records[Name(command[r])].response
           /\ response' = [response EXCEPT ![r] = answer],
         UNCHANGED <<records, command>>
  PROVE  Idempotent!Tell(r)
  <1> DEFINE name == Name(command[r])
  <1>1. PICK answer :
          /\ answer.code \in {"created", "merged"} /\ answer # None
          /\ Body(answer) = records[name].response
          /\ response' = [response EXCEPT ![r] = answer]
    OBVIOUS
  <1>2. response[r] = None /\ command[r] # None
    BY CommandFields DEF RInv, Committed
  <1>3. AskedCommands' = AskedCommands
    BY DEF AskedCommands, Name, Fingerprint
  <1>4. AskedCommands[r] = [name |-> name, hash |-> Fingerprint(command[r])]
    BY <1>2 DEF AskedCommands
  <1>5. ToldResults[r] = None
    BY <1>2 DEF ToldResults, Told
  <1>6. ToldResults' = [ToldResults EXCEPT ![r] = records[name].response]
    BY <1>1 DEF ToldResults, Told, IInv, TypeOK
  <1>7. AskedCommands[r] # None
    BY <1>4, FingerprintIsSome
  <1> QED
    BY <1>3, <1>4, <1>5, <1>6, <1>7 DEF Idempotent!Tell

(* A request whose command is keyed has a name; the others are not asked.  *)
LEMMA AskedOf ==
  ASSUME IInv, NEW r \in Requests, step[r] # "idle"
  PROVE  /\ command[r] \in Commands /\ command[r] # None
         /\ command[r].op \in KeyedOps =>
              AskedCommands[r] = [name |-> Name(command[r]), hash |-> Fingerprint(command[r])]
  <1>1. command[r] \in Commands /\ command[r] # None
    BY CommandFields DEF IInv, TypeOK, LocalOK, RequestOK
  <1> QED
    BY <1>1 DEF AskedCommands

LEMMA ArriveRefines ==
  ASSUME IInv, RInv, NEW r \in Requests, Arrive(r)
  PROVE  [Idempotent!Next]_(Idempotent!vars)
  <1>1. PICK c \in Commands : command' = [command EXCEPT ![r] = c]
    BY DEF Arrive
  <1>2. /\ step[r] = "idle"
        /\ UNCHANGED records
        /\ \/ \E code \in Refusals : Refuse(r, code)
           \/ \E s \in Steps : Goto(r, s)
    BY DEF Arrive, database, Refusals, Steps
  <1>3. command[r] = None
    BY <1>2 DEF IInv, LocalOK, RequestOK
  <1>4. UNCHANGED ToldResults
    BY <1>2, NothingTold
  <1>5. command'[r] = c /\ c # None /\ \A q \in Requests \ {r} : command'[q] = command[q]
    BY <1>1, CommandFields DEF IInv, TypeOK
  <1>6. CASE c.op \in KeyedOps
    <2> DEFINE asked == [name |-> Name(c), hash |-> Fingerprint(c)]
    <2>1. AskedCommands[r] = None
      BY <1>3 DEF AskedCommands
    <2>2. AskedCommands' = [AskedCommands EXCEPT ![r] = asked]
      BY <1>5, <1>6 DEF AskedCommands, Name, Fingerprint
    <2>3. asked \in Fingerprints
      BY <1>6, FingerprintIsSome
    <2>4. AskedCommands'[r] = asked
      BY <2>2 DEF AskedCommands
    <2> HIDE DEF asked
    <2>5. Idempotent!Ask(r)
      BY <1>2, <1>4, <2>1, <2>2, <2>3, <2>4 DEF Idempotent!Ask, Fingerprints
    <2> QED
      BY <2>5 DEF Idempotent!Next
  <1>7. CASE c.op \notin KeyedOps
    <2>1. UNCHANGED AskedCommands
      BY <1>3, <1>5, <1>7 DEF AskedCommands, Name, Fingerprint
    <2> QED
      BY <1>2, <1>4, <2>1, StutterRefines
  <1> QED
    BY <1>6, <1>7

LEMMA ReplayRefines ==
  ASSUME IInv, RInv, NEW r \in Requests, Replay(r)
  PROVE  [Idempotent!Next]_(Idempotent!vars)
  <1> DEFINE c == command[r]
  <1>1. step[r] = "replay" /\ UNCHANGED <<records, command>>
    BY DEF Replay, database, local
  <1>2. c \in Commands /\ c.op \in KeyedOps
    BY <1>1, AskedOf, CommandFields DEF IInv, LocalOK, RequestOK, Ops
  <1>3. UNCHANGED AskedCommands
    BY <1>1 DEF AskedCommands, Name, Fingerprint
  <1>4. CASE Found(c) /\ ~Differs(c)
    <2>1. /\ Name(c) \in DOMAIN records
          /\ records[Name(c)].hash = Fingerprint(c)
          /\ response' = [response EXCEPT ![r] = records[Name(c)].response]
      BY <1>4 DEF Replay, Found, Differs, Reply
    <2>2. /\ records[Name(c)].response \in Result
          /\ records[Name(c)].response.code \in {"created", "merged"}
          /\ records[Name(c)].response # None
      BY <2>1, NoneAssumption DEF IInv, TypeOK, Result, Response, Successes
    <2>3. Body(records[Name(c)].response) = records[Name(c)].response
      BY <2>2, BodyOfResult
    <2>4. Idempotent!Tell(r)
      BY <1>1, <1>2, <2>1, <2>2, <2>3, TellRefines
    <2> QED
      BY <2>4 DEF Idempotent!Next
  <1>5. CASE ~(Found(c) /\ ~Differs(c))
    <2>1. (\E code \in Refusals : Refuse(r, code)) \/ (\E s \in Steps : Goto(r, s))
      BY <1>5 DEF Replay, Refusals, Steps
    <2>2. UNCHANGED ToldResults
      BY <1>1, <2>1, NothingTold
    <2> QED
      BY <1>1, <1>3, <2>2, StutterRefines
  <1> QED
    BY <1>4, <1>5

(* The commit of a keyed command performs it: the record is new, and what  *)
(* it says is said by no other record, or is a merge.                      *)
LEMMA CommitRefines ==
  ASSUME IInv, RInv, NEW r \in Requests, Commit(r)
  PROVE  [Idempotent!Next]_(Idempotent!vars)
  <1> DEFINE c == command[r]
             name == Name(c)
             answer == StoredResponse(r)
  <1>1. step[r] = "commit" /\ UNCHANGED command
    BY DEF Commit, Storing, local
  <1>2. c \in Commands /\ response[r] = None
    BY <1>1, AskedOf DEF RInv, Committed
  <1>3. UNCHANGED AskedCommands
    BY <1>1 DEF AskedCommands, Name, Fingerprint
  <1>4. UNCHANGED ToldResults
    <2>1. (\E code \in Refusals : Refuse(r, code)) \/ (\E s \in Steps : Goto(r, s))
      BY DEF Commit, Storing, Refusals, Steps
    <2> QED
      BY <1>1, <2>1, NothingTold
  <1>5. CASE c.op \notin KeyedOps \/ Recorded(c)
    <2>1. UNCHANGED records
      BY <1>5 DEF Commit, Storing
    <2> QED
      BY <1>3, <1>4, <2>1, StutterRefines
  <1>6. CASE c.op \in KeyedOps /\ ~Recorded(c)
    <2>1. records' = Put(records, name, [hash |-> Fingerprint(c), response |-> answer])
      BY <1>6 DEF Commit, Storing
    <2>2. name \notin DOMAIN records
      BY <1>6 DEF Recorded
    <2>3. answer \in Result
      BY <1>2, <1>6, StoredResponseType DEF IInv, KeyedOps, CreateOps, EditOps
    <2>4. /\ c.op = "merge" => answer.code = "merged"
          /\ c.op \in CreateOps => answer.item = NewId(r) /\ NewId(r) \notin DOMAIN items
      BY <1>1 DEF StoredResponse, Answer, CreateOps, IInv, LocalOK, RequestOK
    <2>5. \A n \in DOMAIN records :
            records[n].response = answer => answer.code = "merged"
      BY <1>6, <2>4 DEF RInv, EffectsAreRecorded, KeyedOps
    <2>6. AskedCommands[r] = [name |-> name, hash |-> Fingerprint(c)] /\ AskedCommands[r] # None
      BY <1>1, <1>6, AskedOf, FingerprintIsSome
    <2>7. ToldResults[r] = None
      BY <1>2 DEF ToldResults, Told
    <2> HIDE DEF c, name, answer
    <2>8. /\ DOMAIN records' = DOMAIN records \cup {name}
          /\ records'[name] = [hash |-> Fingerprint(c), response |-> answer]
          /\ \A n \in DOMAIN records : records'[n] = records[n]
          /\ records' = [n \in DOMAIN records' |->
                           IF n = name THEN records'[n] ELSE records[n]]
      BY <2>1, <2>2 DEF Put
    <2>9. Idempotent!Perform(r)
      BY <1>3, <1>4, <2>2, <2>3, <2>5, <2>6, <2>7, <2>8 DEF Idempotent!Perform
    <2> QED
      BY <2>9 DEF Idempotent!Next
  <1> QED
    BY <1>5, <1>6

LEMMA RespondRefines ==
  ASSUME IInv, RInv, NEW r \in Requests, Respond(r)
  PROVE  [Idempotent!Next]_(Idempotent!vars)
  <1> DEFINE c == command[r]
  <1>1. step[r] = "respond" /\ UNCHANGED <<records, command>>
    BY DEF Respond, database, local
  <1>2. c \in Commands /\ response[r] = None
    BY <1>1, AskedOf DEF RInv, Committed
  <1>3. UNCHANGED AskedCommands
    BY <1>1 DEF AskedCommands, Name, Fingerprint
  <1>4. CASE c.op \in EditOps
    <2>1. PICK v : response' = [response EXCEPT ![r] = [code |-> "updated", item |-> ParentId(c), version |-> v]]
      BY <1>4 DEF Respond, Reply, Answer
    <2>2. UNCHANGED ToldResults
      <3>1. \A q \in Requests : (Told(q)' <=> Told(q)) /\ (Told(q) => response'[q] = response[q])
        BY <1>2, <2>1 DEF Told, IInv, TypeOK
      <3> QED
        BY <3>1 DEF ToldResults
    <2> QED
      BY <1>1, <1>3, <2>2, StutterRefines
  <1>5. CASE c.op \notin EditOps
    <2>1. c.op \in KeyedOps
      BY <1>2, <1>5, CommandFields DEF Ops
    <2>2. /\ Name(c) \in DOMAIN records
          /\ records[Name(c)] = [hash |-> Fingerprint(c), response |-> StoredResponse(r)]
      BY <1>1, <2>1 DEF RInv, Committed
    <2>3. /\ response' = [response EXCEPT ![r] = Original(r)]
          /\ records[Name(c)].hash = Fingerprint(c)
          /\ records[Name(c)].response = StoredResponse(r)
      BY <1>5, <2>2 DEF Respond, Reply
    <2>4. /\ Original(r).code \in {"created", "merged"}
          /\ Body(Original(r)) = StoredResponse(r)
      BY <1>2, <1>5, OriginalType DEF IInv
    <2>5. Original(r) # None
      BY <1>2, <1>5, OriginalType, NoneAssumption DEF IInv
    <2>6. Idempotent!Tell(r)
      BY <1>1, <1>2, <2>1, <2>2, <2>3, <2>4, <2>5, TellRefines
    <2> QED
      BY <2>6 DEF Idempotent!Next
  <1> QED
    BY <1>4, <1>5

LEMMA NextRefines ==
  ASSUME IInv, RInv, [Next]_vars
  PROVE  [Idempotent!Next]_(Idempotent!vars)
  <1>1. CASE Restart
    <2>1. UNCHANGED <<records, ToldResults, AskedCommands>>
      BY <1>1 DEF Restart, local, ToldResults, Told, AskedCommands, Name, Fingerprint
    <2> QED
      BY <2>1, StutterRefines
  <1>2. ASSUME NEW r \in Requests, LoadItem(r) \/ PickNumber(r) \/ Flush(r) \/ BusyTimeout(r)
        PROVE  [Idempotent!Next]_(Idempotent!vars)
    <2>1. /\ step[r] # "done"
          /\ UNCHANGED <<records, command>>
          /\ (\E code \in Refusals : Refuse(r, code)) \/ (\E s \in Steps : Goto(r, s))
      BY <1>2 DEF LoadItem, PickNumber, Flush, BusyTimeout, database, local, Refusals, Steps
    <2>2. UNCHANGED <<ToldResults, AskedCommands>>
      BY <2>1, NothingTold DEF AskedCommands, Name, Fingerprint
    <2> QED
      BY <2>1, <2>2, StutterRefines
  <1>3. CASE UNCHANGED vars
    <2>1. UNCHANGED <<records, ToldResults, AskedCommands>>
      BY <1>3 DEF vars, ToldResults, Told, AskedCommands, Name, Fingerprint
    <2> QED
      BY <2>1, StutterRefines
  <1> QED
    BY <1>1, <1>2, <1>3, ArriveRefines, ReplayRefines, CommitRefines, RespondRefines
       DEF Next, Handle

(* The handlers, with their transactions, conflicts, timeouts and          *)
(* restarts, perform each named command at most once and tell everyone who *)
(* repeats it the same result.                                             *)
THEOREM Refinement == Spec => ImplementsIdempotentCommands
  <1>1. Init => Idempotent!Init
    BY InitRefines
  <1>2. IInv /\ RInv /\ [Next]_vars => [Idempotent!Next]_(Idempotent!vars)
    BY NextRefines
  <1> QED
    BY <1>1, <1>2, InductiveInvariant, RecordsInvariant, PTL
       DEF Spec, ImplementsIdempotentCommands, Idempotent!Spec
-----------------------------------------------------------------------------
(* The awaits that a request in each step has still before it, at most.    *)
Awaits ==
  [s \in Steps |->
     CASE s = "idle"   -> 7
       [] s = "load"   -> 6
       [] s = "replay" -> 5
       [] s = "number" -> 4
       [] s = "flush"  -> 3
       [] s = "commit" -> 2
       [] s = "respond" -> 1
       [] s \in {"done", "lost"} -> 0]

(* What a request is and was answered does not change, or it comes nearer  *)
(* to its end.                                                             *)
GoesForward(r) ==
  \/ step'[r] = step[r] /\ response'[r] = response[r] /\ command'[r] = command[r]
  \/ Awaits[step'[r]] < Awaits[step[r]]

HandlersGoForward == [][\A r \in Requests : GoesForward(r)]_vars

(* A handler goes to a later step or ends, whatever it finds.              *)
LEMMA HandlerGoesForward ==
  ASSUME IInv, NEW r \in Requests, Arrive(r) \/ Handle(r)
  PROVE  Awaits[step'[r]] < Awaits[step[r]]
  <1>0. step \in [Requests -> Steps]
    BY DEF IInv, TypeOK
  <1>1. CASE Arrive(r)
    <2>1. step[r] = "idle" /\ step'[r] \in {"done", "load", "replay"}
      BY <1>0, <1>1 DEF Arrive, Refuse, Reply, Goto
    <2> QED
      BY <2>1 DEF Awaits, Steps
  <1>2. CASE LoadItem(r)
    <2>1. step[r] = "load" /\ step'[r] \in {"done", "replay", "flush"}
      BY <1>0, <1>2 DEF LoadItem, Refuse, Reply, Goto
    <2> QED
      BY <2>1 DEF Awaits, Steps
  <1>3. CASE Replay(r)
    <2>1. step[r] = "replay" /\ step'[r] \in {"done", "number", "flush"}
      BY <1>0, <1>3 DEF Replay, Refuse, Reply, Goto
    <2> QED
      BY <2>1 DEF Awaits, Steps
  <1>4. CASE PickNumber(r)
    <2>1. step[r] = "number" /\ step'[r] = "flush"
      BY <1>0, <1>4 DEF PickNumber, Goto
    <2> QED
      BY <2>1 DEF Awaits, Steps
  <1>5. CASE Flush(r) \/ BusyTimeout(r)
    <2>1. step[r] = "flush" /\ step'[r] \in {"done", "commit"}
      BY <1>0, <1>5 DEF Flush, BusyTimeout, Refuse, Reply, Goto
    <2> QED
      BY <2>1 DEF Awaits, Steps
  <1>6. CASE Commit(r)
    <2>1. step[r] = "commit" /\ step'[r] \in {"done", "respond"}
      BY <1>0, <1>6 DEF Commit, Refuse, Reply, Goto
    <2> QED
      BY <2>1 DEF Awaits, Steps
  <1>7. CASE Respond(r)
    <2>1. step[r] = "respond" /\ step'[r] = "done"
      BY <1>0, <1>7 DEF Respond, Reply
    <2> QED
      BY <2>1 DEF Awaits, Steps
  <1> QED
    BY <1>1, <1>2, <1>3, <1>4, <1>5, <1>6, <1>7 DEF Handle

(* No handler of a request touches another request.                        *)
LEMMA OthersStandStill ==
  ASSUME NEW r \in Requests, Arrive(r) \/ Handle(r), NEW q \in Requests, q # r,
         step \in [Requests -> Steps], response \in [Requests -> Response \cup {None}],
         command \in [Requests -> Commands \cup {None}]
  PROVE  step'[q] = step[q] /\ response'[q] = response[q] /\ command'[q] = command[q]
  <1>1. step'[q] = step[q] /\ response'[q] = response[q]
    BY DEF Arrive, Handle, LoadItem, Replay, PickNumber, Flush, BusyTimeout, Commit, Respond,
       Refuse, Reply, Goto
  <1>2. command'[q] = command[q]
    BY DEF Arrive, Handle, LoadItem, Replay, PickNumber, Flush, BusyTimeout, Commit, Respond,
       local
  <1> QED
    BY <1>1, <1>2

(* A request takes seven awaits at most, and then its answer is never      *)
(* another one: no failed INSERT, refused check or taken lock sends a      *)
(* handler back, and no other request does.  EveryRequestEnds needs of     *)
(* FairSpec only that every await ends.                                    *)
THEOREM HandlersEnd == Spec => HandlersGoForward
  <1>1. ASSUME IInv, Next, NEW r \in Requests
        PROVE  GoesForward(r)
    <2>0. /\ step \in [Requests -> Steps]
          /\ response \in [Requests -> Response \cup {None}]
          /\ command \in [Requests -> Commands \cup {None}]
      BY <1>1 DEF IInv, TypeOK
    <2>1. CASE Restart
      <3>1. response' = response /\ command' = command
        BY <2>1 DEF Restart, local
      <3>2. CASE InFlight(r)
        <4>1. step'[r] = "lost"
          BY <2>1, <3>2 DEF Restart
        <4>2. step[r] \in {"load", "replay", "number", "flush", "commit", "respond"}
          BY <2>0, <3>2 DEF InFlight, Steps
        <4>3. Awaits[step'[r]] < Awaits[step[r]]
          BY <4>1, <4>2 DEF Awaits, Steps
        <4> QED
          BY <4>3 DEF GoesForward
      <3>3. CASE ~InFlight(r)
        <4>1. step'[r] = step[r]
          BY <2>1, <3>3 DEF Restart
        <4> QED
          BY <3>1, <4>1 DEF GoesForward
      <3> QED
        BY <3>2, <3>3
    <2>2. ASSUME NEW q \in Requests, Arrive(q) \/ Handle(q)
          PROVE  GoesForward(r)
      <3>1. CASE q = r
        BY <1>1, <2>2, <3>1, HandlerGoesForward DEF GoesForward
      <3>2. CASE q # r
        BY <2>0, <2>2, <3>2, OthersStandStill DEF GoesForward
      <3> QED
        BY <3>1, <3>2
    <2> QED
      BY <1>1, <2>1, <2>2 DEF Next
  <1>2. IInv /\ [Next]_vars => [\A r \in Requests : GoesForward(r)]_vars
    BY <1>1
  <1> QED
    BY <1>2, InductiveInvariant, PTL DEF Spec, HandlersGoForward
=============================================================================
