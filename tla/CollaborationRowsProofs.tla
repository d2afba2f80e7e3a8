------------------------ MODULE CollaborationRowsProofs ------------------------
(***************************************************************************)
(* Theorems about the rows of Collaboration: what stays true of every      *)
(* document although each UPDATE writes the whole of one that was loaded   *)
(* earlier.                                                                *)
(***************************************************************************)
EXTENDS CollaborationProofs, FiniteSetTheorems

(* The record of a merge of this pull request, and the comments that a     *)
(* table has for an issue.                                                 *)
MergeIn(recs, id) ==
  \E name \in DOMAIN recs : recs[name].response = Answer("merged", id, 0)

CommentsIn(table, n) ==
  {id \in DOMAIN table : id[1] = "issueComment" /\ table[id].of = n}

(* A row fits its place in the two tables.                                 *)
Fits(id, row, table, recs) ==
  /\ row.closedAt => id[1] = "issue" /\ row.state # "open"
  /\ row.state = "merged" => row.mergedAt
  /\ row.mergedAt => id[1] = "pullRequest" /\ MergeIn(recs, id)
  /\ id[1] = "issue" => row.commentCount <= Cardinality(CommentsIn(table, id[2]))

RowsFit == \A id \in DOMAIN items : Fits(id, items[id], items, records)

(* A loaded row that may still be written back fits as well, however old.  *)
Holding == {"replay", "number", "flush", "commit"}

LoadedFits ==
  \A r \in Requests :
    step[r] \in Holding /\ HasParent(command[r]) =>
      Fits(ParentId(command[r]), loaded[r], items, records)

DInv == IsFiniteSet(DOMAIN items) /\ RowsFit /\ LoadedFits

(* Rows and records are only added, and a comment is never rewritten.      *)
Grows(table, table2, recs, recs2) ==
  /\ IsFiniteSet(DOMAIN table2)
  /\ DOMAIN table \subseteq DOMAIN table2
  /\ \A id \in DOMAIN table : id[1] = "issueComment" => table2[id] = table[id]
  /\ DOMAIN recs \subseteq DOMAIN recs2
  /\ \A n \in DOMAIN recs : recs2[n] = recs[n]
-----------------------------------------------------------------------------
LEMMA CommentsCounted ==
  ASSUME NEW table, NEW n, IsFiniteSet(DOMAIN table)
  PROVE  IsFiniteSet(CommentsIn(table, n)) /\ Cardinality(CommentsIn(table, n)) \in Nat
  <1>1. CommentsIn(table, n) \in SUBSET DOMAIN table
    BY DEF CommentsIn
  <1>2. IsFiniteSet(CommentsIn(table, n))
    BY <1>1, FS_Subset
  <1> QED
    BY <1>2, FS_CardinalityType

(* A row that fits goes on to fit while the tables grow.                   *)
LEMMA FitsLater ==
  ASSUME NEW id, NEW row \in Item, NEW table, NEW table2, NEW recs, NEW recs2,
         IsFiniteSet(DOMAIN table), Grows(table, table2, recs, recs2),
         Fits(id, row, table, recs)
  PROVE  Fits(id, row, table2, recs2)
  <1>1. MergeIn(recs, id) => MergeIn(recs2, id)
    BY DEF MergeIn, Grows
  <1>2. CommentsIn(table, id[2]) \in SUBSET CommentsIn(table2, id[2])
    BY DEF CommentsIn, Grows
  <1>3. /\ IsFiniteSet(CommentsIn(table2, id[2]))
        /\ Cardinality(CommentsIn(table, id[2])) \in Nat
        /\ Cardinality(CommentsIn(table2, id[2])) \in Nat
    BY CommentsCounted DEF Grows
  <1>4. Cardinality(CommentsIn(table, id[2])) <= Cardinality(CommentsIn(table2, id[2]))
    BY <1>2, <1>3, FS_Subset
  <1>5. row.commentCount \in Nat
    BY DEF Item
  <1> QED
    BY <1>1, <1>3, <1>4, <1>5 DEF Fits

(* A comment that is added to a table is counted there.                    *)
LEMMA CommentAdded ==
  ASSUME NEW table, NEW table2, NEW id, NEW n,
         IsFiniteSet(DOMAIN table), id \notin DOMAIN table,
         DOMAIN table2 = DOMAIN table \cup {id},
         \A other \in DOMAIN table : other[1] = "issueComment" => table2[other] = table[other],
         id[1] = "issueComment", table2[id].of = n
  PROVE  Cardinality(CommentsIn(table2, n)) = Cardinality(CommentsIn(table, n)) + 1
  <1>1. CommentsIn(table2, n) = CommentsIn(table, n) \cup {id}
    BY DEF CommentsIn
  <1>2. id \notin CommentsIn(table, n)
    BY DEF CommentsIn
  <1>3. IsFiniteSet(CommentsIn(table, n))
    BY CommentsCounted
  <1> DEFINE before == CommentsIn(table, n)
             after == CommentsIn(table2, n)
  <1> HIDE DEF before, after
  <1>4. IsFiniteSet(before) /\ id \notin before /\ after = before \cup {id}
    BY <1>1, <1>2, <1>3 DEF before, after
  <1>5. Cardinality(after) = Cardinality(before) + 1
    BY <1>4, FS_AddElement
  <1> QED
    BY <1>5 DEF before, after

(* The document a request writes fits, if the one it loaded did, and if    *)
(* what it is about is written with it.                                    *)
LEMMA ParentFits ==
  ASSUME NEW c \in Commands, NEW row \in Item, HasParent(c),
         NEW table, NEW table2, NEW recs, NEW recs2,
         IsFiniteSet(DOMAIN table), Grows(table, table2, recs, recs2),
         Fits(ParentId(c), row, table, recs),
         c.op = "merge" => MergeIn(recs2, ParentId(c)),
         c.op = "comment" =>
           Cardinality(CommentsIn(table2, c.target)) =
             Cardinality(CommentsIn(table, c.target)) + 1
  PROVE  Fits(ParentId(c), ParentAfter(c, row), table2, recs2)
  <1> DEFINE id == ParentId(c)
             after == ParentAfter(c, row)
  <1>1. Fits(id, row, table2, recs2)
    BY FitsLater
  <1>2. id[1] = ParentKind(c.op) /\ id[2] = c.target
    BY DEF ParentId
  <1>3. c.op \in Ops /\ c.body \in Payloads(c.op)
    BY CommandFields
  <1>4. CASE c.op \in EditOps
    <2>1. c.body \in {"title", "open", "closed", "null"}
      BY <1>3, <1>4 DEF EditOps, Payloads
    <2>2. after = Edited(c, row)
      BY <1>4 DEF ParentAfter, EditOps
    <2>3. CASE c.body = "title"
      <3>1. /\ after.closedAt = row.closedAt /\ after.state = row.state
            /\ after.mergedAt = row.mergedAt /\ after.commentCount = row.commentCount
        BY <2>2, <2>3 DEF Edited, Versioned, Item
      <3> QED
        BY <1>1, <3>1 DEF Fits
    <2>4. CASE c.body # "title" /\ c.op = "updateIssue" /\ c.body # "null"
      <3>1. /\ after.closedAt = (c.body = "closed") /\ after.state = c.body
            /\ after.mergedAt = row.mergedAt /\ after.commentCount = row.commentCount
        BY <2>2, <2>4 DEF Edited, Versioned, Item
      <3>2. id[1] = "issue"
        BY <1>2, <2>4 DEF ParentKind
      <3> QED
        BY <1>1, <2>1, <2>4, <3>1, <3>2 DEF Fits
    <2>5. CASE c.body # "title" /\ ~(c.op = "updateIssue" /\ c.body # "null")
      <3>1. /\ after.closedAt = row.closedAt /\ after.state = c.body
            /\ after.mergedAt = row.mergedAt /\ after.commentCount = row.commentCount
        BY <2>2, <2>5 DEF Edited, Versioned, Item
      <3>2. id[1] = "issue" => c.body = "null"
        BY <1>2, <1>4, <2>5 DEF ParentKind, EditOps
      <3> QED
        BY <1>1, <2>1, <2>5, <3>1, <3>2 DEF Fits
    <2> QED
      BY <2>3, <2>4, <2>5
  <1>5. CASE c.op = "comment"
    <2>1. after = Commented(row)
      BY <1>5 DEF ParentAfter, EditOps
    <2>2. /\ after.closedAt = row.closedAt /\ after.state = row.state
          /\ after.mergedAt = row.mergedAt /\ after.commentCount = row.commentCount + 1
      BY <2>1 DEF Commented, Versioned, Item
    <2>3. id[1] = "issue"
      BY <1>2, <1>5 DEF ParentKind
    <2>4. row.commentCount <= Cardinality(CommentsIn(table, c.target))
      BY <1>2, <2>3 DEF Fits
    <2>5. row.commentCount \in Nat /\ Cardinality(CommentsIn(table, c.target)) \in Nat
      BY CommentsCounted DEF Item
    <2>6. after.commentCount <= Cardinality(CommentsIn(table2, id[2]))
      BY <1>2, <1>5, <2>2, <2>4, <2>5
    <2> QED
      BY <1>1, <2>2, <2>6 DEF Fits
  <1>6. CASE c.op = "review"
    <2>1. after = Reviewed(c, row)
      BY <1>6 DEF ParentAfter, EditOps
    <2>2. /\ after.closedAt = row.closedAt /\ after.state = row.state
          /\ after.mergedAt = row.mergedAt /\ after.commentCount = row.commentCount
      BY <2>1 DEF Reviewed, Versioned, Item
    <2> QED
      BY <1>1, <2>2 DEF Fits
  <1>7. CASE c.op = "merge"
    <2>1. after = Merged(row)
      BY <1>7 DEF ParentAfter, EditOps
    <2>2. /\ after.closedAt = row.closedAt /\ after.state = "merged"
          /\ after.mergedAt = TRUE /\ after.commentCount = row.commentCount
      BY <2>1 DEF Merged, Versioned, Item
    <2>3. id[1] = "pullRequest"
      BY <1>2, <1>7 DEF ParentKind
    <2> QED
      BY <1>1, <1>7, <2>2, <2>3 DEF Fits
  <1> QED
    BY <1>3, <1>4, <1>5, <1>6, <1>7 DEF Ops, KeyedOps, CreateOps, EditOps, HasParent

LEMMA NewRowFits ==
  ASSUME NEW c \in Commands, NEW id, NEW table, NEW recs,
         IsFiniteSet(DOMAIN table)
  PROVE  Fits(id, NewRow(c), table, recs)
  <1>1. Cardinality(CommentsIn(table, id[2])) \in Nat
    BY CommentsCounted
  <1>2. /\ NewRow(c).closedAt = FALSE /\ NewRow(c).mergedAt = FALSE
        /\ NewRow(c).commentCount = 0 /\ NewRow(c).state \in {"open", "closed"}
    BY DEF NewRow, NewItem
  <1> QED
    BY <1>1, <1>2 DEF Fits
-----------------------------------------------------------------------------
LEMMA InitDInv == Init => DInv
  <1> SUFFICES ASSUME Init PROVE DInv
    OBVIOUS
  <1>1. DOMAIN items = SeededItems /\ \A id \in SeededItems : items[id] = SeedItem(id)
    BY DEF Init
  <1>2. IsFiniteSet(SeededItems)
    <2>1. /\ IsFiniteSet({<<"issue", 1>>})
          /\ SeededItems = ({<<"issue", 1>>} \cup {<<"issueComment", 1>>})
                             \cup {<<"pullRequest", 2>>}
      BY FS_Singleton DEF SeededItems
    <2>2. IsFiniteSet({<<"issue", 1>>} \cup {<<"issueComment", 1>>})
      BY <2>1, FS_AddElement
    <2> QED
      BY <2>1, <2>2, FS_AddElement
  <1>3. Cardinality(CommentsIn(items, 1)) = 1
    <2>1. \A id : id \in CommentsIn(items, 1) <=>
                    id \in SeededItems /\ id[1] = "issueComment" /\ SeedItem(id).of = 1
      BY <1>1 DEF CommentsIn
    <2>2. SeedItem(<<"issueComment", 1>>).of = 1
      BY DEF SeedItem, NewItem
    <2>3. CommentsIn(items, 1) = {<<"issueComment", 1>>}
      BY <2>1, <2>2 DEF SeededItems
    <2> QED
      BY <2>3, FS_Singleton
  <1>4. \A id \in SeededItems :
          /\ SeedItem(id).closedAt = FALSE /\ SeedItem(id).mergedAt = FALSE
          /\ SeedItem(id).state = "open"
          /\ id[1] = "issue" => id[2] = 1 /\ SeedItem(id).commentCount = 1
    BY DEF SeededItems, SeedItem, NewItem
  <1>5. RowsFit
    BY <1>1, <1>3, <1>4 DEF RowsFit, Fits
  <1>6. LoadedFits
    BY DEF Init, LoadedFits, Holding
  <1> QED
    BY <1>1, <1>2, <1>5, <1>6 DEF DInv

(* Steps that write no row: what a request holds it held before, or has    *)
(* just loaded.                                                            *)
LEMMA RowsKept ==
  ASSUME DInv, UNCHANGED <<items, records>>,
         \A q \in Requests :
           step'[q] \in Holding /\ HasParent(command'[q]) =>
             /\ command'[q] = command[q]
             /\ \/ step[q] \in Holding /\ loaded'[q] = loaded[q]
                \/ /\ ParentId(command[q]) \in DOMAIN items
                   /\ loaded'[q] = items[ParentId(command[q])]
  PROVE  DInv'
  <1>1. IsFiniteSet(DOMAIN items)' /\ RowsFit'
    BY DEF DInv, RowsFit
  <1>2. LoadedFits'
    <2> SUFFICES ASSUME NEW q \in Requests, step'[q] \in Holding, HasParent(command'[q])
                 PROVE  Fits(ParentId(command'[q]), loaded'[q], items', records')
      BY DEF LoadedFits
    <2> QED
      BY DEF DInv, RowsFit, LoadedFits
  <1> QED
    BY <1>1, <1>2 DEF DInv

LEMMA CommitDInv ==
  ASSUME IInv, DInv, NEW r \in Requests, Commit(r)
  PROVE  DInv'
  <1> DEFINE c == command[r]
             record == [hash |-> Fingerprint(c), response |-> StoredResponse(r)]
  <1>1. step[r] = "commit" /\ UNCHANGED <<command, loaded, nextNumber>>
    BY DEF Commit, local
  <1>2. CASE Storing(c) /\ Recorded(c)
    <2>1. Refuse(r, "server.internal_error") /\ UNCHANGED <<items, records>>
      BY <1>2 DEF Commit
    <2>2. step' = [step EXCEPT ![r] = "done"]
      BY <2>1 DEF Refuse, Reply
    <2> QED
      BY <1>1, <2>1, <2>2, RowsKept DEF IInv, TypeOK, Holding
  <1>3. CASE ~(Storing(c) /\ Recorded(c))
    <2>1. /\ items' = Written(r)
          /\ records' = IF ~Storing(c) THEN records ELSE Put(records, Name(c), record)
          /\ step' = [step EXCEPT ![r] = "respond"]
      BY <1>3 DEF Commit, Goto
    <2>2. /\ DOMAIN items' = DOMAIN items \cup IF c.op \in CreateOps THEN {NewId(r)} ELSE {}
          /\ c \in Commands
          /\ c.op \in CreateOps => NewId(r) \notin DOMAIN items
          /\ HasParent(c) => ParentId(c) \in DOMAIN items /\ loaded[r] \in Item
      BY <1>1, <2>1, WrittenRows DEF IInv, LocalOK, RequestOK
    <2>3. /\ c.op \in CreateOps /\ ~(HasParent(c) /\ NewId(r) = ParentId(c)) =>
               items'[NewId(r)] = NewRow(c)
          /\ HasParent(c) => items'[ParentId(c)] = ParentAfter(c, loaded[r])
          /\ \A id \in DOMAIN items :
               ~(HasParent(c) /\ id = ParentId(c)) => items'[id] = items[id]
      BY <2>1, <2>2 DEF Written, Put
    <2>4. c.op \in CreateOps => ~(HasParent(c) /\ NewId(r) = ParentId(c))
      BY <2>2
    <2>5. IsFiniteSet(DOMAIN items')
      BY <2>2, FS_AddElement DEF DInv
    <2>6. /\ DOMAIN records \subseteq DOMAIN records'
          /\ \A n \in DOMAIN records : records'[n] = records[n]
          /\ Storing(c) => Name(c) \in DOMAIN records' /\ records'[Name(c)] = record
      <3> HIDE DEF record
      <3> QED
        BY <1>3, <2>1 DEF Put, Recorded
    <2>7. ParentId(c)[1] # "issueComment"
      BY DEF ParentId, ParentKind
    <2>8. Grows(items, items', records, records')
      BY <2>2, <2>3, <2>5, <2>6, <2>7 DEF Grows
    <2>9. c.op = "merge" => MergeIn(records', ParentId(c))
      <3> SUFFICES ASSUME c.op = "merge"
                   PROVE  MergeIn(records', ParentId(c))
        OBVIOUS
      <3>1. record.response = Answer("merged", ParentId(c), 0)
        BY DEF StoredResponse
      <3>2. Storing(c)
        BY DEF Storing, KeyedOps
      <3> HIDE DEF record
      <3> QED
        BY <2>6, <3>1, <3>2 DEF MergeIn
    <2>10. c.op = "comment" =>
             Cardinality(CommentsIn(items', c.target)) =
               Cardinality(CommentsIn(items, c.target)) + 1
      <3> SUFFICES ASSUME c.op = "comment"
                   PROVE  Cardinality(CommentsIn(items', c.target)) =
                            Cardinality(CommentsIn(items, c.target)) + 1
        OBVIOUS
      <3>1. c.op \in CreateOps /\ HasParent(c)
        BY DEF CreateOps, HasParent
      <3>2. NewId(r)[1] = "issueComment" /\ items'[NewId(r)].of = c.target
        BY <2>3, <2>4, <3>1 DEF NewId, ItemKind, NewRow, NewItem
      <3>3. /\ IsFiniteSet(DOMAIN items)
            /\ DOMAIN items' = DOMAIN items \cup {NewId(r)} /\ NewId(r) \notin DOMAIN items
            /\ \A other \in DOMAIN items :
                 other[1] = "issueComment" => items'[other] = items[other]
        BY <2>2, <2>8, <3>1 DEF DInv, Grows
      <3> QED
        BY <3>2, <3>3, CommentAdded
    <2>11. RowsFit'
      <3> SUFFICES ASSUME NEW id \in DOMAIN items'
                   PROVE  Fits(id, items'[id], items', records')
        BY DEF RowsFit
      <3>1. CASE HasParent(c) /\ id = ParentId(c)
        <4>1. Fits(ParentId(c), loaded[r], items, records)
          BY <1>1, <3>1 DEF DInv, LoadedFits, Holding
        <4>2. Fits(ParentId(c), ParentAfter(c, loaded[r]), items', records')
          BY <2>2, <2>8, <2>9, <2>10, <3>1, <4>1, ParentFits DEF DInv
        <4> QED
          BY <2>3, <3>1, <4>2
      <3>2. CASE ~(HasParent(c) /\ id = ParentId(c)) /\ id \in DOMAIN items
        <4>1. items[id] \in Item /\ Fits(id, items[id], items, records)
          BY <3>2 DEF DInv, RowsFit, IInv, TypeOK
        <4>2. Fits(id, items[id], items', records')
          BY <2>8, <4>1, FitsLater DEF DInv
        <4> QED
          BY <2>3, <3>2, <4>2
      <3>3. CASE ~(HasParent(c) /\ id = ParentId(c)) /\ id \notin DOMAIN items
        <4>1. items'[id] = NewRow(c)
          BY <2>2, <2>3, <3>3
        <4> QED
          BY <2>2, <2>5, <4>1, NewRowFits
      <3> QED
        BY <3>1, <3>2, <3>3
    <2>12. LoadedFits'
      <3> SUFFICES ASSUME NEW q \in Requests, step'[q] \in Holding, HasParent(command'[q])
                   PROVE  Fits(ParentId(command'[q]), loaded'[q], items', records')
        BY DEF LoadedFits
      <3>1. q # r /\ step[q] \in Holding /\ HasParent(command[q])
        BY <1>1, <2>1 DEF IInv, TypeOK, Holding
      <3>2. Fits(ParentId(command[q]), loaded[q], items, records)
        BY <3>1 DEF DInv, LoadedFits
      <3>3. loaded[q] \in Item
        BY <3>1 DEF IInv, LocalOK, RequestOK, Holding
      <3>4. Fits(ParentId(command[q]), loaded[q], items', records')
        BY <2>8, <3>2, <3>3, FitsLater DEF DInv
      <3> QED
        BY <1>1, <3>4
    <2> QED
      BY <2>5, <2>11, <2>12 DEF DInv
  <1> QED
    BY <1>2, <1>3

LEMMA NextDInv == IInv /\ DInv /\ [Next]_vars => DInv'
  <1> SUFFICES ASSUME IInv, DInv, [Next]_vars
               PROVE  DInv'
    OBVIOUS
  <1>1. CASE Restart
    <2>1. /\ UNCHANGED <<items, records, command, loaded>>
          /\ step' = [r \in Requests |-> IF InFlight(r) THEN "lost" ELSE step[r]]
      BY <1>1 DEF Restart, local
    <2> QED
      BY <2>1, RowsKept DEF InFlight, Holding
  <1>2. ASSUME NEW r \in Requests, Arrive(r)
        PROVE  DInv'
    <2>1. PICK c \in Commands :
            /\ command' = [command EXCEPT ![r] = c]
            /\ IF c.user \notin Writers THEN Refuse(r, "repository.write_forbidden")
               ELSE IF c.op = "createIssue" /\ c.body = "untitled"
                    THEN Refuse(r, "issue.title_required")
               ELSE Goto(r, IF HasParent(c) THEN "load" ELSE "replay")
      BY <1>2 DEF Arrive
    <2>2. UNCHANGED <<items, records, loaded>>
      BY <1>2 DEF Arrive, database
    <2>3. PICK s \in Steps : step' = [step EXCEPT ![r] = s] /\ (s \in Holding => ~HasParent(c))
      BY <2>1 DEF Refuse, Reply, Goto, Holding, Steps
    <2> QED
      BY <2>1, <2>2, <2>3, RowsKept DEF IInv, TypeOK
  <1>3. ASSUME NEW r \in Requests, LoadItem(r)
        PROVE  DInv'
    <2>1. UNCHANGED <<items, records, command>>
      BY <1>3 DEF LoadItem, database
    <2>2. /\ \A q \in Requests \ {r} : step'[q] = step[q] /\ loaded'[q] = loaded[q]
          /\ step'[r] # "done" =>
               /\ ParentId(command[r]) \in DOMAIN items
               /\ loaded'[r] = items[ParentId(command[r])]
      BY <1>3 DEF LoadItem, Refuse, Reply, Goto, IInv, TypeOK
    <2> QED
      BY <2>1, <2>2, RowsKept DEF Holding
  <1>4. ASSUME NEW r \in Requests,
               Replay(r) \/ PickNumber(r) \/ Flush(r) \/ BusyTimeout(r) \/ Respond(r)
        PROVE  DInv'
    <2>1. UNCHANGED <<items, records, command, loaded>>
      BY <1>4 DEF Replay, PickNumber, Flush, BusyTimeout, Respond, database, local
    <2>2. \A q \in Requests : step'[q] \in Holding => step[q] \in Holding
      BY <1>4 DEF Replay, PickNumber, Flush, BusyTimeout, Respond, Refuse, Reply, Goto,
         IInv, TypeOK, Holding
    <2> QED
      BY <2>1, <2>2, RowsKept
  <1>5. CASE UNCHANGED vars
    BY <1>5, RowsKept DEF vars
  <1> QED
    BY <1>1, <1>2, <1>3, <1>4, <1>5, CommitDInv DEF Next, Handle

(* Rows fit although they are overwritten with old documents, because an   *)
(* old document that fitted once fits for good: comments, records and      *)
(* merges are never taken back.                                            *)
THEOREM RowsInvariant == Spec => []DInv
  BY InitIInv, NextIInv, InitDInv, NextDInv, PTL DEF Spec
-----------------------------------------------------------------------------
(* A pull request that was ever written with a merge date has the record   *)
(* of a merge command, for any number of stale documents.                  *)
THEOREM MergesStayRecorded == Spec => []MergesAreRecorded
  <1>1. IInv /\ DInv => MergesAreRecorded
    <2> SUFFICES ASSUME IInv, DInv, NEW n \in NumbersOf("pullRequest"),
                        items[<<"pullRequest", n>>].mergedAt
                 PROVE  MergeIn(records, <<"pullRequest", n>>)
      BY DEF MergesAreRecorded, MergeIn
    <2>1. <<"pullRequest", n>> \in DOMAIN items
      BY NumbersInDomain DEF NumbersOf, IInv, TypeOK, Kinds
    <2> QED
      BY <2>1 DEF DInv, RowsFit, Fits
  <1> QED
    BY <1>1, InductiveInvariant, RowsInvariant, PTL

(* No order of edits, merges and reviews leaves a closing date on an open  *)
(* issue or a merged pull request without its date.                        *)
THEOREM DatesStayInAgreement == Spec => []DatesAgreeWithState
  <1>1. DInv => DatesAgreeWithState
    BY DEF DInv, RowsFit, Fits, DatesAgreeWithState
  <1> QED
    BY <1>1, RowsInvariant, PTL

(* An issue never shows more comments than it has.                         *)
THEOREM CommentsStayCovered == Spec => []CommentsAreNotOvercounted
  <1>1. IInv /\ DInv => CommentsAreNotOvercounted
    <2> SUFFICES ASSUME IInv, DInv, NEW n \in NumbersOf("issue")
                 PROVE  items[<<"issue", n>>].commentCount <= Cardinality(CommentsIn(items, n))
      BY DEF CommentsAreNotOvercounted, CommentsOf, CommentsIn
    <2>1. <<"issue", n>> \in DOMAIN items
      BY NumbersInDomain DEF NumbersOf, IInv, TypeOK, Kinds
    <2> QED
      BY <2>1 DEF DInv, RowsFit, Fits
  <1> QED
    BY <1>1, InductiveInvariant, RowsInvariant, PTL
=============================================================================
