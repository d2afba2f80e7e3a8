-------------------- MODULE CollaborationSequentialProofs --------------------
(***************************************************************************)
(* Theorems about Collaboration when no two requests overlap: the checks   *)
(* of the handlers keep every promise that concurrent requests break, so   *)
(* that what the runs find is the work of the interleavings alone.         *)
(***************************************************************************)
EXTENDS CollaborationProofs

OneInFlight == \A r, q \in Requests : InFlight(r) /\ InFlight(q) => r = q

(* What a request has found out is still so when it commits: its row is    *)
(* the one in the table, an edit names its version, a merge found it open, *)
(* and the name of its record and the number it picked are free.           *)
FreshOK(r) ==
  LET c == command[r] IN
  /\ step[r] \in {"replay", "number", "flush", "commit"} /\ HasParent(c) =>
       loaded[r] = items[ParentId(c)]
  /\ step[r] \in {"flush", "commit"} /\ c.op \in EditOps => c.ifMatch = loaded[r].version
  /\ step[r] \in {"flush", "commit"} /\ c.op = "merge" => loaded[r].state = "open"
  /\ step[r] \in {"number", "flush", "commit"} /\ c.op \in KeyedOps =>
       Name(c) \notin DOMAIN records
  /\ step[r] = "flush" /\ c.op \in CreateOps => NewId(r) \notin DOMAIN items

SInv == OneInFlight /\ \A r \in Requests : FreshOK(r)

LEMMA SequentialInit == Init => SInv
  BY DEF Init, SInv, OneInFlight, FreshOK, InFlight

(* Whoever moves is alone, so only what it remembers itself is at stake.   *)
LEMMA AloneInFlight ==
  ASSUME IInv, SInv, NEW r \in Requests, InFlight(r) \/ NoneInFlight,
         NEW s, step' = [step EXCEPT ![r] = s], FreshOK(r)'
  PROVE  SInv'
  <1>1. \A q \in Requests \ {r} : step[q] \in {"idle", "done", "lost"} /\ step'[q] = step[q]
    BY DEF SInv, OneInFlight, NoneInFlight, InFlight, IInv, TypeOK
  <1>2. OneInFlight'
    BY <1>1 DEF OneInFlight, InFlight
  <1>3. ASSUME NEW q \in Requests
        PROVE  FreshOK(q)'
    <2>1. CASE q = r
      BY <2>1
    <2>2. CASE q # r
      BY <1>1, <2>2 DEF FreshOK
    <2> QED
      BY <2>1, <2>2
  <1> QED
    BY <1>2, <1>3 DEF SInv

(* An answer leaves nothing to remember.                                   *)
LEMMA AnsweredIsFresh ==
  ASSUME IInv, SInv, NEW r \in Requests, InFlight(r) \/ NoneInFlight,
         step' = [step EXCEPT ![r] = "done"]
  PROVE  SInv'
  <1>1. step'[r] = "done"
    BY DEF IInv, TypeOK
  <1>2. FreshOK(r)'
    BY <1>1 DEF FreshOK
  <1> QED
    BY <1>2, AloneInFlight

LEMMA RefusedIsFresh ==
  ASSUME IInv, SInv, NEW r \in Requests, InFlight(r) \/ NoneInFlight,
         NEW code, Refuse(r, code)
  PROVE  SInv'
  BY AnsweredIsFresh DEF Refuse, Reply

LEMMA ArriveSInv ==
  ASSUME IInv, SInv, NEW r \in Requests, Arrive(r), Starts => NoneInFlight
  PROVE  SInv'
  <1>1. PICK c \in Commands :
          /\ command' = [command EXCEPT ![r] = c]
          /\ IF c.user \notin Writers THEN Refuse(r, "repository.write_forbidden")
             ELSE IF c.op = "createIssue" /\ c.body = "untitled"
                  THEN Refuse(r, "issue.title_required")
             ELSE Goto(r, IF HasParent(c) THEN "load" ELSE "replay")
    BY DEF Arrive
  <1>2. PICK s \in {"done", "load", "replay"} :
          /\ step' = [step EXCEPT ![r] = s]
          /\ s = "replay" => ~HasParent(c)
    BY <1>1 DEF Refuse, Reply, Goto
  <1>3. step[r] = "idle" /\ step'[r] = s /\ command'[r] = c
    BY <1>1, <1>2 DEF Arrive, IInv, TypeOK
  <1>4. NoneInFlight
    BY <1>2, <1>3 DEF Starts
  <1>5. FreshOK(r)'
    BY <1>2, <1>3 DEF FreshOK
  <1> QED
    BY <1>2, <1>4, <1>5, AloneInFlight

LEMMA LoadItemSInv ==
  ASSUME IInv, SInv, NEW r \in Requests, LoadItem(r)
  PROVE  SInv'
  <1> DEFINE c == command[r]
             row == items[ParentId(c)]
  <1>1. step[r] = "load" /\ InFlight(r) /\ UNCHANGED <<items, records, command>>
    BY DEF LoadItem, InFlight, database
  <1>2. CASE \E code : Refuse(r, code)
    BY <1>1, <1>2, RefusedIsFresh
  <1>3. CASE ~ \E code : Refuse(r, code)
    <2>1. PICK s \in {"replay", "flush"} :
            /\ step' = [step EXCEPT ![r] = s]
            /\ loaded' = [loaded EXCEPT ![r] = row]
            /\ s = "replay" => c.op \notin EditOps
            /\ s = "flush" => c.op \in EditOps /\ c.ifMatch = row.version
      BY <1>3 DEF LoadItem, Goto, Stale
    <2>2. step'[r] = s /\ loaded'[r] = row
      BY <2>1 DEF IInv, TypeOK
    <2> HIDE DEF row
    <2>3. FreshOK(r)'
      <3>1. row = items'[ParentId(c)]
        BY <1>1 DEF row
      <3> QED
        BY <1>1, <2>1, <2>2, <3>1 DEF FreshOK, EditOps, KeyedOps, CreateOps
    <2> QED
      BY <1>1, <2>1, <2>3, AloneInFlight
  <1> QED
    BY <1>2, <1>3

LEMMA ReplaySInv ==
  ASSUME IInv, SInv, NEW r \in Requests, Replay(r)
  PROVE  SInv'
  <1> DEFINE c == command[r]
  <1>1. step[r] = "replay" /\ InFlight(r) /\ UNCHANGED <<items, records, command, loaded>>
    BY DEF Replay, InFlight, database, local
  <1>2. CASE \/ \E code : Refuse(r, code)
             \/ \E answer : Reply(r, answer)
    BY <1>1, <1>2, RefusedIsFresh, AnsweredIsFresh DEF Reply
  <1>3. CASE ~ \/ \E code : Refuse(r, code)
               \/ \E answer : Reply(r, answer)
    <2>1. PICK s \in {"number", "flush"} :
            /\ step' = [step EXCEPT ![r] = s]
            /\ Name(c) \notin DOMAIN records
            /\ s = "number" => c.op # "merge"
            /\ s = "flush" => c.op = "merge" /\ loaded[r].state = "open"
      BY <1>3 DEF Replay, Found, Goto, NotOpen
    <2>2. step'[r] = s
      BY <2>1 DEF IInv, TypeOK
    <2>3. FreshOK(r)
      BY DEF SInv
    <2>4. FreshOK(r)'
      BY <1>1, <2>1, <2>2, <2>3 DEF FreshOK, EditOps, CreateOps
    <2> QED
      BY <1>1, <2>1, <2>4, AloneInFlight
  <1> QED
    BY <1>2, <1>3

(* No row has the number after the last.                                   *)
LEMMA NextNumberIsFree ==
  ASSUME TypeOK, NumbersAreDense, NEW kind \in Kinds
  PROVE  <<kind, MaxNumber(kind) + 1>> \notin DOMAIN items
  <1> DEFINE ns == NumbersOf(kind)
  <1>1. \A n : n \in ns <=> <<kind, n>> \in DOMAIN items
    BY NumbersInDomain DEF NumbersOf, TypeOK
  <1>2. PICK last \in ns \cup {0} : ns = FirstNumber(kind) .. last
    BY DEF NumbersAreDense
  <1> HIDE DEF ns
  <1>3. ns \subseteq Nat
    <2>1. \A n : <<kind, n>> \in ItemIds => n \in Nat
      BY DEF ItemIds
    <2> QED
      BY <1>1, <2>1 DEF TypeOK
  <1>4. CASE ns = {}
    BY <1>1, <1>4
  <1>5. CASE ns # {}
    <2>1. last \in ns /\ \A m \in ns : m <= last
      BY <1>2, <1>3, <1>5 DEF FirstNumber
    <2>2. MaxNumber(kind) \in ns /\ \A m \in ns : m <= MaxNumber(kind)
      BY <1>5, <2>1 DEF MaxNumber, ns
    <2> DEFINE max == MaxNumber(kind)
    <2> HIDE DEF max
    <2>3. max \in Nat /\ \A m \in ns : m <= max
      BY <1>3, <2>2 DEF max
    <2>4. max + 1 \notin ns
      BY <2>3
    <2> QED
      BY <1>1, <2>4 DEF max
  <1> QED
    BY <1>4, <1>5

LEMMA PickNumberSInv ==
  ASSUME IInv, SInv, NEW r \in Requests, PickNumber(r)
  PROVE  SInv'
  <1> DEFINE c == command[r]
             kind == ItemKind(c.op)
  <1>1. /\ step[r] = "number" /\ InFlight(r)
        /\ UNCHANGED <<items, records, command, loaded>>
        /\ step' = [step EXCEPT ![r] = "flush"]
        /\ nextNumber' = [nextNumber EXCEPT ![r] = MaxNumber(kind) + 1]
    BY DEF PickNumber, InFlight, database, Goto
  <1>2. c \in Commands /\ c.op \in CreateOps
    BY <1>1 DEF IInv, LocalOK, RequestOK, TypeOK
  <1>3. kind \in Kinds
    BY <1>2, IdTypes
  <1>4. <<kind, MaxNumber(kind) + 1>> \notin DOMAIN items
    BY <1>3, NextNumberIsFree DEF IInv
  <1>5. step'[r] = "flush" /\ nextNumber'[r] = MaxNumber(kind) + 1
    BY <1>1 DEF IInv, TypeOK
  <1>6. NewId(r)' \notin DOMAIN items'
    BY <1>1, <1>4, <1>5 DEF NewId
  <1>7. FreshOK(r)
    BY DEF SInv
  <1>8. FreshOK(r)'
    BY <1>1, <1>2, <1>5, <1>6, <1>7 DEF FreshOK, EditOps, CreateOps
  <1> QED
    BY <1>1, <1>8, AloneInFlight

(* Alone, a request finds the write lock free and its number untaken.      *)
LEMMA FlushesAlone ==
  ASSUME IInv, SInv, NEW r \in Requests, step[r] = "flush"
  PROVE  /\ writer = None
         /\ ~(command[r].op \in CreateOps /\ Taken(NewId(r)))
  <1>1. writer \in Requests => writer = r
    BY DEF IInv, TypeOK, SInv, OneInFlight, InFlight
  <1>2. writer # r
    BY DEF IInv, TypeOK
  <1> QED
    BY <1>1, <1>2 DEF IInv, TypeOK, SInv, FreshOK, Taken

LEMMA FlushSInv ==
  ASSUME IInv, SInv, NEW r \in Requests, Flush(r)
  PROVE  SInv'
  <1>1. step[r] = "flush" /\ InFlight(r)
        /\ UNCHANGED <<items, records, command, loaded, nextNumber>>
    BY DEF Flush, InFlight, local
  <1>2. step' = [step EXCEPT ![r] = "commit"]
    BY <1>1, FlushesAlone DEF Flush, Goto
  <1>3. step'[r] = "commit"
    BY <1>2 DEF IInv, TypeOK
  <1>4. FreshOK(r)
    BY DEF SInv
  <1>5. FreshOK(r)'
    BY <1>1, <1>3, <1>4 DEF FreshOK
  <1> QED
    BY <1>1, <1>2, <1>5, AloneInFlight

(* Alone, a request commits: nobody else recorded its name.                *)
LEMMA CommitsAlone ==
  ASSUME IInv, SInv, NEW r \in Requests, Commit(r)
  PROVE  /\ step[r] = "commit" /\ InFlight(r)
         /\ items' = Written(r)
         /\ step' = [step EXCEPT ![r] = "respond"]
         /\ response' = response
  <1>1. step[r] = "commit"
    BY DEF Commit
  <1>2. ~(Storing(command[r]) /\ Recorded(command[r]))
    BY <1>1 DEF SInv, FreshOK, Storing, Recorded
  <1> QED
    BY <1>1, <1>2 DEF Commit, Goto, InFlight

LEMMA NextSInv == IInv /\ SInv /\ [Next /\ (Starts => NoneInFlight)]_vars => SInv'
  <1> SUFFICES ASSUME IInv, SInv, [Next /\ (Starts => NoneInFlight)]_vars
               PROVE  SInv'
    OBVIOUS
  <1>1. CASE Restart
    <2>1. \A r \in Requests : step'[r] \in {"idle", "done", "lost"}
      BY <1>1 DEF Restart, InFlight
    <2> QED
      BY <2>1 DEF SInv, OneInFlight, FreshOK, InFlight
  <1>2. ASSUME NEW r \in Requests, Arrive(r), Starts => NoneInFlight
        PROVE  SInv'
    BY <1>2, ArriveSInv
  <1>3. ASSUME NEW r \in Requests, Handle(r)
        PROVE  SInv'
    <2>1. CASE BusyTimeout(r)
      BY <2>1, FlushesAlone DEF BusyTimeout
    <2>2. CASE Commit(r)
      <3>1. InFlight(r) /\ step' = [step EXCEPT ![r] = "respond"]
        BY <2>2, CommitsAlone
      <3>2. step'[r] = "respond"
        BY <3>1 DEF IInv, TypeOK
      <3>3. FreshOK(r)'
        BY <3>2 DEF FreshOK
      <3> QED
        BY <3>1, <3>3, AloneInFlight
    <2>3. CASE Respond(r)
      BY <2>3, AnsweredIsFresh DEF Respond, Reply, InFlight
    <2> QED
      BY <1>3, <2>1, <2>2, <2>3, LoadItemSInv, ReplaySInv, PickNumberSInv, FlushSInv
         DEF Handle
  <1>4. CASE UNCHANGED vars
    BY <1>4 DEF vars, SInv, OneInFlight, FreshOK, InFlight, NewId
  <1> QED
    BY <1>1, <1>2, <1>3, <1>4 DEF Next

(* Without overlap the handlers take only steps they can take at all, so   *)
(* everything proved of them holds.                                        *)
THEOREM SequentialIsSpec == SequentialSpec => Spec
  <1>1. [Next /\ (Starts => NoneInFlight)]_vars => [Next]_vars
    OBVIOUS
  <1> QED
    BY <1>1, PTL DEF SequentialSpec, Spec

(* One request at a time is handled, and what it found out stays true.     *)
THEOREM SequentialInvariant == SequentialSpec => [](IInv /\ SInv)
  <1>1. IInv /\ SInv /\ [Next /\ (Starts => NoneInFlight)]_vars => (IInv /\ SInv)'
    BY NextIInv, NextSInv
  <1> QED
    BY <1>1, InitIInv, SequentialInit, PTL DEF SequentialSpec

(* An edit commits only over the version that its client named.            *)
THEOREM EditsAreConditional == SequentialSpec => ConditionalWrite
  <1> DEFINE Conditional ==
        \A r \in Requests :
          Commits(r) /\ command[r].op \in EditOps =>
            command[r].ifMatch = items[ParentId(command[r])].version
  <1>1. SInv => Conditional
    <2> SUFFICES ASSUME SInv, NEW r \in Requests, Commits(r), command[r].op \in EditOps
                 PROVE  command[r].ifMatch = items[ParentId(command[r])].version
      OBVIOUS
    <2>1. FreshOK(r) /\ step[r] = "commit" /\ HasParent(command[r])
      BY DEF SInv, Commits, HasParent, EditOps
    <2> QED
      BY <2>1 DEF FreshOK
  <1>2. SInv => [Conditional]_vars
    BY <1>1
  <1> QED
    BY <1>2, SequentialInvariant, PTL DEF ConditionalWrite

(* What a write makes of a merged pull request: only an edit gives it      *)
(* another state.                                                          *)
LEMMA OnlyEditsUnmerge ==
  ASSUME NEW c \in Commands, HasParent(c), ParentKind(c.op) = "pullRequest",
         NEW row \in Item, row.state = "merged", ParentAfter(c, row).state # "merged"
  PROVE  c.op = "updatePull"
  <1>1. Versioned(row).state = "merged" /\ Versioned(row) \in Item
    BY RowFields DEF Versioned, Item
  <1>2. CASE c.op = "review"
    <2>1. ParentAfter(c, row) = [Versioned(row) EXCEPT !.reviewDecision = Decision(c, row)]
      BY <1>2 DEF ParentAfter, EditOps, Reviewed
    <2>2. ParentAfter(c, row).state = "merged"
      BY <1>1, <2>1 DEF Item
    <2> QED
      BY <2>2
  <1>3. CASE c.op = "merge"
    <2>1. ParentAfter(c, row) = [Versioned(row) EXCEPT !.state = "merged", !.mergedAt = TRUE]
      BY <1>3 DEF ParentAfter, EditOps, Merged
    <2>2. ParentAfter(c, row).state = "merged"
      BY <1>1, <2>1 DEF Item
    <2> QED
      BY <2>2
  <1> QED
    BY <1>2, <1>3, CommandFields
       DEF HasParent, ParentKind, Ops, KeyedOps, CreateOps, EditOps

LEMMA CommitKeepsMerge ==
  ASSUME IInv, SInv, NEW r \in Requests, Commit(r), NEW n \in NumbersOf("pullRequest"),
         items[<<"pullRequest", n>>].state = "merged",
         items'[<<"pullRequest", n>>].state # "merged"
  PROVE  /\ Commits(r)
         /\ command[r].op = "updatePull"
         /\ command[r].ifMatch = items[<<"pullRequest", n>>].version
  <1> DEFINE c == command[r]
             id == <<"pullRequest", n>>
  <1>1. id \in DOMAIN items
    BY NumbersInDomain DEF NumbersOf, IInv, TypeOK, Kinds
  <1>2. step[r] = "commit" /\ items' = Written(r) /\ step' = [step EXCEPT ![r] = "respond"]
    BY CommitsAlone
  <1>3. Commits(r)
    BY <1>2 DEF Commits, IInv, TypeOK
  <1>4. c \in Commands
    BY <1>2, WrittenRows
  <1>5. HasParent(c) /\ id = ParentId(c)
    BY <1>1, <1>2, WrittenRows
  <1>6. items'[id] = ParentAfter(c, loaded[r])
    BY <1>2, <1>5, WrittenRows
  <1>7. loaded[r] = items[id] /\ items[id] \in Item
    BY <1>1, <1>2, <1>5 DEF SInv, FreshOK, IInv, TypeOK
  <1>8. ParentKind(c.op) = "pullRequest"
    BY <1>5 DEF ParentId
  <1>9. c.op = "updatePull"
    BY <1>4, <1>5, <1>6, <1>7, <1>8, OnlyEditsUnmerge
  <1>10. c.ifMatch = items[id].version
    BY <1>2, <1>7, <1>9 DEF SInv, FreshOK, EditOps
  <1> QED
    BY <1>3, <1>9, <1>10

(* A merge is undone only by an edit of the merged version.                *)
THEOREM MergesStay == SequentialSpec => MergeIsNotUndone
  <1> DEFINE NotUndone ==
        \A n \in NumbersOf("pullRequest") :
          LET id == <<"pullRequest", n>> IN
          items[id].state = "merged" /\ items'[id].state # "merged" =>
            \E r \in Requests :
              /\ Commits(r)
              /\ command[r].op = "updatePull"
              /\ command[r].ifMatch = items[id].version
  <1>1. IInv /\ SInv /\ [Next]_vars => NotUndone
    <2> SUFFICES ASSUME IInv, SInv, [Next]_vars, NEW n \in NumbersOf("pullRequest"),
                        items[<<"pullRequest", n>>].state = "merged",
                        items'[<<"pullRequest", n>>].state # "merged"
                 PROVE  \E r \in Requests :
                          /\ Commits(r)
                          /\ command[r].op = "updatePull"
                          /\ command[r].ifMatch = items[<<"pullRequest", n>>].version
      OBVIOUS
    <2>1. PICK r \in Requests : Commit(r)
      BY DEF Next, Handle, Restart, Arrive, LoadItem, Replay, PickNumber, Flush, BusyTimeout,
             Respond, vars, database
    <2> QED
      BY <2>1, CommitKeepsMerge
  <1>2. IInv /\ SInv /\ [Next]_vars => [NotUndone]_vars
    BY <1>1
  <1> QED
    BY <1>2, SequentialInvariant, SequentialIsSpec, PTL DEF MergeIsNotUndone, Spec

(* Without overlap no internal error is answered at all.                   *)
LEMMA NoInternalError ==
  ASSUME IInv, SInv, RInv, NEW r \in Requests, Arrive(r) \/ Handle(r),
         NEW q \in Requests, step[q] # "done", step'[q] = "done"
  PROVE  response'[q].code # "server.internal_error"
  <1>1. ASSUME NEW code \in Refusals \ {"server.internal_error"}, Refuse(r, code)
        PROVE  response'[q].code # "server.internal_error"
    <2>1. /\ response' = [response EXCEPT ![r] = [code |-> code, item |-> None, version |-> 0]]
          /\ step' = [step EXCEPT ![r] = "done"]
      BY <1>1 DEF Refuse, Reply, Answer
    <2>2. q = r
      BY <2>1 DEF IInv, TypeOK
    <2> QED
      BY <2>1, <2>2 DEF IInv, TypeOK
  <1>2. ASSUME NEW answer, answer.code \in Successes, Reply(r, answer)
        PROVE  response'[q].code # "server.internal_error"
    <2>1. q = r
      BY <1>2 DEF IInv, TypeOK, Reply
    <2> QED
      BY <1>2, <2>1 DEF IInv, TypeOK, Reply, Successes
  <1>3. ASSUME NEW s \in Steps \ {"done"}, Goto(r, s)
        PROVE  FALSE
    BY <1>3 DEF Goto, IInv, TypeOK
  <1>4. CASE Arrive(r)
    BY <1>1, <1>3, <1>4 DEF Arrive, Refusals, Steps
  <1>5. CASE LoadItem(r)
    BY <1>1, <1>3, <1>5 DEF LoadItem, Refusals, Steps
  <1>6. CASE Replay(r)
    <2>1. Found(command[r]) => records[Name(command[r])].response.code \in Successes
      BY DEF Found, IInv, TypeOK, Result, Successes
    <2> QED
      BY <1>1, <1>2, <1>3, <1>6, <2>1 DEF Replay, Refusals, Steps
  <1>7. CASE PickNumber(r)
    BY <1>3, <1>7 DEF PickNumber, Steps
  <1>8. CASE Flush(r)
    BY <1>3, <1>8, FlushesAlone DEF Flush, Steps
  <1>9. CASE BusyTimeout(r)
    BY <1>9, FlushesAlone DEF BusyTimeout
  <1>10. CASE Commit(r)
    <2>1. step' = [step EXCEPT ![r] = "respond"]
      BY <1>10, CommitsAlone
    <2> QED
      BY <2>1 DEF IInv, TypeOK
  <1>11. CASE Respond(r)
    <2>1. PICK answer : Reply(r, answer) /\ answer.code \in Successes
      <3>1. command[r].op \notin EditOps => Original(r).code \in Successes
        <4>1. command[r] \in Commands
          BY <1>11 DEF Respond, IInv, TypeOK, LocalOK, RequestOK
        <4> QED
          BY <4>1, OriginalType DEF IInv, Successes
      <3> QED
        BY <1>11, <3>1 DEF Respond, Answer, Successes
    <2> QED
      BY <1>2, <2>1
  <1> QED
    BY <1>4, <1>5, <1>6, <1>7, <1>8, <1>9, <1>10, <1>11 DEF Handle

(* A request whose command is recorded hears of it, or of a conflict.      *)
THEOREM ReusesAreAnswered == SequentialSpec => ReuseIsAnswered
  <1> DEFINE Answered ==
        \A r \in Requests :
          (step[r] # "done" /\ step'[r] = "done" /\ Name(command'[r]) \in DOMAIN records)
            => response'[r].code # "server.internal_error"
  <1>1. IInv /\ SInv /\ RInv /\ [Next]_vars => Answered
    <2> SUFFICES ASSUME IInv, SInv, RInv, [Next]_vars,
                        NEW q \in Requests, step[q] # "done", step'[q] = "done"
                 PROVE  response'[q].code # "server.internal_error"
      OBVIOUS
    <2>1. ~Restart /\ ~UNCHANGED vars
      BY DEF Restart, vars
    <2>2. PICK r \in Requests : Arrive(r) \/ Handle(r)
      BY <2>1 DEF Next
    <2> QED
      BY <2>2, NoInternalError
  <1>2. IInv /\ SInv /\ RInv /\ [Next]_vars => [Answered]_vars
    BY <1>1
  <1> QED
    BY <1>2, SequentialInvariant, SequentialIsSpec, RecordsInvariant, PTL
       DEF ReuseIsAnswered, Spec
==============================================================================
