------------------------- MODULE CredentialBrokerProofs -------------------------
(***************************************************************************)
(* Theorems about CredentialBroker for every set of reads and callbacks.   *)
(***************************************************************************)
EXTENDS CredentialBroker, TLAPS

(* A request that has received a pair and not stored it yet.               *)
Fresh(r) == step[r] \in {"write", "commit"} \/ step[r] = "policy"

(* Reads and callbacks stay in the awaits of their own handler, and what a *)
(* read asks GitHub to rotate is a pair.                                   *)
StepsOK ==
  \A r \in Requests :
    /\ step[r] \in {"refresh", "get"} => r \in Readers
    /\ step[r] = "policy" => r \in Callbacks
    /\ step[r] = "refresh" => loaded[r] \in Pairs

(* Nobody else has seen a pair that is on its way to the row, and GitHub   *)
(* has not rotated it away.                                                *)
FreshOK ==
  \A r \in Requests : Fresh(r) =>
    /\ held[r] \in live \cup revoked
    /\ held[r] # stored
    /\ \A q \in Requests : loaded[q] # held[r]
    /\ \A q \in Requests : Fresh(q) /\ q # r => held[q] # held[r]

(* A read is about to store what replaced the pair it loaded.              *)
HeldReplacesLoaded == \A r \in Requests : Holds(r) => replaced[held[r]] = loaded[r]

(* A pair replaces an older one, which GitHub does not accept any more; a  *)
(* revoked pair was not rotated, and cannot be.                            *)
RotatedIsDead ==
  /\ live \cap revoked = {}
  /\ \A n \in Pairs : replaced[n] < n /\ replaced[n] \notin live \cup revoked

(* Under the lock, the row is still missing for who is to insert it.       *)
InsertOK ==
  \A r \in Callbacks : step[r] = "commit" /\ loaded[r] = 0 => stored = 0

IInv == TypeOK /\ StepsOK /\ FreshOK /\ HeldReplacesLoaded /\ RotatedIsDead
          /\ InsertOK /\ StoredIsUsable
-----------------------------------------------------------------------------
LEMMA InitIInv == Init => IInv
  <1> SUFFICES ASSUME Init PROVE IInv
    OBVIOUS
  <1>1. PICK first \in {0, 1} :
          /\ issued = first /\ stored = first /\ live = 1 .. first
          /\ replaced = [n \in 1 .. first |-> 0]
    BY DEF Init
  <1> USE <1>1, RequestsAssumption DEF Init
  <1>2. TypeOK
    BY DEF TypeOK, Pairs, Steps
  <1>3. StepsOK /\ FreshOK /\ HeldReplacesLoaded /\ InsertOK
    BY DEF StepsOK, FreshOK, HeldReplacesLoaded, InsertOK, Fresh, Holds, Requests
  <1>4. RotatedIsDead /\ StoredIsUsable
    BY DEF RotatedIsDead, StoredIsUsable, Pairs
  <1> QED
    BY <1>2, <1>3, <1>4 DEF IInv

(* GitHub's side of a rotation or of a new authorization.                  *)
LEMMA IssueOK ==
  ASSUME IInv, NEW old \in 0 .. issued, Issue(old), old = 0 \/ old \in live
  PROVE  /\ issued' \in Nat /\ issued' = issued + 1
         /\ Pairs' = Pairs \cup {issued'}
         /\ issued' \notin Pairs
         /\ replaced' \in [Pairs' -> Nat]
         /\ live' \subseteq Pairs'
         /\ live' = (live \ {old}) \cup {issued'}
         /\ replaced'[issued'] = old
         /\ \A n \in Pairs : replaced'[n] = replaced[n]
  <1>1. issued \in Nat /\ replaced \in [Pairs -> Nat] /\ live \subseteq Pairs
    BY DEF IInv, TypeOK
  <1>2. issued' = issued + 1
    BY DEF Issue
  <1>3. Pairs' = Pairs \cup {issued'} /\ issued' \notin Pairs
    BY <1>1, <1>2 DEF Pairs
  <1>4. replaced' = [n \in 1 .. issued + 1 |-> IF n = issued + 1 THEN old ELSE replaced[n]]
    BY DEF Issue
  <1>5. Pairs' = 1 .. issued + 1
    BY <1>2 DEF Pairs
  <1>6. replaced' \in [Pairs' -> Nat]
    <2>1. \A n \in 1 .. issued + 1 : n # issued + 1 => n \in Pairs
      BY <1>1 DEF Pairs
    <2>2. old \in Nat
      BY <1>1
    <2> QED
      BY <1>1, <1>4, <1>5, <2>1, <2>2
  <1>7. replaced'[issued'] = old
    BY <1>1, <1>2, <1>4
  <1>8. ASSUME NEW n \in Pairs
        PROVE  replaced'[n] = replaced[n]
    <2>1. n \in 1 .. issued + 1 /\ n # issued + 1
      BY <1>1 DEF Pairs
    <2> QED
      BY <1>4, <2>1
  <1> QED
    BY <1>1, <1>2, <1>3, <1>6, <1>7, <1>8 DEF Issue
-----------------------------------------------------------------------------
LEMMA NextIInv == IInv /\ [Next]_vars => IInv'
  <1> SUFFICES ASSUME IInv, [Next]_vars PROVE IInv'
    OBVIOUS
  <1>0. TypeOK /\ StepsOK /\ FreshOK /\ HeldReplacesLoaded /\ RotatedIsDead
          /\ InsertOK /\ StoredIsUsable
    BY DEF IInv
  <1> USE <1>0, RequestsAssumption
  <1>1. ASSUME NEW r \in Requests, Read(r) PROVE IInv'
    <2>1. TypeOK'
      <3>1. step' \in [Requests -> Steps] /\ answer' \in [Requests -> Answers \cup {None}]
        BY <1>1 DEF TypeOK, Steps, Answers, Read, Goto, Reply, github, clock, row
      <3>2. loaded' \in [Requests -> 0 .. issued] /\ held' \in [Requests -> 0 .. issued]
        BY <1>1 DEF TypeOK, Read, Goto, Reply, github, clock, row
      <3>3. /\ UNCHANGED <<issued, replaced, live>>
            /\ forgone' \subseteq Pairs /\ due' \subseteq Pairs
            /\ expired' \subseteq Pairs /\ ended' \subseteq Pairs /\ revoked' \subseteq Pairs
            /\ outlived' \subseteq Readers
            /\ stored' \in 0 .. issued /\ writer' \in Requests \cup {None}
        BY <1>1 DEF TypeOK, Pairs, Read, Goto, Reply, github, clock, row
      <3>4. \A q \in Requests : step'[q] = "commit" <=> writer' = q
        BY <1>1 DEF TypeOK, Read, Goto, Reply, github, clock, row
      <3>5. Pairs' = Pairs
        BY <3>3 DEF Pairs
      <3> QED
        BY <3>1, <3>2, <3>3, <3>4, <3>5 DEF TypeOK
    <2>2. StepsOK'
      BY <1>1 DEF StepsOK, TypeOK, Pairs, Requests, Read, Goto, Reply, github, clock, row
    <2>3. FreshOK'
      BY <1>1 DEF FreshOK, Fresh, StepsOK, TypeOK, Requests, Read, Goto, Reply, github, clock, row
    <2>4. HeldReplacesLoaded'
      BY <1>1 DEF HeldReplacesLoaded, Holds, StepsOK, TypeOK, Requests, Read, Goto, Reply, github, clock, row
    <2>5. RotatedIsDead'
      BY <1>1 DEF RotatedIsDead, Pairs, TypeOK, Read, Goto, Reply, github, clock, row
    <2>6. InsertOK'
      BY <1>1 DEF InsertOK, StepsOK, TypeOK, Requests, Read, Goto, Reply, github, clock, row
    <2>7. StoredIsUsable'
      BY <1>1 DEF StoredIsUsable, SuccessorHeld, SuccessorForgone, Holds, TypeOK, Requests, Read, Goto, Reply, github, clock, row
    <2> QED
      BY <2>1, <2>2, <2>3, <2>4, <2>5, <2>6, <2>7 DEF IInv
  <1>2. ASSUME NEW r \in Requests, Refresh(r) PROVE IInv'
    <2>1. CASE RefreshFailed(r) /\ UNCHANGED <<github, forgone>>
      <3> USE <2>1 DEF Refresh, RefreshFailed, Reply, github, clock, row
      <3>1. TypeOK'
        <4>1. step' \in [Requests -> Steps] /\ answer' \in [Requests -> Answers \cup {None}]
          BY <1>2 DEF TypeOK, Steps, Answers
        <4>2. \A q \in Requests : step'[q] = "commit" <=> writer' = q
          BY <1>2 DEF TypeOK
        <4>3. Pairs' = Pairs
          BY DEF Pairs
        <4> QED
          BY <1>2, <4>1, <4>2, <4>3 DEF TypeOK
      <3>2. StepsOK' /\ InsertOK'
        BY <1>2 DEF StepsOK, InsertOK, TypeOK, Pairs, Requests
      <3>3. FreshOK' /\ HeldReplacesLoaded'
        BY <1>2 DEF FreshOK, HeldReplacesLoaded, Fresh, Holds, StepsOK, TypeOK, Requests
      <3>4. RotatedIsDead'
        BY <1>2 DEF RotatedIsDead, Pairs
      <3>5. StoredIsUsable'
        BY <1>2 DEF StoredIsUsable, SuccessorHeld, SuccessorForgone, Holds, TypeOK, Requests
      <3> QED
        BY <3>1, <3>2, <3>3, <3>4, <3>5 DEF IInv
    <2>2. CASE Accepted(loaded[r]) /\ Issue(loaded[r])
      <3> DEFINE old == loaded[r]
                 new == issued + 1
      <3>0. old \in 0 .. issued /\ old \in live /\ old \in Pairs
        BY <2>2 DEF TypeOK, Accepted
      <3>1. /\ issued \in Nat /\ issued' = new /\ Pairs' = Pairs \cup {new} /\ new \notin Pairs
            /\ replaced' \in [Pairs' -> Nat] /\ live' = (live \ {old}) \cup {new}
            /\ live' \subseteq Pairs'
            /\ replaced'[new] = old /\ \A n \in Pairs : replaced'[n] = replaced[n]
        BY <2>2, <3>0, IssueOK DEF TypeOK, IInv
      <3>2. /\ step[r] = "refresh" /\ r \in Readers
            /\ UNCHANGED <<due, expired, ended, outlived, stored, writer, revoked, loaded>>
        BY <1>2 DEF Refresh, clock, row, StepsOK
      <3>3. \/ /\ held' = [held EXCEPT ![r] = new]
               /\ step' = [step EXCEPT ![r] = "write"]
               /\ UNCHANGED <<answer, forgone>>
            \/ /\ forgone' = forgone \cup {new}
               /\ step' = [step EXCEPT ![r] = "done"] /\ UNCHANGED held
               /\ answer' = [answer EXCEPT ![r] = "provider.authorization_required"]
        BY <1>2, <2>2, <3>1 DEF Refresh, RefreshFailed, Reply, Goto, github
      <3> HIDE DEF old, new
      <3>4. TypeOK'
        <4>1. 0 .. issued \subseteq 0 .. issued' /\ new \in 0 .. issued'
          BY <3>1 DEF new
        <4>2. step' \in [Requests -> Steps] /\ answer' \in [Requests -> Answers \cup {None}]
          BY <3>3 DEF TypeOK, Steps, Answers
        <4>3. loaded' \in [Requests -> 0 .. issued'] /\ held' \in [Requests -> 0 .. issued']
          BY <3>2, <3>3, <4>1 DEF TypeOK
        <4>4. \A q \in Requests : step'[q] = "commit" <=> writer' = q
          BY <3>2, <3>3 DEF TypeOK
        <4>5. issued' \in Nat /\ stored' \in 0 .. issued' /\ forgone' \subseteq Pairs'
          BY <3>1, <3>2, <3>3, <4>1 DEF TypeOK
        <4> QED
          BY <3>1, <3>2, <4>2, <4>3, <4>4, <4>5 DEF TypeOK
      <3>5. StepsOK' /\ InsertOK'
        BY <3>1, <3>2, <3>3 DEF StepsOK, InsertOK, TypeOK, Requests
      <3>6. FreshOK'
        <4>1. \A q \in Requests : loaded[q] # new /\ stored # new
          BY <3>1 DEF TypeOK, Pairs, new
        <4>2. \A q \in Requests : Fresh(q) => held[q] # new /\ held[q] # old
          BY <3>1 DEF FreshOK, TypeOK, old
        <4>3. \A q \in Requests : Fresh(q)' => (Fresh(q) /\ held'[q] = held[q]) \/ (q = r /\ held'[q] = new)
          BY <3>2, <3>3 DEF Fresh, TypeOK
        <4>4. new \in live' \cup revoked'
          BY <3>1
        <4>5. ASSUME NEW q \in Requests, Fresh(q)'
              PROVE  /\ held'[q] \in live' \cup revoked'
                     /\ held'[q] # stored'
                     /\ \A p \in Requests : loaded'[p] # held'[q]
          BY <3>1, <3>2, <4>1, <4>2, <4>3, <4>4, <4>5 DEF FreshOK
        <4>6. ASSUME NEW q \in Requests, NEW p \in Requests, Fresh(q)', Fresh(p)', p # q
              PROVE  held'[p] # held'[q]
          BY <4>2, <4>3, <4>6 DEF FreshOK
        <4> QED
          BY <4>5, <4>6 DEF FreshOK
      <3>7. HeldReplacesLoaded'
        <4>1. \A q \in Requests : Holds(q) => held[q] \in Pairs
          BY DEF Holds, FreshOK, Fresh, TypeOK
        <4>2. \A q \in Requests : Holds(q)' => (Holds(q) /\ held'[q] = held[q]) \/ (q = r /\ held'[q] = new)
          BY <3>2, <3>3 DEF Holds, TypeOK
        <4> QED
          BY <3>1, <3>2, <4>1, <4>2 DEF HeldReplacesLoaded, old
      <3>8. RotatedIsDead'
        <4>1. \A n \in Pairs : replaced[n] \notin live \cup revoked
          BY DEF RotatedIsDead
        <4>2. \A n \in Pairs : replaced[n] < n /\ n < new /\ replaced[n] \in Nat
          BY DEF RotatedIsDead, TypeOK, Pairs, new
        <4>3. old < new /\ old \notin live'
          BY <3>0, <3>1 DEF Pairs, new
        <4>4. old \notin revoked /\ new \notin revoked
          BY <3>0, <3>1 DEF RotatedIsDead, TypeOK
        <4> QED
          BY <3>0, <3>1, <3>2, <4>1, <4>2, <4>3, <4>4 DEF RotatedIsDead
      <3>9. StoredIsUsable'
        <4>1. \A q \in Requests : Holds(q) =>
                /\ Holds(q)' /\ held'[q] = held[q] /\ replaced'[held'[q]] = replaced[held[q]]
          <5>1. \A q \in Requests : Holds(q) => held[q] \in Pairs /\ q # r
            BY <3>2 DEF Holds, FreshOK, Fresh, TypeOK
          <5>2. \A q \in Requests : Holds(q) => Holds(q)' /\ held'[q] = held[q]
            BY <3>3, <5>1 DEF Holds, TypeOK
          <5> QED
            BY <3>1, <5>1, <5>2
        <4>2. SuccessorHeld(stored) => SuccessorHeld(stored)'
          BY <3>2, <4>1 DEF SuccessorHeld
        <4>3. SuccessorForgone(stored) => SuccessorForgone(stored)'
          BY <3>1, <3>2, <3>3 DEF SuccessorForgone, TypeOK
        <4>4. CASE stored = old
          <5>1. CASE held' = [held EXCEPT ![r] = new] /\ step' = [step EXCEPT ![r] = "write"]
            <6>1. Holds(r)' /\ replaced'[held'[r]] = stored'
              BY <3>1, <3>2, <4>4, <5>1 DEF Holds, TypeOK
            <6> QED
              BY <6>1 DEF StoredIsUsable, SuccessorHeld
          <5>2. CASE forgone' = forgone \cup {new}
            BY <3>1, <3>2, <4>4, <5>2 DEF StoredIsUsable, SuccessorForgone
          <5> QED
            BY <3>3, <5>1, <5>2
        <4>5. CASE stored # old
          BY <3>1, <3>2, <4>2, <4>3, <4>5 DEF StoredIsUsable
        <4> QED
          BY <4>4, <4>5
      <3> QED
        BY <3>4, <3>5, <3>6, <3>7, <3>8, <3>9 DEF IInv
    <2> QED
      BY <1>2, <2>1, <2>2 DEF Refresh
  <1>3. ASSUME NEW r \in Requests, Exchange(r) PROVE IInv'
    <2>0. r \in Callbacks /\ step[r] = "idle"
      BY <1>3 DEF Exchange
    <2>1. CASE Reply(r, "refused") /\ UNCHANGED <<github, held>>
      <3> USE <2>0, <2>1 DEF Exchange, Reply, github, clock, row
      <3>1. TypeOK'
        <4>1. step' \in [Requests -> Steps] /\ answer' \in [Requests -> Answers \cup {None}]
          BY <1>3 DEF TypeOK, Steps, Answers
        <4>2. \A q \in Requests : step'[q] = "commit" <=> writer' = q
          BY <1>3 DEF TypeOK
        <4>3. Pairs' = Pairs
          BY DEF Pairs
        <4> QED
          BY <1>3, <4>1, <4>2, <4>3 DEF TypeOK
      <3>2. StepsOK' /\ InsertOK'
        BY <1>3 DEF StepsOK, InsertOK, TypeOK, Pairs, Requests
      <3>3. FreshOK' /\ HeldReplacesLoaded'
        BY <1>3 DEF FreshOK, HeldReplacesLoaded, Fresh, Holds, StepsOK, TypeOK, Requests
      <3>4. RotatedIsDead'
        BY <1>3 DEF RotatedIsDead, Pairs
      <3>5. StoredIsUsable'
        BY <1>3 DEF StoredIsUsable, SuccessorHeld, SuccessorForgone, Holds, TypeOK, Requests
      <3> QED
        BY <3>1, <3>2, <3>3, <3>4, <3>5 DEF IInv
    <2>2. CASE Issue(0)
      <3> DEFINE new == issued + 1
      <3>1. /\ issued \in Nat /\ issued' = new /\ Pairs' = Pairs \cup {new} /\ new \notin Pairs
            /\ replaced' \in [Pairs' -> Nat] /\ live' = live \cup {new}
            /\ live' \subseteq Pairs'
            /\ replaced'[new] = 0 /\ \A n \in Pairs : replaced'[n] = replaced[n]
        <4>1. issued \in Nat /\ 0 \in 0 .. issued /\ 0 \notin live
          BY DEF TypeOK, Pairs
        <4> QED
          BY <2>2, <4>1, IssueOK DEF IInv
      <3>2. UNCHANGED <<due, expired, ended, outlived, stored, writer, revoked, forgone, loaded>>
        BY <1>3 DEF Exchange, clock, row
      <3>3. \/ /\ held' = [held EXCEPT ![r] = new]
               /\ step' = [step EXCEPT ![r] = "policy"] /\ UNCHANGED answer
            \/ /\ step' = [step EXCEPT ![r] = "done"] /\ UNCHANGED held
               /\ answer' = [answer EXCEPT ![r] = "refused"]
        BY <1>3, <2>2, <3>1 DEF Exchange, Reply, Goto, github
      <3> HIDE DEF new
      <3>4. TypeOK'
        <4>1. 0 .. issued \subseteq 0 .. issued' /\ new \in 0 .. issued'
          BY <3>1 DEF new
        <4>2. step' \in [Requests -> Steps] /\ answer' \in [Requests -> Answers \cup {None}]
          BY <3>3 DEF TypeOK, Steps, Answers
        <4>3. loaded' \in [Requests -> 0 .. issued'] /\ held' \in [Requests -> 0 .. issued']
          BY <3>2, <3>3, <4>1 DEF TypeOK
        <4>4. \A q \in Requests : step'[q] = "commit" <=> writer' = q
          BY <2>0, <3>2, <3>3 DEF TypeOK
        <4>5. issued' \in Nat /\ stored' \in 0 .. issued'
          BY <3>1, <3>2, <4>1 DEF TypeOK
        <4> QED
          BY <3>1, <3>2, <4>2, <4>3, <4>4, <4>5 DEF TypeOK
      <3>5. StepsOK' /\ InsertOK'
        BY <2>0, <3>1, <3>2, <3>3 DEF StepsOK, InsertOK, TypeOK, Requests
      <3>6. FreshOK'
        <4>1. \A q \in Requests : loaded[q] # new /\ stored # new
          BY <3>1 DEF TypeOK, Pairs, new
        <4>2. \A q \in Requests : Fresh(q) => held[q] # new
          BY <3>1 DEF FreshOK, TypeOK
        <4>3. \A q \in Requests : Fresh(q)' => (Fresh(q) /\ held'[q] = held[q]) \/ (q = r /\ held'[q] = new)
          BY <2>0, <3>2, <3>3 DEF Fresh, TypeOK
        <4>4. new \in live' \cup revoked'
          BY <3>1
        <4>5. ASSUME NEW q \in Requests, Fresh(q)'
              PROVE  /\ held'[q] \in live' \cup revoked'
                     /\ held'[q] # stored'
                     /\ \A p \in Requests : loaded'[p] # held'[q]
          BY <3>1, <3>2, <4>1, <4>2, <4>3, <4>4, <4>5 DEF FreshOK
        <4>6. ASSUME NEW q \in Requests, NEW p \in Requests, Fresh(q)', Fresh(p)', p # q
              PROVE  held'[p] # held'[q]
          BY <4>2, <4>3, <4>6 DEF FreshOK
        <4> QED
          BY <4>5, <4>6 DEF FreshOK
      <3>7. HeldReplacesLoaded' /\ StoredIsUsable'
        <4>1. \A q \in Requests : Holds(q) => held[q] \in Pairs /\ q # r
          BY <2>0 DEF Holds, FreshOK, Fresh, TypeOK
        <4>2. \A q \in Requests : Holds(q)' <=> Holds(q)
          BY <2>0, <3>3, RequestsAssumption DEF Holds, TypeOK
        <4>3. \A q \in Requests : Holds(q) =>
                held'[q] = held[q] /\ replaced'[held'[q]] = replaced[held[q]]
          BY <3>1, <3>3, <4>1 DEF TypeOK
        <4>4. HeldReplacesLoaded'
          BY <3>2, <4>2, <4>3 DEF HeldReplacesLoaded
        <4>5. SuccessorHeld(stored) => SuccessorHeld(stored)'
          BY <3>2, <4>2, <4>3 DEF SuccessorHeld
        <4>6. SuccessorForgone(stored) => SuccessorForgone(stored)'
          BY <3>1, <3>2 DEF SuccessorForgone, TypeOK
        <4> QED
          BY <3>1, <3>2, <4>4, <4>5, <4>6 DEF StoredIsUsable
      <3>8. RotatedIsDead'
        <4>1. \A n \in Pairs : /\ replaced[n] < n /\ n < new /\ replaced[n] \in Nat
                              /\ replaced[n] \notin live \cup revoked
          <5>1. \A n \in Pairs : n < new
            BY DEF TypeOK, Pairs, new
          <5>2. \A n \in Pairs : replaced[n] < n /\ replaced[n] \notin live \cup revoked
            BY DEF RotatedIsDead
          <5>3. \A n \in Pairs : replaced[n] \in Nat
            BY DEF TypeOK
          <5> QED
            BY <5>1, <5>2, <5>3
        <4>2. 0 < new /\ 0 \notin live' \cup revoked /\ new \notin revoked
          BY <3>1 DEF TypeOK, Pairs, new
        <4>3. live' \cap revoked' = {}
          BY <3>1, <3>2, <4>2 DEF RotatedIsDead
        <4>4. ASSUME NEW n \in Pairs
              PROVE  replaced'[n] < n /\ replaced'[n] \notin live' \cup revoked'
          <5>0. n \in Nat /\ new \in Nat
            BY DEF TypeOK, Pairs, new
          <5>1. replaced'[n] = replaced[n] /\ replaced[n] < n
            BY <3>1, <4>1
          <5>2. replaced[n] # new
            BY <4>1, <5>0
          <5> QED
            BY <3>1, <3>2, <4>1, <5>1, <5>2
        <4>5. replaced'[new] < new /\ replaced'[new] \notin live' \cup revoked'
          BY <3>1, <3>2, <4>2
        <4>6. Pairs' = Pairs \cup {new}
          BY <3>1
        <4> QED
          BY <4>3, <4>4, <4>5, <4>6 DEF RotatedIsDead
      <3> QED
        BY <3>4, <3>5, <3>6, <3>7, <3>8 DEF IInv
    <2> QED
      BY <1>3, <2>1, <2>2 DEF Exchange
  <1>4. ASSUME NEW r \in Requests, Authorize(r) PROVE IInv'
    <2>1. TypeOK'
      <3>1. step' \in [Requests -> Steps] /\ answer' \in [Requests -> Answers \cup {None}]
        BY <1>4 DEF TypeOK, Steps, Answers, Authorize, Goto, Reply, github, clock, row
      <3>2. loaded' \in [Requests -> 0 .. issued] /\ held' \in [Requests -> 0 .. issued]
        BY <1>4 DEF TypeOK, Authorize, Goto, Reply, github, clock, row
      <3>3. /\ UNCHANGED <<issued, replaced, live>>
            /\ forgone' \subseteq Pairs /\ due' \subseteq Pairs
            /\ expired' \subseteq Pairs /\ ended' \subseteq Pairs /\ revoked' \subseteq Pairs
            /\ outlived' \subseteq Readers
            /\ stored' \in 0 .. issued /\ writer' \in Requests \cup {None}
        BY <1>4 DEF TypeOK, Pairs, Authorize, Goto, Reply, github, clock, row
      <3>4. \A q \in Requests : step'[q] = "commit" <=> writer' = q
        BY <1>4 DEF TypeOK, Authorize, Goto, Reply, github, clock, row
      <3>5. Pairs' = Pairs
        BY <3>3 DEF Pairs
      <3> QED
        BY <3>1, <3>2, <3>3, <3>4, <3>5 DEF TypeOK
    <2>2. StepsOK'
      BY <1>4 DEF StepsOK, TypeOK, Pairs, Requests, Authorize, Goto, Reply, github, clock, row
    <2>3. FreshOK'
      BY <1>4 DEF FreshOK, Fresh, StepsOK, TypeOK, Requests, Authorize, Goto, Reply, github, clock, row
    <2>4. HeldReplacesLoaded'
      BY <1>4 DEF HeldReplacesLoaded, Holds, StepsOK, TypeOK, Requests, Authorize, Goto, Reply, github, clock, row
    <2>5. RotatedIsDead'
      BY <1>4 DEF RotatedIsDead, Pairs, TypeOK, Authorize, Goto, Reply, github, clock, row
    <2>6. InsertOK'
      BY <1>4 DEF InsertOK, StepsOK, TypeOK, Requests, Authorize, Goto, Reply, github, clock, row
    <2>7. StoredIsUsable'
      BY <1>4 DEF StoredIsUsable, SuccessorHeld, SuccessorForgone, Holds, TypeOK, Requests, Authorize, Goto, Reply, github, clock, row
    <2> QED
      BY <2>1, <2>2, <2>3, <2>4, <2>5, <2>6, <2>7 DEF IInv
  <1>5. ASSUME NEW r \in Requests, Write(r) PROVE IInv'
    <2>1. TypeOK'
      <3>1. step' \in [Requests -> Steps] /\ answer' \in [Requests -> Answers \cup {None}]
        BY <1>5 DEF TypeOK, Steps, Answers, Write, Conflicts, Goto, Reply, github, clock, row
      <3>2. loaded' \in [Requests -> 0 .. issued] /\ held' \in [Requests -> 0 .. issued]
        BY <1>5 DEF TypeOK, Write, Conflicts, Goto, Reply, github, clock, row
      <3>3. /\ UNCHANGED <<issued, replaced, live>>
            /\ forgone' \subseteq Pairs /\ due' \subseteq Pairs
            /\ expired' \subseteq Pairs /\ ended' \subseteq Pairs /\ revoked' \subseteq Pairs
            /\ outlived' \subseteq Readers
            /\ stored' \in 0 .. issued /\ writer' \in Requests \cup {None}
        BY <1>5 DEF TypeOK, Pairs, Write, Conflicts, Goto, Reply, github, clock, row
      <3>4. \A q \in Requests : step'[q] = "commit" <=> writer' = q
        BY <1>5 DEF TypeOK, Write, Conflicts, Goto, Reply, github, clock, row
      <3>5. Pairs' = Pairs
        BY <3>3 DEF Pairs
      <3> QED
        BY <3>1, <3>2, <3>3, <3>4, <3>5 DEF TypeOK
    <2>2. StepsOK'
      BY <1>5 DEF StepsOK, TypeOK, Pairs, Requests, Write, Conflicts, Goto, Reply, github, clock, row
    <2>3. FreshOK'
      BY <1>5 DEF FreshOK, Fresh, StepsOK, TypeOK, Requests, Write, Conflicts, Goto, Reply, github, clock, row
    <2>4. HeldReplacesLoaded'
      BY <1>5 DEF HeldReplacesLoaded, Holds, StepsOK, TypeOK, Requests, Write, Conflicts, Goto, Reply, github, clock, row
    <2>5. RotatedIsDead'
      BY <1>5 DEF RotatedIsDead, Pairs, TypeOK, Write, Conflicts, Goto, Reply, github, clock, row
    <2>6. InsertOK'
      BY <1>5 DEF InsertOK, StepsOK, TypeOK, Requests, Write, Conflicts, Goto, Reply, github, clock, row
    <2>7. StoredIsUsable'
      BY <1>5 DEF StoredIsUsable, SuccessorHeld, SuccessorForgone, Holds, TypeOK, Requests, Write, Conflicts, Goto, Reply, github, clock, row
    <2> QED
      BY <2>1, <2>2, <2>3, <2>4, <2>5, <2>6, <2>7 DEF IInv
  <1>6. ASSUME NEW r \in Requests, BusyTimeout(r) PROVE IInv'
    <2>1. TypeOK'
      <3>1. step' \in [Requests -> Steps] /\ answer' \in [Requests -> Answers \cup {None}]
        BY <1>6 DEF TypeOK, Steps, Answers, BusyTimeout, Forgo, Reply, github, clock, row
      <3>2. loaded' \in [Requests -> 0 .. issued] /\ held' \in [Requests -> 0 .. issued]
        BY <1>6 DEF TypeOK, BusyTimeout, Forgo, Reply, github, clock, row
      <3>3. /\ UNCHANGED <<issued, replaced, live>>
            /\ forgone' \subseteq Pairs /\ due' \subseteq Pairs
            /\ expired' \subseteq Pairs /\ ended' \subseteq Pairs /\ revoked' \subseteq Pairs
            /\ outlived' \subseteq Readers
            /\ stored' \in 0 .. issued /\ writer' \in Requests \cup {None}
        BY <1>6 DEF TypeOK, Pairs, BusyTimeout, Forgo, Reply, github, clock, row, FreshOK, Fresh, Holds
      <3>4. \A q \in Requests : step'[q] = "commit" <=> writer' = q
        BY <1>6 DEF TypeOK, BusyTimeout, Forgo, Reply, github, clock, row
      <3>5. Pairs' = Pairs
        BY <3>3 DEF Pairs
      <3> QED
        BY <3>1, <3>2, <3>3, <3>4, <3>5 DEF TypeOK
    <2>2. StepsOK'
      BY <1>6 DEF StepsOK, TypeOK, Pairs, Requests, BusyTimeout, Forgo, Reply, github, clock, row
    <2>3. FreshOK'
      BY <1>6 DEF FreshOK, Fresh, StepsOK, TypeOK, Requests, BusyTimeout, Forgo, Reply, github, clock, row
    <2>4. HeldReplacesLoaded'
      BY <1>6 DEF HeldReplacesLoaded, Holds, StepsOK, TypeOK, Requests, BusyTimeout, Forgo, Reply, github, clock, row
    <2>5. RotatedIsDead'
      BY <1>6 DEF RotatedIsDead, Pairs, TypeOK, BusyTimeout, Forgo, Reply, github, clock, row
    <2>6. InsertOK'
      BY <1>6 DEF InsertOK, StepsOK, TypeOK, Requests, BusyTimeout, Forgo, Reply, github, clock, row
    <2>7. StoredIsUsable'
      BY <1>6 DEF StoredIsUsable, SuccessorHeld, SuccessorForgone, Holds, TypeOK, Requests, BusyTimeout, Forgo, Reply, github, clock, row
    <2> QED
      BY <2>1, <2>2, <2>3, <2>4, <2>5, <2>6, <2>7 DEF IInv
  <1>7. ASSUME NEW r \in Requests, Commit(r) PROVE IInv'
    <2>1. TypeOK'
      BY <1>7 DEF TypeOK, Pairs, Steps, Answers, Commit, Goto, Reply, github, clock, row
    <2>2. StepsOK'
      BY <1>7 DEF StepsOK, TypeOK, Pairs, Requests, Commit, Goto, Reply, github, clock, row
    <2>3. FreshOK'
      BY <1>7 DEF FreshOK, Fresh, StepsOK, TypeOK, Requests, Commit, Goto, Reply, github, clock, row
    <2>4. HeldReplacesLoaded'
      BY <1>7 DEF HeldReplacesLoaded, Holds, StepsOK, TypeOK, Requests, Commit, Goto, Reply, github, clock, row
    <2>5. RotatedIsDead'
      BY <1>7 DEF RotatedIsDead, Pairs, TypeOK, Commit, Goto, Reply, github, clock, row
    <2>6. InsertOK'
      BY <1>7 DEF InsertOK, StepsOK, TypeOK, Requests, Commit, Goto, Reply, github, clock, row
    <2>7. StoredIsUsable'
      BY <1>7 DEF StoredIsUsable, FreshOK, Fresh, Commit, github
    <2> QED
      BY <2>1, <2>2, <2>3, <2>4, <2>5, <2>6, <2>7 DEF IInv
  <1>8. ASSUME NEW r \in Requests, Get(r) PROVE IInv'
    <2>1. TypeOK'
      BY <1>8 DEF TypeOK, Pairs, Steps, Answers, Get, Reply, github, clock, row
    <2>2. StepsOK'
      BY <1>8 DEF StepsOK, TypeOK, Pairs, Requests, Get, Reply, github, clock, row
    <2>3. FreshOK'
      BY <1>8 DEF FreshOK, Fresh, StepsOK, TypeOK, Requests, Get, Reply, github, clock, row
    <2>4. HeldReplacesLoaded'
      BY <1>8 DEF HeldReplacesLoaded, Holds, StepsOK, TypeOK, Requests, Get, Reply, github, clock, row
    <2>5. RotatedIsDead'
      BY <1>8 DEF RotatedIsDead, Pairs, TypeOK, Get, Reply, github, clock, row
    <2>6. InsertOK'
      BY <1>8 DEF InsertOK, StepsOK, TypeOK, Requests, Get, Reply, github, clock, row
    <2>7. StoredIsUsable'
      BY <1>8 DEF StoredIsUsable, SuccessorHeld, SuccessorForgone, Holds, TypeOK, Requests, Get, Reply, github, clock, row
    <2> QED
      BY <2>1, <2>2, <2>3, <2>4, <2>5, <2>6, <2>7 DEF IInv
  <1>9. ASSUME ComeDue PROVE IInv'
    <2>1. TypeOK'
      BY <1>9 DEF TypeOK, Pairs, Steps, Answers, ComeDue, github, clock, row
    <2>2. StepsOK'
      BY <1>9 DEF StepsOK, TypeOK, Pairs, Requests, ComeDue, github, clock, row
    <2>3. FreshOK'
      BY <1>9 DEF FreshOK, Fresh, StepsOK, TypeOK, Requests, ComeDue, github, clock, row
    <2>4. HeldReplacesLoaded'
      BY <1>9 DEF HeldReplacesLoaded, Holds, StepsOK, TypeOK, Requests, ComeDue, github, clock, row
    <2>5. RotatedIsDead'
      BY <1>9 DEF RotatedIsDead, Pairs, TypeOK, ComeDue, github, clock, row
    <2>6. InsertOK'
      BY <1>9 DEF InsertOK, StepsOK, TypeOK, Requests, ComeDue, github, clock, row
    <2>7. StoredIsUsable'
      BY <1>9 DEF StoredIsUsable, SuccessorHeld, SuccessorForgone, Holds, TypeOK, Requests, ComeDue, github, clock, row
    <2> QED
      BY <2>1, <2>2, <2>3, <2>4, <2>5, <2>6, <2>7 DEF IInv
  <1>10. ASSUME Expire PROVE IInv'
    <2>1. TypeOK'
      BY <1>10 DEF TypeOK, Pairs, Steps, Answers, Expire, github, clock, row
    <2>2. StepsOK'
      BY <1>10 DEF StepsOK, TypeOK, Pairs, Requests, Expire, github, clock, row
    <2>3. FreshOK'
      BY <1>10 DEF FreshOK, Fresh, StepsOK, TypeOK, Requests, Expire, github, clock, row
    <2>4. HeldReplacesLoaded'
      BY <1>10 DEF HeldReplacesLoaded, Holds, StepsOK, TypeOK, Requests, Expire, github, clock, row
    <2>5. RotatedIsDead'
      BY <1>10 DEF RotatedIsDead, Pairs, TypeOK, Expire, github, clock, row
    <2>6. InsertOK'
      BY <1>10 DEF InsertOK, StepsOK, TypeOK, Requests, Expire, github, clock, row
    <2>7. StoredIsUsable'
      BY <1>10 DEF StoredIsUsable, SuccessorHeld, SuccessorForgone, Holds, TypeOK, Requests, Expire, github, clock, row
    <2> QED
      BY <2>1, <2>2, <2>3, <2>4, <2>5, <2>6, <2>7 DEF IInv
  <1>11. ASSUME End PROVE IInv'
    <2>1. TypeOK'
      BY <1>11 DEF TypeOK, Pairs, Steps, Answers, End, github, clock, row
    <2>2. StepsOK'
      BY <1>11 DEF StepsOK, TypeOK, Pairs, Requests, End, github, clock, row
    <2>3. FreshOK'
      BY <1>11 DEF FreshOK, Fresh, StepsOK, TypeOK, Requests, End, github, clock, row
    <2>4. HeldReplacesLoaded'
      BY <1>11 DEF HeldReplacesLoaded, Holds, StepsOK, TypeOK, Requests, End, github, clock, row
    <2>5. RotatedIsDead'
      BY <1>11 DEF RotatedIsDead, Pairs, TypeOK, End, github, clock, row
    <2>6. InsertOK'
      BY <1>11 DEF InsertOK, StepsOK, TypeOK, Requests, End, github, clock, row
    <2>7. StoredIsUsable'
      BY <1>11 DEF StoredIsUsable, SuccessorHeld, SuccessorForgone, Holds, TypeOK, Requests, End, github, clock, row
    <2> QED
      BY <2>1, <2>2, <2>3, <2>4, <2>5, <2>6, <2>7 DEF IInv
  <1>12. ASSUME Revoke PROVE IInv'
    <2>1. TypeOK'
      BY <1>12 DEF TypeOK, Pairs, Steps, Answers, Revoke, github, clock, row
    <2>2. StepsOK'
      BY <1>12 DEF StepsOK, TypeOK, Pairs, Requests, Revoke, github, clock, row
    <2>3. FreshOK'
      BY <1>12 DEF FreshOK, Fresh, StepsOK, TypeOK, Requests, Revoke, github, clock, row
    <2>4. HeldReplacesLoaded'
      BY <1>12 DEF HeldReplacesLoaded, Holds, StepsOK, TypeOK, Requests, Revoke, github, clock, row
    <2>5. RotatedIsDead'
      BY <1>12 DEF RotatedIsDead, Pairs, TypeOK, Revoke, github, clock, row
    <2>6. InsertOK'
      BY <1>12 DEF InsertOK, StepsOK, TypeOK, Requests, Revoke, github, clock, row
    <2>7. StoredIsUsable'
      BY <1>12 DEF StoredIsUsable, SuccessorHeld, SuccessorForgone, Holds, TypeOK, Requests, Revoke, github, clock, row
    <2> QED
      BY <2>1, <2>2, <2>3, <2>4, <2>5, <2>6, <2>7 DEF IInv
  <1>13. ASSUME Restart PROVE IInv'
    <2>1. TypeOK'
      <3>1. step' \in [Requests -> Steps] /\ answer' \in [Requests -> Answers \cup {None}]
        BY <1>13 DEF TypeOK, Steps, Answers, Restart, InFlight, github, clock, row
      <3>2. loaded' \in [Requests -> 0 .. issued] /\ held' \in [Requests -> 0 .. issued]
        BY <1>13 DEF TypeOK, Restart, InFlight, github, clock, row
      <3>0. \A q \in Requests : Holds(q) => held[q] \in Pairs
        BY DEF Holds, FreshOK, Fresh, TypeOK
      <3>3. /\ UNCHANGED <<issued, replaced, live>>
            /\ forgone' \subseteq Pairs /\ due' \subseteq Pairs
            /\ expired' \subseteq Pairs /\ ended' \subseteq Pairs /\ revoked' \subseteq Pairs
            /\ outlived' \subseteq Readers
            /\ stored' \in 0 .. issued /\ writer' \in Requests \cup {None}
        <4>1. forgone' \subseteq Pairs
          BY <1>13, <3>0 DEF TypeOK, Restart
        <4> QED
          BY <1>13, <4>1 DEF TypeOK, Restart, github, clock, row
      <3>4. \A q \in Requests : step'[q] = "commit" <=> writer' = q
        BY <1>13 DEF TypeOK, Restart, InFlight, github, clock, row
      <3>5. Pairs' = Pairs
        BY <3>3 DEF Pairs
      <3> QED
        BY <3>1, <3>2, <3>3, <3>4, <3>5 DEF TypeOK
    <2>2. StepsOK'
      BY <1>13 DEF StepsOK, TypeOK, Pairs, Requests, Restart, InFlight, github, clock, row
    <2>3. FreshOK'
      BY <1>13 DEF FreshOK, Fresh, StepsOK, TypeOK, Requests, Restart, InFlight, github, clock, row
    <2>4. HeldReplacesLoaded'
      BY <1>13 DEF HeldReplacesLoaded, Holds, StepsOK, TypeOK, Requests, Restart, InFlight, github, clock, row
    <2>5. RotatedIsDead'
      BY <1>13 DEF RotatedIsDead, Pairs, TypeOK, Restart, InFlight, github, clock, row
    <2>6. InsertOK'
      BY <1>13 DEF InsertOK, StepsOK, TypeOK, Requests, Restart, InFlight, github, clock, row
    <2>7. StoredIsUsable'
      BY <1>13 DEF StoredIsUsable, SuccessorHeld, SuccessorForgone, Holds, TypeOK, Requests, Restart, InFlight, github, clock, row
    <2> QED
      BY <2>1, <2>2, <2>3, <2>4, <2>5, <2>6, <2>7 DEF IInv
  <1>14. CASE UNCHANGED vars
    <2> USE <1>14 DEF vars
    <2>1. TypeOK' /\ StepsOK'
      BY DEF TypeOK, StepsOK, Pairs
    <2>2. FreshOK' /\ HeldReplacesLoaded'
      BY DEF FreshOK, HeldReplacesLoaded, Fresh, Holds
    <2>3. RotatedIsDead' /\ InsertOK'
      BY DEF RotatedIsDead, InsertOK, Pairs
    <2>4. StoredIsUsable'
      BY DEF StoredIsUsable, SuccessorHeld, SuccessorForgone, Holds
    <2> QED
      BY <2>1, <2>2, <2>3, <2>4 DEF IInv
  <1> QED
    BY <1>1, <1>2, <1>3, <1>4, <1>5, <1>6, <1>7, <1>8, <1>9, <1>10, <1>11, <1>12, <1>13,
       <1>14 DEF Next, Environment, Handle
-----------------------------------------------------------------------------
(* The conjunction is an invariant of every behaviour of the broker.       *)
THEOREM InductiveInvariant == Spec => []IInv
  <1> QED
    BY InitIInv, NextIInv, PTL DEF Spec

(* Type correctness: every variable of CredentialBroker keeps its type,    *)
(* and the write lock is held exactly between the first write of a request *)
(* and its commit.                                                         *)
THEOREM TypeCorrect == Spec => []TypeOK
  <1>1. IInv => TypeOK
    BY DEF IInv
  <1> QED
    BY <1>1, InductiveInvariant, PTL

(* The row of provider_identities never keeps a pair that a rotation of    *)
(* access_token ended, unless its successor is on its way, or a failure    *)
(* lost that, or the viewer revoked it.                                    *)
THEOREM StoredStaysUsable == Spec => []StoredIsUsable
  <1>1. IInv => StoredIsUsable
    BY DEF IInv
  <1> QED
    BY <1>1, InductiveInvariant, PTL

(* What Commit writes over the row, without looking at it, is a pair that  *)
(* no rotation has ended.                                                  *)
THEOREM RotatedIsNeverStored == Spec => RotatedIsNotStored
  <1>1. ASSUME IInv, [Next]_vars, stored' # stored
        PROVE  \A n \in Pairs : replaced[n] # stored'
    <2>0. TypeOK /\ FreshOK /\ RotatedIsDead
      BY <1>1 DEF IInv
    <2>1. PICK r \in Requests : Commit(r)
      BY <1>1 DEF Next, Environment, Handle, vars, github, clock, row, Read, Exchange,
         Refresh, Authorize, Write, BusyTimeout, Get, ComeDue, Expire, End, Revoke,
         Restart
    <2>2. held[r] \in live \cup revoked /\ stored' = held[r]
      BY <2>0, <2>1 DEF Commit, FreshOK, Fresh
    <2> QED
      BY <2>0, <2>2 DEF RotatedIsDead
  <1>2. IInv /\ [Next]_vars =>
          [stored' # stored => \A n \in Pairs : replaced[n] # stored']_vars
    BY <1>1 DEF vars
  <1> QED
    BY <1>2, InductiveInvariant, PTL DEF Spec, RotatedIsNotStored

(* However many callbacks find no identity, the one that inserts it finds  *)
(* none when it commits.                                                   *)
THEOREM OneIdentityIsInserted == Spec => OneIdentity
  <1>1. IInv /\ [Next]_vars =>
          [\A r \in Callbacks :
             step[r] = "commit" /\ step'[r] = "done" /\ loaded[r] = 0 => stored = 0]_vars
    BY DEF IInv, InsertOK
  <1> QED
    BY <1>1, InductiveInvariant, PTL DEF Spec, OneIdentity
-----------------------------------------------------------------------------
(* A read uses, or is about to store, a pair whose access token has not    *)
(* expired, unless it did since the read has had it.                       *)
HeldIsYoung ==
  /\ expired \subseteq due
  /\ \A r \in Readers :
       step[r] \in {"policy", "write", "commit", "get"} =>
         held[r] \in Pairs /\ (held[r] \in expired => r \in outlived)

LEMMA InitHeldIsYoung == Init => HeldIsYoung
  BY DEF Init, HeldIsYoung, Requests

LEMMA NextHeldIsYoung == IInv /\ HeldIsYoung /\ [Next]_vars => HeldIsYoung'
  <1> SUFFICES ASSUME IInv, HeldIsYoung, [Next]_vars PROVE HeldIsYoung'
    OBVIOUS
  <1>0. TypeOK
    BY DEF IInv
  <1> DEFINE young == {"policy", "write", "commit", "get"}
  <1>a. Pairs \subseteq Pairs'
    <2>1. issued' = issued \/ issued' = issued + 1
      BY DEF Next, Environment, Handle, vars, github, Read, Exchange, Refresh, Authorize,
         Write, BusyTimeout, Commit, Get, ComeDue, Expire, End, Revoke, Restart, Issue,
         RefreshFailed
    <2> QED
      BY <1>0, <2>1 DEF Pairs, TypeOK
  <1>1. CASE UNCHANGED <<due, expired, outlived, step, held>>
    BY <1>1, <1>a DEF HeldIsYoung
  <1>2. ASSUME NEW r \in Requests, UNCHANGED <<due, expired, outlived>>,
               step' = [step EXCEPT ![r] = step'[r]],
               held' = [held EXCEPT ![r] = held'[r]],
               r \in Readers /\ step'[r] \in young =>
                 held'[r] \in Pairs' /\ (held'[r] \in expired => r \in outlived)
        PROVE  HeldIsYoung'
    <2>1. ASSUME NEW q \in Requests, q # r
          PROVE  step'[q] = step[q] /\ held'[q] = held[q]
      BY <1>0, <1>2, <2>1 DEF TypeOK
    <2> QED
      BY <1>2, <1>a, <2>1 DEF HeldIsYoung, Requests
  <1>3. issued + 1 \notin expired /\ (issued' = issued + 1 => issued + 1 \in Pairs')
    BY <1>0 DEF TypeOK, Pairs
  <1>4. ASSUME NEW r \in Requests, Read(r) PROVE HeldIsYoung'
    <2>1. UNCHANGED <<due, expired, outlived>>
      BY <1>4 DEF Read, clock
    <2>2. step' = [step EXCEPT ![r] = step'[r]] /\ held' = [held EXCEPT ![r] = held'[r]]
      BY <1>0, <1>4 DEF Read, Goto, Reply, TypeOK
    <2>3. step'[r] \in young => held'[r] \in Pairs' /\ held'[r] \notin expired
      BY <1>0, <1>4, <1>a DEF Read, Goto, Reply, TypeOK, NearExpiry, HeldIsYoung, Pairs
    <2> QED
      BY <1>2, <2>1, <2>2, <2>3
  <1>5. ASSUME NEW r \in Requests, Refresh(r) \/ Exchange(r) PROVE HeldIsYoung'
    <2>1. UNCHANGED <<due, expired, outlived>>
      BY <1>5 DEF Refresh, Exchange, clock
    <2>2. step' = [step EXCEPT ![r] = step'[r]] /\ held' = [held EXCEPT ![r] = held'[r]]
      BY <1>0, <1>5 DEF Refresh, Exchange, RefreshFailed, Goto, Reply, TypeOK
    <2>3. step'[r] \in young => held'[r] \in Pairs' /\ held'[r] \notin expired
      BY <1>0, <1>3, <1>5, <1>a DEF Issue, Refresh, Exchange, RefreshFailed, Goto, Reply, TypeOK
    <2> QED
      BY <1>2, <2>1, <2>2, <2>3
  <1>6. ASSUME NEW r \in Requests,
               Authorize(r) \/ Write(r) \/ BusyTimeout(r) \/ Commit(r) \/ Get(r)
        PROVE  HeldIsYoung'
    <2>1. UNCHANGED <<due, expired, outlived, held>>
      BY <1>6 DEF Authorize, Write, BusyTimeout, Commit, Get, clock
    <2>2. step' = [step EXCEPT ![r] = step'[r]] /\ step[r] \in young
      BY <1>0, <1>6 DEF Authorize, Write, BusyTimeout, Commit, Get, Goto, Reply, TypeOK
    <2>3. held' = [held EXCEPT ![r] = held'[r]]
      BY <1>0, <2>1 DEF TypeOK
    <2>4. r \in Readers => held'[r] \in Pairs' /\ (held'[r] \in expired => r \in outlived)
      BY <1>a, <2>1, <2>2 DEF HeldIsYoung
    <2> QED
      BY <1>2, <2>1, <2>2, <2>3, <2>4
  <1>7. CASE ComeDue \/ End \/ Revoke
    BY <1>7, <1>a DEF ComeDue, End, Revoke, HeldIsYoung, clock
  <1>8. CASE Expire
    <2>1. PICK n \in due :
            /\ expired' = expired \cup {n}
            /\ outlived' = outlived \cup {r \in Readers : InFlight(r) /\ held[r] = n}
      BY <1>8 DEF Expire
    <2>2. UNCHANGED <<due, step, held>>
      BY <1>8 DEF Expire
    <2> QED
      BY <1>a, <2>1, <2>2 DEF HeldIsYoung, InFlight
  <1>9. CASE Restart
    <2>1. UNCHANGED <<due, expired, outlived, held>>
      BY <1>9 DEF Restart, clock
    <2>2. \A r \in Requests : step'[r] \in young => step[r] \in young
      BY <1>9 DEF Restart
    <2> QED
      BY <1>a, <2>1, <2>2 DEF HeldIsYoung, Requests
  <1> QED
    BY <1>1, <1>4, <1>5, <1>6, <1>7, <1>8, <1>9 DEF Next, Environment, Handle, vars

(* access_token asks the viewer to sign in again only for an authorization *)
(* that came to its end, after a race with a request of the same viewer,   *)
(* or when GitHub was not reached; and _get does only after such a race,   *)
(* for an authorization that came to its end, or when the token that the   *)
(* read had found good expired under it.                                   *)
THEOREM SignInsHaveReasons == Spec => SignInHasAReason
  <1>1. ASSUME IInv, HeldIsYoung, [Next]_vars, NEW r \in Readers, AsksToSignIn(r)
        PROVE  Unusable' \/ Overtaken(Presented(r)) \/ NotReached(r) \/ r \in outlived
    <2>0. TypeOK /\ StoredIsUsable /\ r \in Requests
      BY <1>1 DEF IInv, Requests
    <2>1. Read(r) \/ Refresh(r) \/ Get(r)
      <3>1. answer \in [Requests -> Answers \cup {None}] /\ answer'[r] # answer[r]
              /\ answer'[r] = "provider.authorization_required"
        BY <1>1, <2>0, NoneAssumption DEF AsksToSignIn, TypeOK, Answers
      <3>2. PICK q \in Requests : Read(q) \/ Exchange(q) \/ Handle(q)
        BY <1>1, <3>1 DEF Next, Environment, vars, ComeDue, Expire, End, Revoke, Restart
      <3>3. answer' = answer \/ \E a \in Answers : answer' = [answer EXCEPT ![q] = a]
        BY <3>2 DEF Read, Exchange, Handle, Refresh, RefreshFailed, Authorize, Write,
           BusyTimeout, Commit, Get, Goto, Reply, Answers
      <3>4. q = r
        BY <2>0, <3>1, <3>3
      <3>5. ~ (Exchange(r) \/ Authorize(r) \/ Write(r) \/ BusyTimeout(r) \/ Commit(r))
        BY <2>0, <3>1 DEF Exchange, Authorize, Write, BusyTimeout, Commit, Goto, Reply
      <3> QED
        BY <3>2, <3>4, <3>5 DEF Handle
    <2>2. CASE Read(r)
      <3>1. answer' # answer
        BY <1>1, NoneAssumption DEF AsksToSignIn, Answers
      <3>2. ~ Goto(r, "get") /\ ~ Goto(r, "refresh")
        BY <3>1 DEF Goto
      <3>3. stored \in ended /\ stored' = stored /\ ended' = ended
        BY <2>2, <3>2 DEF Read, clock, row
      <3> QED
        BY <3>3 DEF Unusable
    <2>3. ASSUME NEW n \in Pairs, n \notin live \/ n \in ended, stored = n,
                 UNCHANGED <<stored, ended, revoked, forgone, replaced>>
          PROVE  Unusable' \/ SuccessorHeld(n)
      <3>1. stored # 0
        BY <2>0, <2>3 DEF TypeOK, Pairs
      <3> QED
        BY <2>0, <2>3, <3>1 DEF StoredIsUsable, Unusable, SuccessorForgone
    <2>4. CASE Refresh(r)
      <3>0. step[r] = "refresh" /\ loaded[r] \in Pairs /\ Presented(r) = loaded[r]
        BY <1>1, <2>0, <2>4 DEF IInv, StepsOK, Refresh, Presented
      <3>1. CASE /\ Accepted(loaded[r]) /\ Outages /\ Issue(loaded[r])
                 /\ forgone' = forgone \cup {issued + 1}
        BY <1>1, <2>0, <2>4, <3>0, <3>1 DEF Refresh, NotReached
      <3>2. CASE (Outages \/ ~Accepted(loaded[r])) /\ RefreshFailed(r)
                   /\ UNCHANGED <<github, forgone>>
        <4>1. CASE Accepted(loaded[r])
          BY <3>0, <3>2, <4>1 DEF NotReached
        <4>2. CASE ~Accepted(loaded[r])
          <5>1. UNCHANGED <<stored, ended, revoked, forgone, replaced>>
            BY <2>4, <3>2 DEF Refresh, clock, row, github
          <5>2. loaded[r] \notin live \/ loaded[r] \in ended
            BY <4>2 DEF Accepted
          <5> QED
            BY <2>3, <3>0, <5>1, <5>2 DEF Overtaken
        <4> QED
          BY <4>1, <4>2
      <3>3. ~ Goto(r, "write")
        BY <1>1, NoneAssumption DEF AsksToSignIn, Answers, Goto
      <3> QED
        BY <2>4, <3>1, <3>2, <3>3 DEF Refresh
    <2>5. CASE Get(r)
      <3>0. step[r] = "get" /\ Presented(r) = held[r]
        BY <2>5 DEF Get, Presented
      <3>1. held[r] \notin live \ expired
        BY <1>1, <2>0, <2>5 DEF AsksToSignIn, Get, Reply, TypeOK
      <3>2. held[r] \notin live \/ r \in outlived
        BY <1>1, <2>0, <3>0, <3>1 DEF HeldIsYoung
      <3>3. UNCHANGED <<stored, ended, revoked, forgone, replaced>>
        BY <2>5 DEF Get, clock, row, github
      <3>4. held[r] \in Pairs
        BY <1>1, <2>0, <3>0 DEF HeldIsYoung
      <3> QED
        BY <2>3, <3>0, <3>2, <3>3, <3>4 DEF Overtaken
    <2> QED
      BY <2>1, <2>2, <2>4, <2>5
  <1>2. IInv /\ HeldIsYoung /\ [Next]_vars =>
          [\A r \in Readers :
             AsksToSignIn(r) =>
               \/ Unusable'
               \/ Overtaken(Presented(r))
               \/ NotReached(r)
               \/ r \in outlived]_vars
    BY <1>1
  <1>3. Spec => []HeldIsYoung
    BY InitHeldIsYoung, NextHeldIsYoung, InductiveInvariant, PTL DEF Spec
  <1> QED
    BY <1>2, <1>3, InductiveInvariant, PTL DEF Spec, SignInHasAReason
-----------------------------------------------------------------------------
(* A read that received a rotated pair keeps it until the row has it, or a *)
(* failure takes it.                                                       *)
RotationsAreNotDropped ==
  [][\A r \in Requests : Holds(r) =>
       \/ Holds(r)' /\ held'[r] = held[r]
       \/ stored' = held[r]
       \/ held[r] \in forgone']_vars

(* No step of any request or of its surroundings drops a pair that GitHub  *)
(* rotated for access_token: it stays on its way to the row until Commit   *)
(* stores it, unless BusyTimeout or Restart ends the request.  It is what  *)
(* RotationsAreStored asks of the steps; that they are taken is FairSpec's.*)
THEOREM RotationsStayHeld == Spec => RotationsAreNotDropped
  <1>1. ASSUME IInv, Next, NEW r \in Requests, Holds(r)
        PROVE  \/ Holds(r)' /\ held'[r] = held[r]
               \/ stored' = held[r]
               \/ held[r] \in forgone'
    <2>0. /\ TypeOK
          /\ r \in Readers /\ r \notin Callbacks /\ step[r] \in {"write", "commit"}
      BY <1>1, RequestsAssumption DEF IInv, Holds
    <2>1. CASE Restart
      BY <1>1, <2>0, <2>1 DEF Restart
    <2>2. CASE ComeDue \/ Expire \/ End \/ Revoke
      BY <1>1, <2>2 DEF ComeDue, Expire, End, Revoke, Holds
    <2>3. ASSUME NEW q \in Requests, q # r, Read(q) \/ Exchange(q) \/ Handle(q)
          PROVE  Holds(r)' /\ held'[r] = held[r]
      <3>1. step'[r] = step[r] /\ held'[r] = held[r]
        BY <2>0, <2>3 DEF TypeOK, Read, Exchange, Handle, Refresh, Authorize, Write,
           BusyTimeout, Commit, Get, RefreshFailed, Goto, Reply
      <3> QED
        BY <2>0, <3>1 DEF Holds
    <2>4. CASE Write(r)
      <3>1. ~Conflicts(r)
        BY <2>0 DEF Conflicts
      <3>2. step'[r] = "commit" /\ held'[r] = held[r]
        BY <2>0, <2>4, <3>1 DEF Write, Goto, TypeOK
      <3> QED
        BY <2>0, <3>2 DEF Holds
    <2>5. CASE BusyTimeout(r)
      BY <2>0, <2>5 DEF BusyTimeout, Forgo
    <2>6. CASE Commit(r)
      BY <2>6 DEF Commit
    <2>7. ~(Read(r) \/ Exchange(r) \/ Refresh(r) \/ Authorize(r) \/ Get(r))
      BY <2>0 DEF Read, Exchange, Refresh, Authorize, Get
    <2> QED
      BY <1>1, <2>1, <2>2, <2>3, <2>4, <2>5, <2>6, <2>7 DEF Next, Environment, Handle
  <1>2. IInv /\ [Next]_vars =>
          [\A r \in Requests : Holds(r) =>
             \/ Holds(r)' /\ held'[r] = held[r]
             \/ stored' = held[r]
             \/ held[r] \in forgone']_vars
    BY <1>1
  <1> QED
    BY <1>2, InductiveInvariant, PTL DEF Spec, RotationsAreNotDropped
=============================================================================
