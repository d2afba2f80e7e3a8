---------------------------- MODULE AccountsProofs ----------------------------
(***************************************************************************)
(* Theorems about Accounts for every set of requests, workers and GitHub   *)
(* accounts.                                                               *)
(***************************************************************************)
EXTENDS Accounts, TLAPS

(* The awaits of a callback behind its check of the state.                 *)
Past == {"consume", "exchange", "policy", "identity", "login", "email", "write"}

(* Each actor is in an await of its own handler and not answered before    *)
(* its end.                                                                *)
StepsOK ==
  \A r \in Actors :
    /\ step[r] \in {"find", "purge", "refresh"} => r \in Views \cup Logouts
    /\ step[r] \in {"reselect", "delete"} => r \in Logouts
    /\ step[r] = "verify" => r \in Logins
    /\ step[r] = "insert" => r \in Logins \cup Starts
    /\ step[r] \in {"state"} \cup Past => r \in Callbacks
    /\ step[r] = "insertDemo" => r \in Workers
    /\ step[r] \notin {"reply", "done", "lost"} => answer[r] = None
    /\ answer[r] = "signed_in" => r \in Tokens

(* What a request carries and has read is still there when it is used.     *)
DataOK ==
  \A r \in Actors :
    /\ step[r] \in {"state"} \cup Past => asked[r].person \in People
    /\ step[r] \in Past => asked[r].state \in states
    /\ step[r] = "purge" => asked[r].cookie \in expired
    /\ step[r] = "insert" /\ r \in Logins => loaded[r] \in DOMAIN users
    /\ step[r] \in {"login", "email"} => loaded[r] = None
    /\ step[r] = "write" /\ loaded[r] # None =>
         /\ asked[r].person \in DOMAIN identities
         /\ loaded[r] = identities[asked[r].person]

(* A token is known to the browser only when its session was answered.     *)
CookiesOK ==
  /\ jar # None => answer[jar] = "signed_in"
  /\ \A r \in Actors : asked[r].cookie # None => answer[asked[r].cookie] = "signed_in"

(* Whoever has inserted a row has been answered.                           *)
RowsOK ==
  /\ \A t \in DOMAIN sessions : answer[t] = "signed_in"
  /\ \A u \in DOMAIN users : u = Earlier \/ answer[u] \in {"signed_in", "started"}

IInv ==
  /\ TypeOK /\ StepsOK /\ DataOK /\ CookiesOK /\ RowsOK
  /\ AccountsAreWhole /\ SessionsAreOfTheirAccount
  /\ PresentedSessionsAreOver /\ SessionsEndForAReason
-----------------------------------------------------------------------------
(* Nobody has been answered and there is at most the demo user.            *)
LEMMA InitIInv == Init => IInv
  <1> SUFFICES ASSUME Init PROVE IInv
    OBVIOUS
  <1> USE NoneAssumption, NoAnswerAssumption, CrowdsAssumption
  <1>1. PICK there \in SUBSET {Earlier} : users = [u \in there |-> DemoUser]
    BY DEF Init
  <1>2. step \in [Actors -> {"idle", "lost"}]
    BY DEF Init
  <1>3. answer = [r \in Actors |-> None] /\ sessions = [t \in {} |-> None]
        /\ identities = [p \in {} |-> None] /\ jar = None
        /\ asked = [r \in Actors |-> Nothing] /\ loaded = [r \in Actors |-> None]
    BY DEF Init
  <1>4. DemoUser \in [login : LoginNames, email : EmailNames]
    BY DEF DemoUser, LoginNames, EmailNames
  <1>5. TypeOK
    <2>1. users \in [DOMAIN users -> [login : LoginNames, email : EmailNames]]
          /\ DOMAIN users \subseteq UserIds
      BY <1>1, <1>4 DEF UserIds
    <2>2. chosen \in [Actors -> [login : LoginNames, email : EmailNames]]
      BY <1>4 DEF Init
    <2> QED
      BY <1>2, <1>3, <2>1, <2>2 DEF Init, TypeOK, Steps, Nothing, Answers
  <1>6. StepsOK /\ DataOK
    BY <1>2, <1>3 DEF StepsOK, DataOK, Past, Answers
  <1>7. CookiesOK /\ RowsOK
    BY <1>1, <1>3 DEF CookiesOK, RowsOK, Nothing
  <1>8. AccountsAreWhole
    BY <1>1, <1>3 DEF AccountsAreWhole, Actors, Requests
  <1>9. SessionsAreOfTheirAccount /\ PresentedSessionsAreOver /\ SessionsEndForAReason
    BY <1>3 DEF SessionsAreOfTheirAccount, PresentedSessionsAreOver, SessionsEndForAReason,
       Ended, Answers, Tokens, Actors, Requests
  <1> QED
    BY <1>5, <1>6, <1>7, <1>8, <1>9 DEF IInv
-----------------------------------------------------------------------------
(* A new session, in the place of the one that was presented.              *)
LEMMA RotateOK ==
  ASSUME TypeOK, NEW r \in Tokens, NEW u \in UserIds, Rotate(r, u)
  PROVE  /\ DOMAIN sessions' = (DOMAIN sessions \ {asked[r].cookie}) \cup {r}
         /\ sessions'[r] = u
         /\ \A t \in DOMAIN sessions' : t # r => sessions'[t] = sessions[t]
         /\ DOMAIN sessions' \subseteq Tokens
         /\ sessions' \in [DOMAIN sessions' -> UserIds]
  <1>1. sessions \in [DOMAIN sessions -> UserIds] /\ DOMAIN sessions \subseteq Tokens
    BY DEF TypeOK
  <1>2. PICK kept : kept = [t \in DOMAIN sessions \ {asked[r].cookie} |-> sessions[t]]
    OBVIOUS
  <1>3. sessions' = With(kept, r, u)
    BY <1>2 DEF Rotate, Without, Restrict
  <1>4. sessions' = [t \in DOMAIN kept \cup {r} |-> IF t = r THEN u ELSE kept[t]]
    BY <1>3 DEF With
  <1> QED
    BY <1>1, <1>2, <1>4

(* A session that is over; its user's others are as they were.             *)
LEMMA RemoveOK ==
  ASSUME TypeOK, NEW t, sessions' = Without(sessions, t)
  PROVE  /\ DOMAIN sessions' = DOMAIN sessions \ {t}
         /\ \A q \in DOMAIN sessions' : sessions'[q] = sessions[q]
         /\ sessions' \in [DOMAIN sessions' -> UserIds]
  <1>1. sessions \in [DOMAIN sessions -> UserIds]
    BY DEF TypeOK
  <1> QED
    BY <1>1 DEF Without, Restrict

(* A new user.                                                             *)
LEMMA InsertUserOK ==
  ASSUME TypeOK, NEW r \in UserIds, NEW row \in [login : LoginNames, email : EmailNames],
         users' = With(users, r, row)
  PROVE  /\ DOMAIN users' = DOMAIN users \cup {r}
         /\ users'[r] = row
         /\ \A u \in DOMAIN users : u # r => users'[u] = users[u]
         /\ users' \in [DOMAIN users' -> [login : LoginNames, email : EmailNames]]
         /\ DOMAIN users' \subseteq UserIds
  <1>1. users \in [DOMAIN users -> [login : LoginNames, email : EmailNames]]
        /\ DOMAIN users \subseteq UserIds
    BY DEF TypeOK
  <1> QED
    BY <1>1 DEF With

(* A new identity.                                                         *)
LEMMA InsertIdentityOK ==
  ASSUME TypeOK, NEW p \in People, NEW u \in UserIds, identities' = With(identities, p, u)
  PROVE  /\ DOMAIN identities' = DOMAIN identities \cup {p}
         /\ identities'[p] = u
         /\ \A q \in DOMAIN identities : q # p => identities'[q] = identities[q]
         /\ identities' \in [DOMAIN identities' -> UserIds]
         /\ DOMAIN identities' \subseteq People
  <1>1. identities \in [DOMAIN identities -> UserIds] /\ DOMAIN identities \subseteq People
    BY DEF TypeOK
  <1> QED
    BY <1>1 DEF With

(* A step that only moves its actor, or answers it.                        *)
LEMMA ControlTyped ==
  ASSUME TypeOK, NEW r \in Actors, UNCHANGED <<provider, rows, clock, flow, jar, local>>,
         (\E s \in Steps : Goto(r, s)) \/ (\E a \in Answers : Reply(r, a))
  PROVE  TypeOK'
  <1>1. step' \in [Actors -> Steps] /\ answer' \in [Actors -> Answers \cup {None}]
    <2>1. "reply" \in Steps
      BY DEF Steps
    <2>2. CASE \E s \in Steps : Goto(r, s)
      BY <2>2 DEF TypeOK, Goto
    <2>3. CASE \E a \in Answers : Reply(r, a)
      BY <2>1, <2>3 DEF TypeOK, Reply
    <2> QED
      BY <2>2, <2>3
  <1> QED
    BY <1>1 DEF TypeOK, rows, clock, flow, local

(* Types, awaits and data.  Each action moves one actor.                   *)
LEMMA LocalStep ==
  ASSUME IInv, NEW r \in Actors,
         Routed(r) \/ Returns(r) \/ TurnedAway(r) \/ LookForDemo(r) \/ Handle(r) \/ Lose(r)
  PROVE  TypeOK' /\ StepsOK' /\ DataOK'
  <1> USE NoneAssumption, NoAnswerAssumption, OneKindAssumption
  <1>0. TypeOK /\ StepsOK /\ DataOK
    BY DEF IInv
  <1> USE <1>0 DEF Actors, Requests, Tokens, Steps, Answers, Past, Goto, Reply, Load
  <1>1. CASE Routed(r)
    <2>1. TypeOK'
      <3>1. step' \in [Actors -> Steps] /\ answer' \in [Actors -> Answers \cup {None}]
        BY <1>1 DEF Routed, TypeOK, Send
      <3>2. asked' \in [Actors -> [cookie : Tokens \cup {None}, csrf : BOOLEAN,
                                  state : Starts \cup {None}, person : People \cup {None}]]
        <4>1. \E csrf \in BOOLEAN, first \in Steps : Send(r, first, csrf, None, None)
          BY <1>1 DEF Routed
        <4>2. PICK csrf \in BOOLEAN :
                asked' = [asked EXCEPT ![r] = [cookie |-> jar, csrf |-> csrf, state |-> None, person |-> None]]
          BY <4>1 DEF Send
        <4> QED
          BY <4>2 DEF TypeOK
      <3>3. loaded' \in [Actors -> UserIds \cup {None}] /\ spent' \subseteq Starts \X People
        BY <1>1 DEF Routed, TypeOK, StepsOK, DataOK, Code, Send, vars, rows, clock, flow, local
      <3> QED
        BY <1>1, <3>1, <3>2, <3>3 DEF Routed, TypeOK, Send, vars, rows, clock, flow, local
    <2>2. StepsOK'
      BY <1>1 DEF Routed, TypeOK, StepsOK, Send, vars, rows, clock, flow, local
    <2>3. DataOK'
      BY <1>1 DEF Routed, TypeOK, StepsOK, DataOK, Send, vars, rows, clock, flow, local
    <2> QED
      BY <2>1, <2>2, <2>3
  <1>2. CASE Returns(r)
    <2>1. TypeOK'
      BY <1>2 DEF Returns, TypeOK, StepsOK, DataOK, Send, vars, rows, clock, flow, local
    <2>2. StepsOK'
      BY <1>2 DEF Returns, TypeOK, StepsOK, Send, vars, rows, clock, flow, local
    <2>3. DataOK'
      BY <1>2 DEF Returns, TypeOK, StepsOK, DataOK, Send, vars, rows, clock, flow, local
    <2> QED
      BY <2>1, <2>2, <2>3
  <1>3. CASE TurnedAway(r)
    <2>1. TypeOK'
      <3>1. /\ UNCHANGED <<provider, rows, clock, flow, jar, local>>
            /\ (\E s \in Steps : Goto(r, s)) \/ (\E a \in Answers : Reply(r, a))
        BY <1>3 DEF TurnedAway
      <3> QED
        BY <3>1, ControlTyped
    <2>2. StepsOK'
      BY <1>3 DEF TurnedAway, TypeOK, StepsOK, vars, rows, clock, flow, local
    <2>3. DataOK'
      BY <1>3 DEF TurnedAway, TypeOK, StepsOK, DataOK, vars, rows, clock, flow, local
    <2> QED
      BY <2>1, <2>2, <2>3
  <1>4. CASE LookForDemo(r)
    <2>1. TypeOK'
      <3>1. /\ UNCHANGED <<provider, rows, clock, flow, jar, local>>
            /\ (\E s \in Steps : Goto(r, s)) \/ (\E a \in Answers : Reply(r, a))
        BY <1>4 DEF LookForDemo
      <3> QED
        BY <3>1, ControlTyped
    <2>2. StepsOK'
      BY <1>4 DEF LookForDemo, TypeOK, StepsOK, vars, rows, clock, flow, local
    <2>3. DataOK'
      BY <1>4 DEF LookForDemo, TypeOK, StepsOK, DataOK, vars, rows, clock, flow, local
    <2> QED
      BY <2>1, <2>2, <2>3
  <1>5. CASE Find(r)
    <2>1. TypeOK'
      <3>1. /\ UNCHANGED <<provider, rows, clock, flow, jar, local>>
            /\ (\E s \in Steps : Goto(r, s)) \/ (\E a \in Answers : Reply(r, a))
        BY <1>5 DEF Find
      <3> QED
        BY <3>1, ControlTyped
    <2>2. StepsOK'
      BY <1>5 DEF Find, TypeOK, StepsOK, vars, rows, clock, flow, local
    <2>3. DataOK'
      BY <1>5 DEF Find, TypeOK, StepsOK, DataOK, vars, rows, clock, flow, local
    <2> QED
      BY <2>1, <2>2, <2>3
  <1>6. CASE Purge(r)
    <2>1. TypeOK'
      <3>1. sessions' = Without(sessions, asked[r].cookie)
        BY <1>6 DEF Purge
      <3>2. DOMAIN sessions' \subseteq DOMAIN sessions /\ sessions' \in [DOMAIN sessions' -> UserIds]
        BY <3>1, RemoveOK
      <3>3. step' \in [Actors -> Steps] /\ answer' \in [Actors -> Answers \cup {None}]
        BY <1>6 DEF Purge, TypeOK
      <3> QED
        BY <1>6, <3>2, <3>3 DEF Purge, TypeOK, vars, rows, clock, flow, local
    <2>2. StepsOK'
      BY <1>6 DEF Purge, TypeOK, StepsOK, vars, rows, clock, flow, local
    <2>3. DataOK'
      BY <1>6 DEF Purge, TypeOK, StepsOK, DataOK, vars, rows, clock, flow, local
    <2> QED
      BY <2>1, <2>2, <2>3
  <1>7. CASE RefreshSession(r)
    <2>1. TypeOK'
      <3>1. /\ UNCHANGED <<provider, rows, clock, flow, jar, local>>
            /\ (\E s \in Steps : Goto(r, s)) \/ (\E a \in Answers : Reply(r, a))
        BY <1>7 DEF RefreshSession
      <3> QED
        BY <3>1, ControlTyped
    <2>2. StepsOK'
      BY <1>7 DEF RefreshSession, TypeOK, StepsOK, vars, rows, clock, flow, local
    <2>3. DataOK'
      BY <1>7 DEF RefreshSession, TypeOK, StepsOK, DataOK, vars, rows, clock, flow, local
    <2> QED
      BY <2>1, <2>2, <2>3
  <1>8. CASE Reselect(r)
    <2>1. TypeOK'
      <3>1. /\ UNCHANGED <<provider, rows, clock, flow, jar, local>>
            /\ (\E s \in Steps : Goto(r, s)) \/ (\E a \in Answers : Reply(r, a))
        BY <1>8 DEF Reselect
      <3> QED
        BY <3>1, ControlTyped
    <2>2. StepsOK'
      BY <1>8 DEF Reselect, TypeOK, StepsOK, vars, rows, clock, flow, local
    <2>3. DataOK'
      BY <1>8 DEF Reselect, TypeOK, StepsOK, DataOK, vars, rows, clock, flow, local
    <2> QED
      BY <2>1, <2>2, <2>3
  <1>9. CASE EndSession(r)
    <2>1. TypeOK'
      <3>1. sessions' = Without(sessions, asked[r].cookie)
        BY <1>9 DEF EndSession
      <3>2. DOMAIN sessions' \subseteq DOMAIN sessions /\ sessions' \in [DOMAIN sessions' -> UserIds]
        BY <3>1, RemoveOK
      <3>3. step' \in [Actors -> Steps] /\ answer' \in [Actors -> Answers \cup {None}]
        BY <1>9 DEF EndSession, TypeOK
      <3> QED
        BY <1>9, <3>2, <3>3 DEF EndSession, TypeOK, vars, rows, clock, flow, local
    <2>2. StepsOK'
      BY <1>9 DEF EndSession, TypeOK, StepsOK, vars, rows, clock, flow, local
    <2>3. DataOK'
      BY <1>9 DEF EndSession, TypeOK, StepsOK, DataOK, vars, rows, clock, flow, local
    <2> QED
      BY <2>1, <2>2, <2>3
  <1>10. CASE Verify(r)
    <2>1. TypeOK'
      <3>1. step' \in [Actors -> Steps] /\ answer' \in [Actors -> Answers \cup {None}]
        BY <1>10 DEF Verify, TypeOK
      <3>2. asked' \in [Actors -> [cookie : Tokens \cup {None}, csrf : BOOLEAN,
                                  state : Starts \cup {None}, person : People \cup {None}]]
        BY <1>10 DEF Verify, TypeOK, vars, rows, clock, flow, local
      <3>3. loaded' \in [Actors -> UserIds \cup {None}] /\ spent' \subseteq Starts \X People
        BY <1>10 DEF Verify, TypeOK, StepsOK, DataOK, Code, vars, rows, clock, flow, local
      <3> QED
        BY <1>10, <3>1, <3>2, <3>3 DEF Verify, TypeOK, vars, rows, clock, flow, local
    <2>2. StepsOK'
      BY <1>10 DEF Verify, TypeOK, StepsOK, vars, rows, clock, flow, local
    <2>3. DataOK'
      BY <1>10 DEF Verify, TypeOK, StepsOK, DataOK, vars, rows, clock, flow, local
    <2> QED
      BY <2>1, <2>2, <2>3
  <1>11. CASE InsertSession(r)
    <2>1. TypeOK'
      <3>1. r \in Tokens /\ loaded[r] \in UserIds /\ Rotate(r, loaded[r])
        BY <1>11 DEF InsertSession, TypeOK, DataOK
      <3>2. DOMAIN sessions' \subseteq Tokens /\ sessions' \in [DOMAIN sessions' -> UserIds]
        BY <3>1, RotateOK
      <3> QED
        BY <1>11, <3>2 DEF InsertSession, TypeOK, vars, rows, clock, flow, local
    <2>2. StepsOK'
      BY <1>11 DEF InsertSession, TypeOK, StepsOK, vars, rows, clock, flow, local
    <2>3. DataOK'
      BY <1>11 DEF InsertSession, TypeOK, StepsOK, DataOK, vars, rows, clock, flow, local
    <2> QED
      BY <2>1, <2>2, <2>3
  <1>12. CASE InsertState(r)
    <2>1. TypeOK'
      BY <1>12 DEF InsertState, TypeOK, StepsOK, DataOK, vars, rows, clock, flow, local
    <2>2. StepsOK'
      BY <1>12 DEF InsertState, TypeOK, StepsOK, vars, rows, clock, flow, local
    <2>3. DataOK'
      BY <1>12 DEF InsertState, TypeOK, StepsOK, DataOK, vars, rows, clock, flow, local
    <2> QED
      BY <2>1, <2>2, <2>3
  <1>13. CASE CheckState(r)
    <2>1. TypeOK'
      <3>1. /\ UNCHANGED <<provider, rows, clock, flow, jar, local>>
            /\ (\E s \in Steps : Goto(r, s)) \/ (\E a \in Answers : Reply(r, a))
        BY <1>13 DEF CheckState
      <3> QED
        BY <3>1, ControlTyped
    <2>2. StepsOK'
      BY <1>13 DEF CheckState, TypeOK, StepsOK, vars, rows, clock, flow, local
    <2>3. DataOK'
      BY <1>13 DEF CheckState, TypeOK, StepsOK, DataOK, vars, rows, clock, flow, local
    <2> QED
      BY <2>1, <2>2, <2>3
  <1>14. CASE Consume(r)
    <2>1. TypeOK'
      BY <1>14 DEF Consume, TypeOK, StepsOK, DataOK, vars, rows, clock, flow, local
    <2>2. StepsOK'
      BY <1>14 DEF Consume, TypeOK, StepsOK, vars, rows, clock, flow, local
    <2>3. DataOK'
      BY <1>14 DEF Consume, TypeOK, StepsOK, DataOK, vars, rows, clock, flow, local
    <2> QED
      BY <2>1, <2>2, <2>3
  <1>15. CASE Exchange(r)
    <2>1. TypeOK'
      <3>1. step' \in [Actors -> Steps] /\ answer' \in [Actors -> Answers \cup {None}]
        BY <1>15 DEF Exchange, TypeOK
      <3>2. asked' \in [Actors -> [cookie : Tokens \cup {None}, csrf : BOOLEAN,
                                  state : Starts \cup {None}, person : People \cup {None}]]
        BY <1>15 DEF Exchange, TypeOK, vars, rows, clock, flow, local
      <3>3. loaded' \in [Actors -> UserIds \cup {None}] /\ spent' \subseteq Starts \X People
        BY <1>15 DEF Exchange, TypeOK, StepsOK, DataOK, Code, vars, rows, clock, flow, local
      <3> QED
        BY <1>15, <3>1, <3>2, <3>3 DEF Exchange, TypeOK, vars, rows, clock, flow, local
    <2>2. StepsOK'
      BY <1>15 DEF Exchange, TypeOK, StepsOK, vars, rows, clock, flow, local
    <2>3. DataOK'
      BY <1>15 DEF Exchange, TypeOK, StepsOK, DataOK, vars, rows, clock, flow, local
    <2> QED
      BY <2>1, <2>2, <2>3
  <1>16. CASE Admit(r)
    <2>1. TypeOK'
      <3>1. /\ UNCHANGED <<provider, rows, clock, flow, jar, local>>
            /\ (\E s \in Steps : Goto(r, s)) \/ (\E a \in Answers : Reply(r, a))
        BY <1>16 DEF Admit
      <3> QED
        BY <3>1, ControlTyped
    <2>2. StepsOK'
      BY <1>16 DEF Admit, TypeOK, StepsOK, vars, rows, clock, flow, local
    <2>3. DataOK'
      BY <1>16 DEF Admit, TypeOK, StepsOK, DataOK, vars, rows, clock, flow, local
    <2> QED
      BY <2>1, <2>2, <2>3
  <1>17. CASE SelectIdentity(r)
    <2>1. TypeOK'
      <3>1. step' \in [Actors -> Steps] /\ answer' \in [Actors -> Answers \cup {None}]
        BY <1>17 DEF SelectIdentity, TypeOK
      <3>2. asked' \in [Actors -> [cookie : Tokens \cup {None}, csrf : BOOLEAN,
                                  state : Starts \cup {None}, person : People \cup {None}]]
        BY <1>17 DEF SelectIdentity, TypeOK, vars, rows, clock, flow, local
      <3>3. loaded' \in [Actors -> UserIds \cup {None}] /\ spent' \subseteq Starts \X People
        BY <1>17 DEF SelectIdentity, TypeOK, StepsOK, DataOK, Code, vars, rows, clock, flow, local
      <3> QED
        BY <1>17, <3>1, <3>2, <3>3 DEF SelectIdentity, TypeOK, vars, rows, clock, flow, local
    <2>2. StepsOK'
      BY <1>17 DEF SelectIdentity, TypeOK, StepsOK, vars, rows, clock, flow, local
    <2>3. DataOK'
      BY <1>17 DEF SelectIdentity, TypeOK, StepsOK, DataOK, vars, rows, clock, flow, local
    <2> QED
      BY <2>1, <2>2, <2>3
  <1>18. CASE ChooseLogin(r)
    <2>1. TypeOK'
      <3>1. \E name \in LoginNames : chosen' = [chosen EXCEPT ![r]["login"] = name]
        BY <1>18 DEF ChooseLogin, Choose, LoginNames, DataOK
      <3>2. chosen' \in [Actors -> [login : LoginNames, email : EmailNames]]
        BY <3>1 DEF TypeOK
      <3> QED
        BY <1>18, <3>2 DEF ChooseLogin, TypeOK, vars, rows, clock, flow, local
    <2>2. StepsOK'
      BY <1>18 DEF ChooseLogin, TypeOK, StepsOK, vars, rows, clock, flow, local
    <2>3. DataOK'
      BY <1>18 DEF ChooseLogin, TypeOK, StepsOK, DataOK, vars, rows, clock, flow, local
    <2> QED
      BY <2>1, <2>2, <2>3
  <1>19. CASE ChooseEmail(r)
    <2>1. TypeOK'
      <3>1. \E name \in EmailNames : chosen' = [chosen EXCEPT ![r]["email"] = name]
        BY <1>19 DEF ChooseEmail, Choose, EmailNames, DataOK
      <3>2. chosen' \in [Actors -> [login : LoginNames, email : EmailNames]]
        BY <3>1 DEF TypeOK
      <3> QED
        BY <1>19, <3>2 DEF ChooseEmail, TypeOK, vars, rows, clock, flow, local
    <2>2. StepsOK'
      BY <1>19 DEF ChooseEmail, TypeOK, StepsOK, vars, rows, clock, flow, local
    <2>3. DataOK'
      <3>1. loaded[r] = None
        BY <1>19 DEF ChooseEmail, DataOK
      <3> QED
        BY <1>19, <3>1 DEF ChooseEmail, TypeOK, StepsOK, DataOK, vars, rows, clock, flow, local
    <2> QED
      BY <2>1, <2>2, <2>3
  <1>20. CASE SignIn(r)
    <2>1. TypeOK'
      <3>1. r \in Callbacks /\ asked[r].person \in People /\ r \in UserIds
        BY <1>20 DEF SignIn, StepsOK, DataOK, UserIds
      <3>2. \E u \in UserIds : Rotate(r, u)
        BY <1>20, <3>1 DEF SignIn, TypeOK
      <3>3. DOMAIN sessions' \subseteq Tokens /\ sessions' \in [DOMAIN sessions' -> UserIds]
        BY <3>1, <3>2, RotateOK
      <3>4. chosen[r] \in [login : LoginNames, email : EmailNames]
        BY DEF TypeOK
      <3>5. \/ users' = With(users, r, chosen[r]) /\ identities' = With(identities, asked[r].person, r)
            \/ UNCHANGED <<users, identities>>
        BY <1>20 DEF SignIn
      <3>6. /\ DOMAIN users' \subseteq UserIds
            /\ users' \in [DOMAIN users' -> [login : LoginNames, email : EmailNames]]
        BY <3>1, <3>4, <3>5, InsertUserOK DEF TypeOK
      <3>7. DOMAIN identities' \subseteq People /\ identities' \in [DOMAIN identities' -> UserIds]
        BY <3>1, <3>5, InsertIdentityOK DEF TypeOK
      <3> QED
        BY <1>20, <3>3, <3>6, <3>7 DEF SignIn, TypeOK, vars, rows, clock, flow, local
    <2>2. StepsOK'
      BY <1>20 DEF SignIn, TypeOK, StepsOK, vars, rows, clock, flow, local
    <2>3. DataOK'
      <3>1. r \in Callbacks /\ asked[r].person \in People /\ r \in UserIds
        BY <1>20 DEF SignIn, StepsOK, DataOK, UserIds
      <3>2. chosen[r] \in [login : LoginNames, email : EmailNames]
        BY DEF TypeOK
      <3>3. \/ /\ users' = With(users, r, chosen[r]) /\ identities' = With(identities, asked[r].person, r)
               /\ asked[r].person \notin DOMAIN identities
            \/ UNCHANGED <<users, identities>>
        BY <1>20 DEF SignIn, Collides
      <3>4. DOMAIN users \subseteq DOMAIN users'
        BY <3>1, <3>2, <3>3, InsertUserOK
      <3>5. DOMAIN identities \subseteq DOMAIN identities'
            /\ \A p \in DOMAIN identities : identities'[p] = identities[p]
        <4>1. CASE UNCHANGED <<users, identities>>
          BY <4>1
        <4>2. CASE identities' = With(identities, asked[r].person, r) /\ asked[r].person \notin DOMAIN identities
          <5>1. /\ DOMAIN identities' = DOMAIN identities \cup {asked[r].person}
                /\ \A q \in DOMAIN identities : q # asked[r].person => identities'[q] = identities[q]
            BY <3>1, <4>2, InsertIdentityOK
          <5> QED
            BY <4>2, <5>1
        <4> QED
          BY <3>3, <4>1, <4>2
      <3> QED
        BY <1>20, <3>4, <3>5 DEF SignIn, TypeOK, StepsOK, DataOK, vars, rows, clock, flow, local
    <2> QED
      BY <2>1, <2>2, <2>3
  <1>21. CASE Conflict(r)
    <2>1. TypeOK'
      <3>1. /\ UNCHANGED <<provider, rows, clock, flow, jar, local>>
            /\ (\E s \in Steps : Goto(r, s)) \/ (\E a \in Answers : Reply(r, a))
        BY <1>21 DEF Conflict
      <3> QED
        BY <3>1, ControlTyped
    <2>2. StepsOK'
      BY <1>21 DEF Conflict, TypeOK, StepsOK, vars, rows, clock, flow, local
    <2>3. DataOK'
      BY <1>21 DEF Conflict, TypeOK, StepsOK, DataOK, vars, rows, clock, flow, local
    <2> QED
      BY <2>1, <2>2, <2>3
  <1>22. CASE InsertDemo(r)
    <2>1. TypeOK'
      <3>1. r \in UserIds
        BY <1>22 DEF InsertDemo, StepsOK, UserIds
      <3>2. DemoUser \in [login : LoginNames, email : EmailNames]
        BY DEF DemoUser, LoginNames, EmailNames
      <3>3. users' = With(users, r, DemoUser) \/ UNCHANGED users
        BY <1>22 DEF InsertDemo
      <3>4. DOMAIN users' \subseteq UserIds
            /\ users' \in [DOMAIN users' -> [login : LoginNames, email : EmailNames]]
        BY <3>1, <3>2, <3>3, InsertUserOK DEF TypeOK
      <3> QED
        BY <1>22, <3>4 DEF InsertDemo, TypeOK, vars, rows, clock, flow, local
    <2>2. StepsOK'
      BY <1>22 DEF InsertDemo, TypeOK, StepsOK, vars, rows, clock, flow, local
    <2>3. DataOK'
      <3>1. r \in UserIds
        BY <1>22 DEF InsertDemo, StepsOK, UserIds
      <3>2. DemoUser \in [login : LoginNames, email : EmailNames]
        BY DEF DemoUser, LoginNames, EmailNames
      <3>3. users' = With(users, r, DemoUser) \/ UNCHANGED users
        BY <1>22 DEF InsertDemo
      <3>4. DOMAIN users \subseteq DOMAIN users'
        BY <3>1, <3>2, <3>3, InsertUserOK
      <3> QED
        BY <1>22, <3>4 DEF InsertDemo, TypeOK, StepsOK, DataOK, vars, rows, clock, flow, local
    <2> QED
      BY <2>1, <2>2, <2>3
  <1>23. CASE Busy(r)
    <2>1. TypeOK'
      <3>1. /\ UNCHANGED <<provider, rows, clock, flow, jar, local>>
            /\ (\E s \in Steps : Goto(r, s)) \/ (\E a \in Answers : Reply(r, a))
        BY <1>23 DEF Busy
      <3> QED
        BY <3>1, ControlTyped
    <2>2. StepsOK'
      BY <1>23 DEF Busy, TypeOK, StepsOK, vars, rows, clock, flow, local
    <2>3. DataOK'
      BY <1>23 DEF Busy, TypeOK, StepsOK, DataOK, vars, rows, clock, flow, local
    <2> QED
      BY <2>1, <2>2, <2>3
  <1>24. CASE Arrive(r)
    <2>1. TypeOK'
      BY <1>24 DEF Arrive, TypeOK, StepsOK, DataOK, vars, rows, clock, flow, local
    <2>2. StepsOK'
      BY <1>24 DEF Arrive, TypeOK, StepsOK, vars, rows, clock, flow, local
    <2>3. DataOK'
      BY <1>24 DEF Arrive, TypeOK, StepsOK, DataOK, vars, rows, clock, flow, local
    <2> QED
      BY <2>1, <2>2, <2>3
  <1>25. CASE Lose(r)
    <2>1. TypeOK'
      BY <1>25 DEF Lose, TypeOK, StepsOK, DataOK, vars, rows, clock, flow, local
    <2>2. StepsOK'
      BY <1>25 DEF Lose, TypeOK, StepsOK, vars, rows, clock, flow, local
    <2>3. DataOK'
      BY <1>25 DEF Lose, TypeOK, StepsOK, DataOK, vars, rows, clock, flow, local
    <2> QED
      BY <2>1, <2>2, <2>3
  <1> QED
    BY <1>1, <1>2, <1>3, <1>4, <1>5, <1>6, <1>7, <1>8, <1>9, <1>10, <1>11, <1>12, <1>13, <1>14,
       <1>15, <1>16, <1>17, <1>18, <1>19, <1>20, <1>21, <1>22, <1>23, <1>24, <1>25 DEF Handle
-----------------------------------------------------------------------------
(* A step that touches no row and that neither sends a request nor answers *)
(* a sign-in or a sign-out.                                                *)
Quiet ==
  /\ UNCHANGED <<users, identities, sessions, asked>>
  /\ expired \subseteq expired'
  /\ \A q \in Actors :
       \/ answer'[q] = answer[q]
       \/ answer[q] = None /\ answer'[q] \notin {"signed_in", "signed_out"}

LEMMA QuietKeeps ==
  ASSUME IInv, Quiet
  PROVE  /\ RowsOK' /\ AccountsAreWhole' /\ SessionsAreOfTheirAccount'
         /\ PresentedSessionsAreOver' /\ SessionsEndForAReason'
  <1> USE NoneAssumption, NoAnswerAssumption DEF Answers
  <1>1. /\ DOMAIN sessions \subseteq Actors /\ Tokens \subseteq Actors
        /\ DOMAIN users \subseteq Actors \cup {Earlier}
    BY DEF IInv, TypeOK, Tokens, UserIds, Actors, Requests
  <1>2. \A q \in Actors : answer[q] # None => answer'[q] = answer[q]
    BY DEF Quiet
  <1>3. \A q \in Actors : Ended(q)' <=> Ended(q)
    BY DEF Quiet, Ended
  <1>4. RowsOK'
    BY <1>1, <1>2 DEF IInv, RowsOK, Quiet
  <1>5. AccountsAreWhole' /\ SessionsAreOfTheirAccount'
    BY DEF IInv, AccountsAreWhole, SessionsAreOfTheirAccount, Quiet
  <1>6. PresentedSessionsAreOver'
    BY <1>3 DEF IInv, PresentedSessionsAreOver, Quiet
  <1>7. SessionsEndForAReason'
    <2> SUFFICES ASSUME NEW t \in Tokens, answer'[t] = "signed_in"
                 PROVE  \/ t \in DOMAIN sessions'
                        \/ t \in expired'
                        \/ \E q \in Actors : Ended(q)' /\ asked'[q].cookie = t
      BY DEF SessionsEndForAReason
    <2>1. answer[t] = "signed_in"
      BY <1>1 DEF Quiet
    <2> QED
      BY <1>3, <2>1 DEF IInv, SessionsEndForAReason, Quiet
  <1> QED
    BY <1>4, <1>5, <1>6, <1>7

LEMMA QuietKeepsCookies ==
  ASSUME IInv, Quiet, UNCHANGED jar
  PROVE  CookiesOK'
  <1>1. Tokens \subseteq Actors /\ jar \in Tokens \cup {None}
        /\ \A r \in Actors : asked[r].cookie \in Tokens \cup {None}
    BY DEF IInv, TypeOK, Tokens, Actors, Requests
  <1>2. \A t \in Tokens : answer[t] = "signed_in" => answer'[t] = "signed_in"
    BY <1>1, NoAnswerAssumption DEF Quiet, Answers
  <1> QED
    BY <1>1, <1>2 DEF IInv, CookiesOK, Quiet

LEMMA QuietSteps ==
  ASSUME IInv, NEW r \in Actors,
         \/ TurnedAway(r) \/ LookForDemo(r) \/ Find(r) \/ RefreshSession(r) \/ Verify(r)
         \/ InsertState(r) \/ CheckState(r) \/ Consume(r) \/ Exchange(r) \/ Admit(r)
         \/ SelectIdentity(r) \/ ChooseLogin(r) \/ ChooseEmail(r) \/ Conflict(r) \/ Busy(r)
         \/ Lose(r)
  PROVE  Quiet /\ UNCHANGED jar
  <1> USE DEF Quiet, Goto, Reply, Load, rows, clock, flow, local
  <1>0. answer \in [Actors -> Answers \cup {None}]
        /\ (step[r] \notin {"reply", "done", "lost"} => answer[r] = None)
    BY DEF IInv, TypeOK, StepsOK
  <1>1. CASE TurnedAway(r) \/ LookForDemo(r)
    BY <1>0, <1>1 DEF TurnedAway, LookForDemo
  <1>2. CASE Find(r)
    BY <1>0, <1>2 DEF Find
  <1>3. CASE RefreshSession(r)
    BY <1>0, <1>3 DEF RefreshSession
  <1>4. CASE Verify(r) \/ InsertState(r)
    BY <1>0, <1>4 DEF Verify, InsertState
  <1>5. CASE CheckState(r) \/ Consume(r)
    BY <1>0, <1>5 DEF CheckState, Consume
  <1>6. CASE Exchange(r)
    BY <1>0, <1>6 DEF Exchange
  <1>7. CASE Admit(r)
    BY <1>0, <1>7 DEF Admit
  <1>8. CASE SelectIdentity(r)
    BY <1>0, <1>8 DEF SelectIdentity
  <1>9. CASE ChooseLogin(r) \/ ChooseEmail(r)
    BY <1>0, <1>9 DEF ChooseLogin, ChooseEmail
  <1>10. CASE Conflict(r) \/ Busy(r)
    BY <1>0, <1>10 DEF Conflict, Busy
  <1>11. CASE Lose(r)
    BY <1>0, <1>11 DEF Lose
  <1> QED
    BY <1>1, <1>2, <1>3, <1>4, <1>5, <1>6, <1>7, <1>8, <1>9, <1>10, <1>11
-----------------------------------------------------------------------------
(* What a step does to the rows.                                           *)
RowInv == CookiesOK /\ RowsOK /\ AccountsAreWhole /\ SessionsAreOfTheirAccount
            /\ PresentedSessionsAreOver /\ SessionsEndForAReason

(* A request that is sent has not been answered and has made no session.   *)
LEMMA SendKeeps ==
  ASSUME IInv, NEW r \in Actors, NEW first, NEW csrf, NEW state, NEW person,
         Send(r, first, csrf, state, person)
  PROVE  RowInv'
  <1> USE NoneAssumption, NoAnswerAssumption DEF Answers
  <1>1. UNCHANGED <<users, identities, sessions, expired, jar, answer>>
    BY DEF Send, Goto, rows, clock
  <1>2. asked'[r].cookie = jar /\ \A q \in Actors : q # r => asked'[q] = asked[q]
    BY DEF Send, IInv, TypeOK
  <1>3. answer[r] = None
    BY DEF Send, IInv, StepsOK
  <1>4. \A q \in Actors : (Ended(q)' <=> Ended(q)) /\ (Ended(q) => q # r)
    BY <1>1, <1>3 DEF Ended
  <1>5. CookiesOK'
    BY <1>1, <1>2 DEF IInv, CookiesOK
  <1>6. RowsOK' /\ AccountsAreWhole'
    BY <1>1 DEF IInv, RowsOK, AccountsAreWhole
  <1>7. SessionsAreOfTheirAccount'
    <2>1. \A t \in DOMAIN sessions : t # r /\ t \in Actors
      BY <1>3 DEF IInv, RowsOK, TypeOK, Tokens, Actors, Requests
    <2> QED
      BY <1>1, <1>2, <2>1 DEF IInv, SessionsAreOfTheirAccount
  <1>8. PresentedSessionsAreOver'
    BY <1>1, <1>2, <1>4 DEF IInv, PresentedSessionsAreOver
  <1>9. SessionsEndForAReason'
    BY <1>1, <1>2, <1>4 DEF IInv, SessionsEndForAReason
  <1> QED
    BY <1>5, <1>6, <1>7, <1>8, <1>9 DEF RowInv

(* A session ends, past its time or by the sign-out it was presented to.   *)
LEMMA RemoveKeeps ==
  ASSUME IInv, NEW r \in Actors, answer[r] = None,
         \/ sessions' = Without(sessions, asked[r].cookie)
         \/ (asked[r].cookie \notin DOMAIN sessions /\ UNCHANGED sessions),
         UNCHANGED <<users, identities, expired, asked, jar>>,
         NEW a \in Answers, a # "signed_in", answer' = [answer EXCEPT ![r] = a],
         Ended(r)' \/ asked[r].cookie \in expired
  PROVE  RowInv'
  <1> USE NoneAssumption, NoAnswerAssumption DEF Answers
  <1>1. /\ DOMAIN sessions' = DOMAIN sessions \ {asked[r].cookie}
        /\ \A t \in DOMAIN sessions' : sessions'[t] = sessions[t]
    BY RemoveOK DEF IInv
  <1>2. answer'[r] = a /\ \A q \in Actors : q # r => answer'[q] = answer[q]
    BY DEF IInv, TypeOK
  <1>3. \A q \in Actors : (Ended(q) => Ended(q)') /\ (Ended(q)' => Ended(q) \/ q = r)
    BY <1>2 DEF Ended
  <1>4. Tokens \subseteq Actors /\ jar \in Tokens \cup {None} /\ DOMAIN sessions \subseteq Tokens
        /\ (\A q \in Actors : asked[q].cookie \in Tokens \cup {None})
        /\ DOMAIN users \subseteq Actors \cup {Earlier}
    BY DEF IInv, TypeOK, Tokens, UserIds, Actors, Requests
  <1>5. \A t \in Actors : answer[t] = "signed_in" <=> answer'[t] = "signed_in"
    BY <1>2
  <1>6. CookiesOK'
    BY <1>4, <1>5 DEF IInv, CookiesOK
  <1>7. RowsOK'
    BY <1>1, <1>2, <1>4, <1>5 DEF IInv, RowsOK
  <1>8. AccountsAreWhole' /\ SessionsAreOfTheirAccount'
    BY <1>1 DEF IInv, AccountsAreWhole, SessionsAreOfTheirAccount
  <1>9. PresentedSessionsAreOver'
    BY <1>1, <1>3 DEF IInv, PresentedSessionsAreOver
  <1>10. SessionsEndForAReason'
    BY <1>1, <1>3, <1>4, <1>5 DEF IInv, SessionsEndForAReason
  <1> QED
    BY <1>6, <1>7, <1>8, <1>9, <1>10 DEF RowInv

(* A session takes the place of the one that was presented: the new token  *)
(* has been nobody's cookie before.                                        *)
LEMMA RotateKeeps ==
  ASSUME IInv, NEW r \in Tokens, answer[r] = None, NEW u \in UserIds, Rotate(r, u),
         UNCHANGED <<expired, asked, jar>>, answer' = [answer EXCEPT ![r] = "signed_in"]
  PROVE  /\ CookiesOK' /\ PresentedSessionsAreOver' /\ SessionsEndForAReason'
         /\ (\A t \in DOMAIN sessions' : answer'[t] = "signed_in")
         /\ \A q \in Actors : answer[q] # None => answer'[q] = answer[q]
  <1> USE NoneAssumption, NoAnswerAssumption DEF Answers
  <1>1. DOMAIN sessions' = (DOMAIN sessions \ {asked[r].cookie}) \cup {r}
    BY RotateOK DEF IInv
  <1>2. Tokens \subseteq Actors /\ jar \in Tokens \cup {None} /\ DOMAIN sessions \subseteq Tokens
        /\ (\A q \in Actors : asked[q].cookie \in Tokens \cup {None})
    BY DEF IInv, TypeOK, Tokens, UserIds, Actors, Requests
  <1>3. answer'[r] = "signed_in" /\ \A q \in Actors : q # r => answer'[q] = answer[q]
    BY <1>2 DEF IInv, TypeOK
  <1>4. \A t \in Actors : answer[t] = "signed_in" => t # r /\ answer'[t] = "signed_in"
    BY <1>3
  <1>5. \A q \in Actors : asked[q].cookie # r
    BY <1>2, <1>4 DEF IInv, CookiesOK
  <1>6. \A q \in Actors : (Ended(q) => Ended(q)') /\ (Ended(q)' => Ended(q) \/ q = r)
    BY <1>3 DEF Ended
  <1>7. CookiesOK'
    BY <1>2, <1>4 DEF IInv, CookiesOK
  <1>8. PresentedSessionsAreOver'
    BY <1>1, <1>5, <1>6 DEF IInv, PresentedSessionsAreOver
  <1>9. Ended(r)'
    BY <1>3 DEF Ended, Tokens
  <1>10. SessionsEndForAReason'
    <2> SUFFICES ASSUME NEW t \in Tokens, answer'[t] = "signed_in"
                 PROVE  \/ t \in DOMAIN sessions'
                        \/ t \in expired'
                        \/ \E q \in Actors : Ended(q)' /\ asked'[q].cookie = t
      BY DEF SessionsEndForAReason
    <2>1. CASE t = r
      BY <1>1, <2>1
    <2>2. CASE t # r
      <3>1. answer[t] = "signed_in"
        BY <1>2, <1>3, <2>2
      <3> QED
        BY <1>1, <1>2, <1>6, <1>9, <3>1 DEF IInv, SessionsEndForAReason
    <2> QED
      BY <2>1, <2>2
  <1>11. \A t \in DOMAIN sessions' : answer'[t] = "signed_in"
    BY <1>1, <1>2, <1>3, <1>4 DEF IInv, RowsOK
  <1> QED
    BY <1>3, <1>7, <1>8, <1>10, <1>11

(* A login opens a session of a user that stays.                           *)
LEMMA InsertSessionKeeps ==
  ASSUME IInv, NEW r \in Actors, InsertSession(r)
  PROVE  RowInv'
  <1>1. /\ r \in Logins /\ r \in Tokens /\ r \notin Callbacks
        /\ answer[r] = None
        /\ loaded[r] \in DOMAIN users /\ loaded[r] \in UserIds
    BY OneKindAssumption DEF InsertSession, IInv, TypeOK, StepsOK, DataOK, Tokens
  <1>2. /\ Rotate(r, loaded[r])
        /\ UNCHANGED <<users, identities, expired, asked, jar>>
        /\ answer' = [answer EXCEPT ![r] = "signed_in"]
    BY DEF InsertSession, Reply, clock, local
  <1>3. /\ CookiesOK' /\ PresentedSessionsAreOver' /\ SessionsEndForAReason'
        /\ \A t \in DOMAIN sessions' : answer'[t] = "signed_in"
        /\ \A q \in Actors : answer[q] # None => answer'[q] = answer[q]
    BY <1>1, <1>2, RotateKeeps
  <1>4. /\ DOMAIN sessions' = (DOMAIN sessions \ {asked[r].cookie}) \cup {r}
        /\ sessions'[r] = loaded[r]
        /\ \A t \in DOMAIN sessions' : t # r => sessions'[t] = sessions[t]
    BY <1>1, <1>2, RotateOK DEF IInv
  <1>5. RowsOK'
    <2>1. \A u \in DOMAIN users : u # Earlier => u \in Actors /\ answer[u] # None
      BY NoAnswerAssumption DEF IInv, RowsOK, TypeOK, UserIds, Actors, Requests, Answers
    <2> QED
      BY <1>2, <1>3, <2>1 DEF IInv, RowsOK
  <1>6. AccountsAreWhole'
    BY <1>1, <1>2, <1>4 DEF IInv, AccountsAreWhole
  <1>7. SessionsAreOfTheirAccount'
    BY <1>1, <1>2, <1>4 DEF IInv, SessionsAreOfTheirAccount
  <1> QED
    BY <1>3, <1>5, <1>6, <1>7 DEF RowInv

(* The transaction of a callback: a session of the user it has found by    *)
(* its identity, or a user, an identity and a session that are all new.    *)
LEMMA SignInKeeps ==
  ASSUME IInv, NEW r \in Actors, SignIn(r)
  PROVE  RowInv'
  <1> DEFINE p == asked[r].person
  <1>1. /\ r \in Callbacks /\ r \in Tokens /\ r \in UserIds /\ p \in People
        /\ answer[r] = None
        /\ loaded[r] # None => p \in DOMAIN identities /\ loaded[r] = identities[p]
    BY DEF SignIn, IInv, StepsOK, DataOK, Past, Tokens, UserIds
  <1>2. /\ UNCHANGED <<expired, asked, jar>>
        /\ answer' = [answer EXCEPT ![r] = "signed_in"]
    BY DEF SignIn, Reply, clock, local
  <1>3. \A u \in DOMAIN users : u # Earlier => u \in Actors /\ answer[u] # None
    BY NoAnswerAssumption DEF IInv, RowsOK, TypeOK, UserIds, Actors, Requests, Answers
  <1>4. r \notin DOMAIN users
    BY <1>1, <1>3, NoneAssumption
  <1>5. identities \in [DOMAIN identities -> UserIds]
        /\ \A q \in DOMAIN identities : identities[q] \in DOMAIN users
    BY DEF IInv, TypeOK, AccountsAreWhole
  <1>6. CASE loaded[r] # None
    <2>1. Rotate(r, identities[p]) /\ p \in DOMAIN identities /\ UNCHANGED <<users, identities>>
          /\ identities[p] \in UserIds
      BY <1>1, <1>5, <1>6 DEF SignIn
    <2>2. /\ CookiesOK' /\ PresentedSessionsAreOver' /\ SessionsEndForAReason'
          /\ \A t \in DOMAIN sessions' : answer'[t] = "signed_in"
          /\ \A q \in Actors : answer[q] # None => answer'[q] = answer[q]
      BY <1>1, <1>2, <2>1, RotateKeeps
    <2>3. /\ DOMAIN sessions' = (DOMAIN sessions \ {asked[r].cookie}) \cup {r}
          /\ sessions'[r] = identities[p]
          /\ \A t \in DOMAIN sessions' : t # r => sessions'[t] = sessions[t]
      BY <1>1, <2>1, RotateOK DEF IInv
    <2>4. RowsOK'
      BY <1>3, <2>1, <2>2 DEF IInv, RowsOK
    <2>5. AccountsAreWhole'
      BY <1>5, <2>1, <2>3 DEF IInv, AccountsAreWhole
    <2>6. SessionsAreOfTheirAccount'
      BY <1>2, <2>1, <2>3 DEF IInv, SessionsAreOfTheirAccount
    <2> QED
      BY <2>2, <2>4, <2>5, <2>6 DEF RowInv
  <1>7. CASE loaded[r] = None
    <2>1. /\ ~Collides(r) /\ Rotate(r, r)
          /\ users' = With(users, r, chosen[r]) /\ identities' = With(identities, p, r)
      BY <1>7 DEF SignIn
    <2>2. chosen[r] \in [login : LoginNames, email : EmailNames]
      BY DEF IInv, TypeOK
    <2>3. /\ DOMAIN users' = DOMAIN users \cup {r} /\ users'[r] = chosen[r]
          /\ \A u \in DOMAIN users : u # r => users'[u] = users[u]
      BY <1>1, <2>1, <2>2, InsertUserOK DEF IInv
    <2>4. /\ DOMAIN identities' = DOMAIN identities \cup {p} /\ identities'[p] = r
          /\ \A q \in DOMAIN identities : q # p => identities'[q] = identities[q]
      BY <1>1, <2>1, InsertIdentityOK DEF IInv
    <2>5. /\ p \notin DOMAIN identities
          /\ \A u \in DOMAIN users : users[u].login # chosen[r].login /\ users[u].email # chosen[r].email
      BY <2>1 DEF Collides, Taken
    <2>6. /\ CookiesOK' /\ PresentedSessionsAreOver' /\ SessionsEndForAReason'
          /\ \A t \in DOMAIN sessions' : answer'[t] = "signed_in"
          /\ \A q \in Actors : answer[q] # None => answer'[q] = answer[q]
      BY <1>1, <1>2, <2>1, RotateKeeps
    <2>7. /\ DOMAIN sessions' = (DOMAIN sessions \ {asked[r].cookie}) \cup {r}
          /\ sessions'[r] = r
          /\ \A t \in DOMAIN sessions' : t # r => sessions'[t] = sessions[t]
      BY <1>1, <2>1, RotateOK DEF IInv
    <2>8. RowsOK'
      <3>1. answer'[r] = "signed_in"
        BY <1>2 DEF IInv, TypeOK
      <3> QED
        BY <1>3, <2>3, <2>6, <3>1 DEF IInv, RowsOK
    <2>9. AccountsAreWhole'
      <3>1. \A t \in DOMAIN sessions' : sessions'[t] \in DOMAIN users'
        BY <2>3, <2>7 DEF IInv, AccountsAreWhole
      <3>2. \A q \in DOMAIN identities' : identities'[q] \in DOMAIN users'
        BY <1>5, <2>3, <2>4
      <3>3. \A u, v \in DOMAIN users' :
              u # v => users'[u].login # users'[v].login /\ users'[u].email # users'[v].email
        BY <1>4, <2>3, <2>5 DEF IInv, AccountsAreWhole
      <3>4. \A q, s \in DOMAIN identities' : q # s => identities'[q] # identities'[s]
        BY <1>4, <1>5, <2>4, <2>5 DEF IInv, AccountsAreWhole
      <3>5. \A u \in DOMAIN users' \cap Callbacks : \E q \in DOMAIN identities' : identities'[q] = u
        BY <2>3, <2>4, <2>5 DEF IInv, AccountsAreWhole
      <3> QED
        BY <3>1, <3>2, <3>3, <3>4, <3>5 DEF AccountsAreWhole
    <2>10. SessionsAreOfTheirAccount'
      BY <1>2, <2>4, <2>5, <2>7 DEF IInv, SessionsAreOfTheirAccount
    <2> QED
      BY <2>6, <2>8, <2>9, <2>10 DEF RowInv
  <1> QED
    BY <1>6, <1>7

(* A worker inserts a user whose names nobody has.                         *)
LEMMA InsertDemoKeeps ==
  ASSUME IInv, NEW r \in Actors, InsertDemo(r)
  PROVE  RowInv'
  <1> USE NoneAssumption, NoAnswerAssumption DEF Answers
  <1>1. /\ r \in Workers /\ r \in UserIds /\ r \notin Callbacks /\ answer[r] = None
    BY OneKindAssumption DEF InsertDemo, IInv, StepsOK, UserIds
  <1>2. UNCHANGED <<identities, sessions, expired, asked, jar>>
    BY DEF InsertDemo, clock, local
  <1>3. \A u \in DOMAIN users : u # Earlier => u \in Actors /\ answer[u] # None
    BY DEF IInv, RowsOK, TypeOK, UserIds, Actors, Requests
  <1>4. CASE UNCHANGED users
    <2>1. Quiet
      BY <1>1, <1>2, <1>4 DEF InsertDemo, Reply, Quiet, IInv, TypeOK
    <2> QED
      BY <1>2, <2>1, QuietKeeps, QuietKeepsCookies DEF RowInv
  <1>5. CASE users' # users
    <2>1. /\ users' = With(users, r, DemoUser) /\ answer' = [answer EXCEPT ![r] = "started"]
          /\ ~Taken("login", DemoUser.login) /\ ~Taken("email", DemoUser.email)
      BY <1>5 DEF InsertDemo, Reply
    <2>2. DemoUser \in [login : LoginNames, email : EmailNames]
      BY DEF DemoUser, LoginNames, EmailNames
    <2>3. /\ DOMAIN users' = DOMAIN users \cup {r} /\ users'[r] = DemoUser
          /\ \A u \in DOMAIN users : u # r => users'[u] = users[u]
      BY <1>1, <2>1, <2>2, InsertUserOK DEF IInv
    <2>4. answer'[r] = "started" /\ \A q \in Actors : q # r => answer'[q] = answer[q]
      BY <2>1 DEF IInv, TypeOK
    <2>5. \A q \in Actors : answer[q] = "signed_in" <=> answer'[q] = "signed_in"
      BY <1>1, <2>4
    <2>6. \A q \in Actors : Ended(q)' <=> Ended(q)
      BY <1>1, <2>4 DEF Ended
    <2>7. /\ Tokens \subseteq Actors /\ DOMAIN sessions \subseteq Tokens /\ jar \in Tokens \cup {None}
          /\ \A q \in Actors : asked[q].cookie \in Tokens \cup {None}
      BY DEF IInv, TypeOK, Tokens, Actors, Requests
    <2>8. CookiesOK'
      BY <1>2, <2>5, <2>7 DEF IInv, CookiesOK
    <2>9. RowsOK'
      BY <1>2, <1>3, <2>3, <2>4, <2>5, <2>7, <1>1 DEF IInv, RowsOK
    <2>10. AccountsAreWhole'
      <3>1. \A u \in DOMAIN users : users[u].login # DemoUser.login /\ users[u].email # DemoUser.email
        BY <2>1 DEF Taken
      <3>2. \A u, v \in DOMAIN users' :
              u # v => users'[u].login # users'[v].login /\ users'[u].email # users'[v].email
        BY <2>3, <3>1 DEF IInv, AccountsAreWhole
      <3> QED
        BY <1>1, <1>2, <2>3, <3>2 DEF IInv, AccountsAreWhole
    <2>11. SessionsAreOfTheirAccount'
      BY <1>2 DEF IInv, SessionsAreOfTheirAccount
    <2>12. PresentedSessionsAreOver' /\ SessionsEndForAReason'
      BY <1>2, <2>5, <2>6, <2>7 DEF IInv, PresentedSessionsAreOver, SessionsEndForAReason
    <2> QED
      BY <2>8, <2>9, <2>10, <2>11, <2>12 DEF RowInv
  <1> QED
    BY <1>4, <1>5

(* The browser learns of a session, or forgets it.                         *)
LEMMA ArriveKeeps ==
  ASSUME IInv, NEW r \in Actors, Arrive(r)
  PROVE  RowInv'
  <1>1. Quiet /\ UNCHANGED answer
    BY DEF Arrive, Quiet, rows, clock, local
  <1>2. jar' = jar \/ jar' = None \/ (jar' = r /\ answer[r] = "signed_in")
    BY DEF Arrive
  <1>3. CookiesOK'
    BY <1>1, <1>2 DEF IInv, CookiesOK, Quiet
  <1> QED
    BY <1>1, <1>3, QuietKeeps DEF RowInv
-----------------------------------------------------------------------------
(* Rows and cookies, action by action.                                     *)
LEMMA ActorStep ==
  ASSUME IInv, NEW r \in Actors,
         Routed(r) \/ Returns(r) \/ TurnedAway(r) \/ LookForDemo(r) \/ Handle(r) \/ Lose(r)
  PROVE  RowInv'
  <1>1. CASE Routed(r) \/ Returns(r)
    BY <1>1, SendKeeps DEF Routed, Returns
  <1>2. CASE \/ TurnedAway(r) \/ LookForDemo(r) \/ Find(r) \/ RefreshSession(r) \/ Verify(r)
             \/ InsertState(r) \/ CheckState(r) \/ Consume(r) \/ Exchange(r) \/ Admit(r)
             \/ SelectIdentity(r) \/ ChooseLogin(r) \/ ChooseEmail(r) \/ Conflict(r) \/ Busy(r)
             \/ Lose(r)
    <2>1. Quiet /\ UNCHANGED jar
      BY <1>2, QuietSteps
    <2> QED
      BY <2>1, QuietKeeps, QuietKeepsCookies DEF RowInv
  <1>3. CASE Purge(r)
    <2>1. answer[r] = None /\ asked[r].cookie \in expired
      BY <1>3 DEF Purge, IInv, StepsOK, DataOK
    <2>2. /\ sessions' = Without(sessions, asked[r].cookie)
          /\ UNCHANGED <<users, identities, expired, asked, jar>>
          /\ answer' = [answer EXCEPT ![r] = "refused"]
      BY <1>3 DEF Purge, Reply, clock, local
    <2> QED
      BY <2>1, <2>2, RemoveKeeps DEF Answers
  <1>4. CASE EndSession(r) \/ Reselect(r)
    <2>1. answer[r] = None /\ r \in Logouts
      BY <1>4 DEF EndSession, Reselect, IInv, StepsOK
    <2>2. UNCHANGED <<users, identities, expired, asked, jar>>
      BY <1>4 DEF EndSession, Reselect, clock, local, rows
    <2>3. CASE UNCHANGED <<sessions, answer>>
      <3>1. Quiet
        BY <2>2, <2>3 DEF Quiet
      <3> QED
        BY <2>2, <3>1, QuietKeeps, QuietKeepsCookies DEF RowInv
    <2>4. CASE /\ answer' = [answer EXCEPT ![r] = "signed_out"]
               /\ \/ sessions' = Without(sessions, asked[r].cookie)
                  \/ (asked[r].cookie \notin DOMAIN sessions /\ UNCHANGED sessions)
      <3>1. Ended(r)'
        BY <2>1, <2>4 DEF Ended, IInv, TypeOK
      <3> QED
        BY <2>1, <2>2, <2>4, <3>1, RemoveKeeps DEF Answers
    <2> QED
      BY <1>4, <2>3, <2>4 DEF EndSession, Reselect, Reply, Goto, rows
  <1>5. CASE InsertSession(r)
    BY <1>5, InsertSessionKeeps
  <1>6. CASE SignIn(r)
    BY <1>6, SignInKeeps
  <1>7. CASE InsertDemo(r)
    BY <1>7, InsertDemoKeeps
  <1>8. CASE Arrive(r)
    BY <1>8, ArriveKeeps
  <1> QED
    BY <1>1, <1>2, <1>3, <1>4, <1>5, <1>6, <1>7, <1>8 DEF Handle

(* Every step keeps the invariant.                                         *)
LEMMA NextIInv == IInv /\ [Next]_vars => IInv'
  <1> SUFFICES ASSUME IInv, [Next]_vars PROVE IInv'
    OBVIOUS
  <1>1. CASE UNCHANGED vars
    BY <1>1 DEF IInv, vars, TypeOK, StepsOK, DataOK, CookiesOK, RowsOK, AccountsAreWhole,
       SessionsAreOfTheirAccount, PresentedSessionsAreOver, SessionsEndForAReason, Ended
  <1>2. CASE Expire \/ Age
    <2>1. Quiet /\ UNCHANGED jar
      BY <1>2 DEF Expire, Age, Quiet, rows, local
    <2>2. RowInv'
      BY <2>1, QuietKeeps, QuietKeepsCookies DEF RowInv
    <2>3. TypeOK' /\ StepsOK' /\ DataOK'
      BY <1>2 DEF Expire, Age, IInv, TypeOK, StepsOK, DataOK, rows, flow, local
    <2> QED
      BY <2>2, <2>3 DEF IInv, RowInv
  <1>3. CASE \E r \in Actors :
               Routed(r) \/ Returns(r) \/ TurnedAway(r) \/ LookForDemo(r) \/ Handle(r) \/ Lose(r)
    BY <1>3, LocalStep, ActorStep DEF IInv, RowInv
  <1> QED
    BY <1>1, <1>2, <1>3 DEF Next

(* The parts of IInv need each other: a token is new when its session is  *)
(* made because no cookie and no row names an unanswered request, and a    *)
(* user is there for it because what the request has read stays there.     *)
THEOREM Invariance == Spec => []IInv
  BY InitIInv, NextIInv, PTL DEF Spec
-----------------------------------------------------------------------------
(* For every set of requests, workers and GitHub accounts the rows, the    *)
(* awaits and the answers keep their types; in particular a request that   *)
(* consumes a state has one, and no start of a worker makes a session.     *)
THEOREM TypeCorrect == Spec => []TypeOK
  BY Invariance, PTL DEF IInv

(* However sign-ins, starting workers, busy timeouts and lost connections  *)
(* interleave, users, identities and sessions fit together.                *)
THEOREM AccountsStayWhole == Spec => []AccountsAreWhole
  BY Invariance, PTL DEF IInv

(* A session that a callback opened is of the user with the identity that  *)
(* GitHub authorized, whatever logins and emails the accounts have.        *)
THEOREM SessionsStayWithTheirAccount == Spec => []SessionsAreOfTheirAccount
  BY Invariance, PTL DEF IInv

(* The session presented to a sign-out or a sign-in that was answered does *)
(* not come back, whatever other requests had found it.                    *)
THEOREM PresentedSessionsStayOver == Spec => []PresentedSessionsAreOver
  BY Invariance, PTL DEF IInv

(* No session ends but by the requests that present it or by its time.     *)
THEOREM SessionsEndWithReason == Spec => []SessionsEndForAReason
  BY Invariance, PTL DEF IInv
-----------------------------------------------------------------------------
(* A callback that is past its state has consumed it.                      *)
PastOK == \A d \in Callbacks : PastState(d) => asked[d].state \in consumed

(* What an actor's step does to the states and to the other actors.        *)
Owns(r) ==
  /\ consumed \subseteq consumed'
  /\ \A q \in Actors :
       q # r => step'[q] = step[q] /\ answer'[q] = answer[q] /\ asked'[q] = asked[q]
  /\ r \in Callbacks /\ PastState(r)' =>
       asked'[r] = asked[r] /\ (PastState(r) \/ asked[r].state \in consumed')
  /\ r \in Callbacks /\ step[r] = "state" /\ step'[r] = "consume" =>
       asked[r].state \notin consumed

LEMMA OwnStep ==
  ASSUME IInv, NEW r \in Actors,
         Routed(r) \/ Returns(r) \/ TurnedAway(r) \/ LookForDemo(r) \/ Handle(r) \/ Lose(r)
  PROVE  Owns(r)
  <1> USE DEF Owns, PastState, Goto, Reply, Load, rows, clock, flow, local
  <1>0. /\ step \in [Actors -> Steps] /\ answer \in [Actors -> Answers \cup {None}]
        /\ asked = [q \in Actors |-> asked[q]]
        /\ step[r] \notin {"reply", "done", "lost"} => answer[r] = None
        /\ step[r] = "insert" => r \notin Callbacks
        /\ None \notin Answers
    BY NoAnswerAssumption, OneKindAssumption DEF IInv, TypeOK, StepsOK
  <1>1. CASE Routed(r) \/ Returns(r)
    <2>1. ASSUME NEW first \in {"find", "verify", "insert", "state"},
                 NEW csrf, NEW state, NEW person, Send(r, first, csrf, state, person)
          PROVE  Owns(r)
      BY <1>0, <2>1 DEF Send, Answers
    <2>2. CASE Routed(r)
      BY <2>1, <2>2 DEF Routed
    <2>3. CASE Returns(r)
      BY <2>1, <2>3 DEF Returns
    <2> QED
      BY <1>1, <2>2, <2>3
  <1>2. CASE TurnedAway(r) \/ LookForDemo(r)
    BY <1>0, <1>2 DEF TurnedAway, LookForDemo
  <1>3. CASE Find(r) \/ Purge(r) \/ RefreshSession(r) \/ Reselect(r) \/ EndSession(r)
    BY <1>0, <1>3 DEF Find, Purge, RefreshSession, Reselect, EndSession
  <1>4. CASE Verify(r) \/ InsertSession(r) \/ InsertState(r)
    BY <1>0, <1>4 DEF Verify, InsertSession, InsertState, Rotate
  <1>5. CASE CheckState(r)
    BY <1>0, <1>5 DEF CheckState
  <1>6. CASE Consume(r)
    BY <1>0, <1>6 DEF Consume
  <1>7. CASE Exchange(r) \/ Admit(r)
    BY <1>0, <1>7 DEF Exchange, Admit
  <1>8. CASE SelectIdentity(r) \/ ChooseLogin(r) \/ ChooseEmail(r)
    BY <1>0, <1>8 DEF SelectIdentity, ChooseLogin, ChooseEmail
  <1>9. CASE SignIn(r) \/ Conflict(r)
    BY <1>0, <1>9 DEF SignIn, Conflict
  <1>10. CASE InsertDemo(r) \/ Busy(r)
    BY <1>0, <1>10 DEF InsertDemo, Busy
  <1>11. CASE Arrive(r) \/ Lose(r)
    BY <1>0, <1>11 DEF Arrive, Lose
  <1> QED
    BY <1>1, <1>2, <1>3, <1>4, <1>5, <1>6, <1>7, <1>8, <1>9, <1>10, <1>11 DEF Handle

LEMMA NextOwned ==
  ASSUME IInv, Next
  PROVE  \/ UNCHANGED <<consumed, step, answer, asked>>
         \/ \E r \in Actors : Owns(r)
  BY OwnStep DEF Next, Expire, Age, flow, local

LEMMA NextPastOK == IInv /\ PastOK /\ [Next]_vars => PastOK'
  <1> SUFFICES ASSUME IInv, PastOK, [Next]_vars PROVE PastOK'
    OBVIOUS
  <1>1. CASE UNCHANGED <<consumed, step, answer, asked>>
    BY <1>1 DEF PastOK, PastState
  <1>2. ASSUME NEW r \in Actors, Owns(r) PROVE PastOK'
    <2> SUFFICES ASSUME NEW d \in Callbacks, PastState(d)'
                 PROVE  asked'[d].state \in consumed'
      BY DEF PastOK, PastState
    <2>1. CASE d = r
      BY <1>2, <2>1 DEF PastOK, Owns
    <2>2. CASE d # r
      <3>1. d \in Actors
        BY DEF Actors, Requests
      <3> QED
        BY <1>2, <2>2, <3>1 DEF PastOK, PastState, Owns
    <2> QED
      BY <2>1, <2>2
  <1> QED
    BY <1>1, <1>2, NextOwned DEF vars, flow, local

(* However many callbacks bring it, a state lets none through any more     *)
(* once one of them is past its consumption.                               *)
THEOREM StateStaysTakenOnce == Spec => StateIsTakenOnce
  <1>1. Init => PastOK
    BY NoneAssumption, NoAnswerAssumption DEF Init, PastOK, PastState, Actors, Requests, Answers
  <1>2. IInv /\ PastOK /\ [Next]_vars =>
          [\A c, d \in Callbacks :
             c # d /\ asked[c].state = asked[d].state /\ PastState(d) /\ step[c] = "state"
               => step'[c] # "consume"]_vars
    <2> SUFFICES ASSUME IInv, PastOK, Next, NEW c \in Callbacks, NEW d \in Callbacks,
                        asked[c].state = asked[d].state, PastState(d), step[c] = "state"
                 PROVE  step'[c] # "consume"
      OBVIOUS
    <2>1. c \in Actors /\ asked[c].state \in consumed
      BY DEF PastOK, Actors, Requests
    <2>2. ASSUME NEW r \in Actors, Owns(r) PROVE step'[c] # "consume"
      BY <2>1, <2>2 DEF Owns
    <2> QED
      BY <2>2, NextOwned
  <1> QED
    BY <1>1, <1>2, NextPastOK, Invariance, PTL DEF Spec, StateIsTakenOnce
=============================================================================
