------------------------- MODULE IdempotentCommands --------------------------
(***************************************************************************)
(* What an Idempotency-Key promises (docs/architecture-and-adapters.md,    *)
(* "Idempotent commands"), without transactions, rows or requests that are *)
(* half way: a command is named by its scope and key, it is performed at   *)
(* most once, and whoever asks for it again with the same payload is told  *)
(* the result of that one performance.  Nothing is promised to a request   *)
(* that is refused or whose server stops: it may never be told anything.   *)
(***************************************************************************)
CONSTANTS Requests, Names, Hashes, Results,
          Shared,   \* results two commands may have in common
          None

VARIABLES asked,    \* the name and payload hash of each request's command
          done,     \* name -> hash and result, defined on what was performed
          told      \* the result each request was told, or None

vars == <<asked, done, told>>

Init ==
  /\ asked = [r \in Requests |-> None]
  /\ done = [n \in {} |-> None]
  /\ told = [r \in Requests |-> None]

Ask(r) ==
  /\ asked[r] = None
  /\ asked' = [asked EXCEPT ![r] = asked'[r]]
  /\ asked'[r] \in [name : Names, hash : Hashes]
  /\ UNCHANGED <<done, told>>

(* The command is performed, with a result of its own unless it is of the  *)
(* kind that several commands may share.                                   *)
Perform(r) ==
  LET name == asked[r].name IN
  /\ asked[r] # None
  /\ told[r] = None
  /\ name \notin DOMAIN done
  /\ DOMAIN done' = DOMAIN done \cup {name}
  /\ done' = [n \in DOMAIN done' |-> IF n = name THEN done'[n] ELSE done[n]]
  /\ done'[name] \in [hash : {asked[r].hash}, response : Results]
  /\ \A n \in DOMAIN done :
       done[n].response = done'[name].response => done[n].response \in Shared
  /\ UNCHANGED <<asked, told>>

Tell(r) ==
  /\ asked[r] # None
  /\ told[r] = None
  /\ asked[r].name \in DOMAIN done
  /\ asked[r].hash = done[asked[r].name].hash
  /\ told' = [told EXCEPT ![r] = done[asked[r].name].response]
  /\ UNCHANGED <<asked, done>>

Next == \E r \in Requests : Ask(r) \/ Perform(r) \/ Tell(r)

Spec == Init /\ [][Next]_vars
=============================================================================
