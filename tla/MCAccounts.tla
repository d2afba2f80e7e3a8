----------------------------- MODULE MCAccounts -----------------------------
(***************************************************************************)
(* The instance of Accounts for TLC: two GitHub accounts, of which one has *)
(* taken a login that the other had before, that of the demo user too, and *)
(* shows no email.                                                         *)
(***************************************************************************)
EXTENDS Accounts, TLC

CONSTANTS p1, p2, s1, c1, c2, l1, l2, o1, v1, w1, w2

MCPeople == {p1, p2}
MCLoginOf == p1 :> "demo" @@ p2 :> "demo"
MCEmailOf == p1 :> "p1@example.test" @@ p2 :> None
MCDemo == [login |-> "demo", email |-> "demo@example.test"]

(* Sign-ins at GitHub beside a sign-out, the start of a worker or a page;  *)
(* passwords beside a sign-out and a page; workers beside a login.         *)
MCCrowds == {{s1, c1, c2, o1}, {s1, c1, c2, w1}, {s1, c1, v1, o1},
             {l1, l2, o1, v1}, {w1, w2, l1, o1}}
=============================================================================
