--------------------------- MODULE MCCollaboration ---------------------------
(***************************************************************************)
(* Instances of Collaboration for TLC.  Each set of commands is a workload *)
(* of duplicates, conflicting writes and retries on the seeded issue 1 and *)
(* pull request 2.                                                         *)
(***************************************************************************)
EXTENDS Collaboration, TLC

Do(op, user, target, key, body, ifMatch) ==
  [op |-> op, user |-> user, target |-> target, key |-> key, body |-> body,
   ifMatch |-> ifMatch]

(* Creation under keys that are reused, with the same payload and another. *)
Creations ==
  { Do("createIssue", "ann", 0, "k1", "open", 0),
    Do("createIssue", "ann", 0, "k1", "closed", 0),
    Do("createIssue", "ann", 0, "k2", "open", 0),
    Do("createIssue", "ann", 0, "k2", "untitled", 0),
    Do("createPull", "ann", 0, "k1", "text", 0),
    Do("createIssue", "guest", 0, "k1", "open", 0),
    Do("comment", "ann", 1, "k1", "text", 0),
    Do("comment", "ann", 1, "k2", "text", 0),
    Do("comment", "ann", 2, "k1", "text", 0) }

(* Everything that writes pull request 2.                                  *)
PullWrites ==
  { Do("review", "ann", 2, "k1", "approve", 0),
    Do("review", "ann", 2, "k2", "request_changes", 0),
    Do("merge", "ann", 2, "k1", "merge", 0),
    Do("merge", "ann", 2, "k1", "squash", 0),
    Do("merge", "ann", 2, "k2", "staleHead", 0),
    Do("updatePull", "ann", 2, "k1", "closed", 1),
    Do("updatePull", "ann", 2, "k1", "open", 2) }

(* Everything that writes issue 1.                                         *)
IssueWrites ==
  { Do("comment", "ann", 1, "k1", "text", 0),
    Do("comment", "ann", 1, "k2", "text", 0),
    Do("updateIssue", "ann", 1, "k1", "title", 1),
    Do("updateIssue", "ann", 1, "k1", "closed", 1),
    Do("updateIssue", "ann", 1, "k1", "open", 2),
    Do("updateIssue", "ann", 1, "k1", "null", 2) }

AllWrites == Creations \cup PullWrites \cup IssueWrites
Writes == PullWrites \cup IssueWrites

MCUsers == {"ann", "guest"}
MCWriters == {"ann"}
MCKeys == {"k1", "k2"}

Symmetry == Permutations(Requests)
=============================================================================
