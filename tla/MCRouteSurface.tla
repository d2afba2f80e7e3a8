----------------------------- MODULE MCRouteSurface -----------------------------
(***************************************************************************)
(* Instances of RouteSurface for TLC: a repository whose default branch is *)
(* one of two, or fixed.                                                   *)
(***************************************************************************)
EXTENDS RouteSurface

CONSTANTS main, trunk

Changing == {main, trunk}
Fixed == {main}
=============================================================================
