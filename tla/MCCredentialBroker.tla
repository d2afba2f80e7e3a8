-------------------------- MODULE MCCredentialBroker --------------------------
(***************************************************************************)
(* Instances of CredentialBroker for TLC.  A request issues one pair at    *)
(* most, so that the requests bound the pairs.                             *)
(***************************************************************************)
EXTENDS CredentialBroker, TLC

CONSTANTS r1, r2, c1, c2

(* Two reads beside a callback, or two callbacks.                          *)
BothCrowds == {{r1, r2, c1}, {c1, c2}}
ReadersOnly == {{r1, r2}}
=============================================================================
