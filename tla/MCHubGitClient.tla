---------------------------- MODULE MCHubGitClient ----------------------------
(* HubGitClient for TLC, with four branches to ask for: a plain one, one with *)
(* a slash, one with two and one with a character that ends the path of a URL.*)
EXTENDS HubGitClient

MCRefs == {<<"main">>, <<"feature", "/", "x">>, <<"a", "/", "b", "/", "c">>, <<"fix", "#", "12">>}
=============================================================================
