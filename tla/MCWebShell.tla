------------------------------ MODULE MCWebShell ------------------------------
(***************************************************************************)
(* An instance of WebShell for TLC: a repository of the mock provider      *)
(* beside the demonstration, with a file and a folder.                     *)
(***************************************************************************)
EXTENDS WebShell

MCNames == {Demo, <<"demo", "hubgit-demo">>}
MCSpelled == (<<"Demo", "HubGit-Demo">> :> <<"demo", "hubgit-demo">>)
MCTree == {[path |-> <<"README.md">>, folder |-> FALSE], [path |-> <<"src">>, folder |-> TRUE]}
MCEntries == {Home, <<"login">>, <<"two-factor">>, <<"verify">>, <<"demo", "hubgit-demo">>, <<"Demo", "HubGit-Demo">>,
              <<"settings", "profile">>, navPath(<<"settings">>)}
=============================================================================
