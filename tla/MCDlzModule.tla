---------------------------- MODULE MCDlzModule ----------------------------
(* TLC instances of DlzModule: a name, its parent and its grandparent. *)
EXTENDS DlzModule

Chain == {<<"ex">>, <<"www", "ex">>, <<"a", "www", "ex">>}
Ends == {<<"ex">>, <<"a", "www", "ex">>}
Pair == {<<"ex">>, <<"www", "ex">>}
=============================================================================
