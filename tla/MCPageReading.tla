---------------------------- MODULE MCPageReading ----------------------------
(* Four links on three hosts: "b" redirects to the page "a", "d" to itself  *)
(* by way of "e", a loop the reader gives up on.                            *)
EXTENDS PageReading

MCLocation == [u \in Urls |-> CASE u = "b" -> "a" [] u = "d" -> "e" [] u = "e" -> "d" [] OTHER -> u]
MCHostOf == [u \in Urls |-> CASE u \in {"a", "b"} -> "h1" [] u = "c" -> "h2" [] OTHER -> "h3"]
MCResultLists == {<<"b", "a">>, <<"c", "a", "d">>}
==============================================================================
