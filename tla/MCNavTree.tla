----------------------------- MODULE MCNavTree -----------------------------
(***************************************************************************)
(* The tree of a page "p" with an anchor, whose node comes by a script,    *)
(* below the node of the first page; two index files, the second of which  *)
(* begins with the anchor.  "#z" sorts into it but is not in it, and its   *)
(* page is not either; "#0" sorts into the first file, with its page; and  *)
(* the page "a" sorts before everything.                                   *)
(***************************************************************************)
EXTENDS NavTree, TLC
CONSTANTS top, first, page, anchor

MCNode == {top, first, page, anchor}
MCChildren == top :> <<first>> @@ first :> <<page>> @@ page :> <<anchor>> @@ anchor :> <<>>
MCUrl == top :> <<"none", "">> @@ first :> <<"index", "">> @@ page :> <<"p", "">>
           @@ anchor :> <<"p", "#a">>
MCBreadcrumbs == <<0, <<"index", "">>>> :> <<>> @@ <<0, <<"p", "">>>> :> <<1>>
                   @@ <<1, <<"p", "#a">>>> :> <<1, 1>>
MCHashes == {"", "#a", "#l1", "#z"}
MCIndexFile == [url \in {"a", "index", "p"} \X (MCHashes \cup {"#0"}) |->
                  CASE url[1] = "a" -> -1
                    [] url \in {<<"p", "#a">>, <<"p", "#l1">>, <<"p", "#z">>} -> 1
                    [] OTHER -> 0]
MCKeptLinks == {<<"index", "">>, <<"a", "">>, <<"p", "#0">>}
=============================================================================
