---------------------------- MODULE MCSearchBox ----------------------------
(***************************************************************************)
(* A documentation with two filters, whose label can be typed.  As in the  *)
(* repository's pages, two rows of one page have the same name and only    *)
(* the second one has several targets.  The text "dd" hides the first two  *)
(* rows and the last one.                                                  *)
(***************************************************************************)
EXTENDS SearchBox

MCSections == 0 :> <<"d">> @@ 1 :> <<"s">>

MCLabel == <<"d">>

Entry(name, targets) == [name |-> name, targets |-> targets]

MCData ==
  NoMatches :> <<>>
  @@ <<0, "d">> :> <<Entry(<<"d">>, 1), Entry(<<"d">>, 2), Entry(<<"d", "d">>, 2),
                   Entry(<<"d", "d", "_">>, 1), Entry(<<"d", "_">>, 1)>>
  @@ <<1, "s">> :> <<Entry(<<"s">>, 1)>>

MCEscapes == "_" :> <<"_", "5", "f">> @@ Blank :> <<"_", "2", "0">>
=============================================================================
