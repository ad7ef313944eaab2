------------------------------ MODULE MCRouter ------------------------------
(* A small instance of Router for TLC. *)
EXTENDS Router

Line(names) == [comment |-> FALSE, whitelist |-> FALSE, names |-> names]
Comment == [comment |-> TRUE, whitelist |-> FALSE, names |-> {<<"d", "com">>}]
Whitelist == [comment |-> TRUE, whitelist |-> TRUE, names |-> {}]

\* A list with a whitelist, one in which a comment and a lone label name
\* something, one that names a subdomain in capitals.
MCLists ==
    { <<>>,
      <<Line({<<"b", "com">>}), Whitelist, Line({<<"c", "com">>})>>,
      <<Comment, Line({<<"com">>, <<"c", "com">>}), Line({<<"b", "com">>})>>,
      <<Line({<<"A", "b", "com">>})>> }

MCLower ==
    [l \in {"a", "A", "b", "B", "c", "d", "com"} |->
        IF l = "A" THEN "a" ELSE IF l = "B" THEN "b" ELSE l]

MCDomains ==
    { <<"com">>, <<"b", "com">>, <<"a", "B", "com">>, <<"A", "a", "b", "com">>,
      <<"c", "com">>, <<"a", "c", "com">>, <<"d", "com">> }
=============================================================================
