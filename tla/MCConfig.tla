------------------------------- MODULE MCConfig --------------------------------
(***************************************************************************)
(* Instance of ConfigLoader for TLC.                                       *)
(***************************************************************************)
EXTENDS ConfigLoader

X == <<"x">>
Y == <<"y">>
XY == <<"x", "_", "y">>
YStar == <<"y", "*">>
Star == <<"*">>
D == <<"d">>
E == <<"e">>

Limit == [unit |-> "SECOND", requestsPerUnit |-> 1, unlimited |-> FALSE, name |-> "",
          replaces |-> {}]
Unlimited == [Limit EXCEPT !.unlimited = TRUE, !.unit = "none"]
BadLimits == { [Limit EXCEPT !.unit = "UNKNOWN"], [Unlimited EXCEPT !.unit = "SECOND"],
               [Limit EXCEPT !.name = "n", !.replaces = {"n"}] }

Row(parent, key, value, rl) ==
    [parent |-> parent, key |-> key, value |-> value, rateLimit |-> rl,
     shadowMode |-> FALSE, detailedMetric |-> FALSE]

\* Blocks of rows a file may hold: a descriptor, some with one below it.
Blocks ==
    { <<Row(<<>>, X, Empty, Limit)>>,
      <<Row(<<>>, X, Y, Limit)>>,
      <<Row(<<>>, XY, Empty, Unlimited)>>,
      <<Row(<<>>, X, Star, Limit)>>,
      <<Row(<<>>, X, YStar, Limit)>>,
      <<Row(<<>>, X, Y, None), Row(<<XY>>, X, Y, Limit)>>,
      <<Row(<<>>, X, Empty, Limit), Row(<<X>>, X, Empty, Limit)>>,
      <<Row(<<>>, X, YStar, Limit), Row(<<X \o Sep \o YStar>>, Y, Star, Limit)>> }
    \cup { <<Row(<<>>, Y, Empty, rl)>> : rl \in BadLimits }
    \cup { <<Row(<<>>, Empty, Y, Limit)>> }

File(domain, rows) == [domain |-> domain, rows |-> rows, wellFormed |-> TRUE]

MCFileLists ==
    { <<File(D, b)>> : b \in Blocks }
    \cup { <<File(D, b \o c)>> : b, c \in Blocks }
    \cup { <<File(D, b), File(e, c)>> : b, c \in Blocks, e \in {D, E} }
    \cup { <<File(D, b), [File(E, b) EXCEPT !.wellFormed = FALSE]>> : b \in Blocks }
    \cup { <<File(Empty, b)>> : b \in Blocks }

Entries == [key : {X, Y, XY}, value : {Empty, Y, XY, <<"y", "x">>, Star}]
MCDescriptors ==
    [entries : {<<e>> : e \in Entries} \cup {<<e, f>> : e, f \in Entries}, limit : {None}]
    \cup [entries : {<<e>> : e \in Entries}, limit : {Limit}]
MCDomains == {D, E}
================================================================================
