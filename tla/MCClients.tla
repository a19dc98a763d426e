----------------------------- MODULE MCClients ------------------------------
(* Two shells, three aliases of two daemons, one group.                      *)
EXTENDS Clients, TLC

CONSTANTS s1, s2, a1, a2, a3, g1, n1, n2, v1, v2

Add(a, n) == [op |-> "add", a |-> a, n |-> n]
On(op, a) == [op |-> op, a |-> a]
Grp(op, as) == [op |-> op, g |-> g1, as |-> as]
Fan == [op |-> "group", g |-> g1]
List(r) == [op |-> "list", refresh |-> r]
Relay(u, x) == [op |-> "relay", url |-> u, secret |-> x]
Two(x, y) == s1 :> x @@ s2 :> y

Base == [tgt |-> (a1 :> n1 @@ a2 :> n2 @@ a3 :> None), grp |-> [g \in Groups |-> None],
         url |-> v1, secret |-> v1]
Scn(c, x, y, u) == [script |-> Two(x, y), cfg |-> c, upgrade |-> u]

\* Commands that change config.json, at the same time.
Gdelete == [op |-> "gdelete", g |-> g1]
ScriptsA == {<<Add(a3, n1), Grp("gcreate", <<a1, a3>>), Fan>>, <<Relay(v2, v2), Grp("gadd", <<a2, a1>>)>>,
             <<Grp("gremove", <<a1>>), Fan, Gdelete>>, <<On("remove", a2), Grp("gcreate", <<a2>>), Add(a2, n1)>>}
ScriptsB == {<<On("remove", a1), Relay(None, v2)>>, <<Relay(v2, None), Grp("gadd", <<a2>>)>>,
             <<Gdelete, Grp("gcreate", <<a2>>), Grp("gremove", <<a2>>)>>, <<On("remove", a2)>>,
             <<Fan, On("mcp_exec", a1), Add(a3, n2)>>}
Editing == {Scn([Base EXCEPT !.grp[g1] = g], x, y, FALSE) : x \in ScriptsA, y \in ScriptsB, g \in {None, <<a1>>, <<a3>>}}

\* list-targets while others ask, upgrade and change the targets.
Listing ==
  {Scn(Base, <<List(FALSE), List(TRUE)>>, <<On("exec", a1), On("exec", a1)>>, TRUE),
   Scn(Base, <<List(FALSE), List(TRUE)>>, <<Add(a3, n1), On("exec", a3)>>, TRUE),
   Scn(Base, <<List(FALSE), On("exec", a1)>>, <<Add(a1, n2), List(TRUE)>>, TRUE),
   Scn(Base, <<List(FALSE), On("exec", a2)>>, <<List(FALSE), On("remove", a2)>>, FALSE),
   Scn([Base EXCEPT !.grp[g1] = <<a1, a2>>], <<Fan, On("mcp_health", a1)>>, <<Fan, List(TRUE)>>, TRUE)}

All == Editing \cup Listing
=============================================================================
