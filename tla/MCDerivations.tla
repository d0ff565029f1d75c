---------------------------- MODULE MCDerivations ----------------------------
EXTENDS Derivations

CONSTANTS p1, p2, v11, v12, v21, v22

-----------------------------------------------------------------------------
(* Two physical functions with two virtual ones each, at 0:0:0.0 and        *)
(* 0:1:0.0; the virtual functions have one product, as those of one card.   *)
MCPfs == {p1, p2}
MCVfs == {v11, v12, v21, v22}
MCVfOf == v11 :> p1 @@ v12 :> p1 @@ v21 :> p2 @@ v22 :> p2
At(b, f) == [domain |-> 0, bus |-> b, slot |-> 0, function |-> f]
MCAddress == p1 :> At(0, 0) @@ v11 :> At(0, 1) @@ v12 :> At(0, 2)
          @@ p2 :> At(1, 0) @@ v21 :> At(1, 1) @@ v22 :> At(1, 2)
MCTop == [domain |-> 0, bus |-> 1, slot |-> 0, function |-> 2]
MCPfId == p1 :> "pfA" @@ p2 :> "pfB"
MCVfId == p1 :> "vfA" @@ p2 :> "vfA"

Texts == [form : {"text"}, function : {AnyValue, 0, 1, 2, 3},
          left : {<<>>, <<0>>, <<0, 0>>, <<1, 0>>, <<AnyValue, 0>>, <<0, 1, 0>>, <<2, 0>>, <<0, 0, 0, 0>>}]
Dict(b, f) == [form |-> "dict", fields |-> [domain |-> {AnyValue}, bus |-> b, slot |-> {0}, function |-> f]]
Dicts == {Dict(b, f) : b \in {{0}, {0, 1}, {1}}, f \in {{0}, {1}, {2}, {0, 1}, {1, 2}, {0, 1, 2}}}
NoAddress == [form |-> "none"]

User(a, p, d, n) == [address |-> a, product |-> p, devname |-> d, network |-> n]
Users == {User(a, p, Unset, p1) : a \in Texts \cup Dicts \cup {NoAddress},
                                  p \in {Unset, "pfA", "pfB", "vfA", "other"}}
    \cup {User(a, Unset, d, n) : a \in {NoAddress, Exactly(p1)}, d \in {Unset, p1, p2}, n \in {p1, p2, Unset}}
Pairs == {{User(Dict({0, 1}, {0, 1, 2}), Unset, Unset, p1), User(NoAddress, Unset, d, n)} :
            d \in {Unset, p1, p2}, n \in {p2, Unset}}

MCPciQuestions == [users : {{u} : u \in Users} \cup Pairs, listed : SUBSET MCPfs, host : SUBSET MCVfs]

-----------------------------------------------------------------------------
(* Three containers, one of them with a name that another's begins with.    *)
MCNames == {"nova", "nova_compute", "ovn"}
MCMatchedBy == "nova" :> {"nova", "nova_compute"} @@ "nova_compute" :> {"nova_compute"} @@ "ovn" :> {"ovn"}

Definitions == [restart : {NoKey, "always", "no"}]
Configs == UNION {[d -> Definitions] : d \in SUBSET MCNames}
Override == [key : MCNames, set : [restart : {"always", "no"}]]
Overrides == {<<>>} \cup {<<o>> : o \in Override} \cup {<<o, u>> : o, u \in Override}

Container(labels, id, ceph) == [labels |-> labels, config_id |-> id, ceph |-> ceph]
Full == {"managed_by", "config_data"}
Nodes == UNION {[d -> {Container({}, "none", FALSE), Container(Full, "edpm", FALSE),
                       Container(Full, "edpm", TRUE), Container(Full, "other", FALSE),
                       Container({"managed_by"}, "edpm", FALSE), Container({"config_data"}, "edpm", FALSE)}] :
                 d \in SUBSET {"nova_compute", "ovn"}}
Deployed == "nova" :> Container(Full, "edpm", FALSE) @@ "ovn" :> Container(Full, "other", FALSE)

MCPlanQuestions ==
  [configs : Configs, overrides : Overrides, containers : SUBSET MCNames, installed : {Deployed}, config_id : {"edpm"}]
  \cup
  [configs : Configs, overrides : {<<>>}, containers : SUBSET MCNames, installed : Nodes, config_id : {"edpm"}]

-----------------------------------------------------------------------------
(* Two services in a shared namespace, one of its own, a file alone.        *)
MCShared == {"certs", "config"}
MCDot == {".h"}
MCGlobOrder == <<<<"certs", "nova", "default", "ca">>, <<"certs", "ovn", "key">>, <<"config", "flat">>,
                 <<"config", "ceph", "k">>, <<"nova", ".h">>, <<"nova", "a">>, <<"nova", "d", "b">>, <<"solo">>>>
Volumes == {<<"certs", "nova", "default">>, <<"certs", "nova", "default", "ca">>, <<"config">>, <<"config", "flat">>,
            <<"config", "ceph">>, <<"nova">>, <<"nova", "a">>, <<"nova", "d">>, <<"solo">>, <<>>, NotBelow}

Contents == {<<>>, <<1>>, <<1, 2>>}
Files(p, c) == [f \in {MCGlobOrder[i] : i \in 1..Len(MCGlobOrder)} |-> IF f = p THEN c ELSE <<1>>]

MCHashQuestions ==
  {[startup |-> [volumes |-> {v, w}, exclusions |-> x, hash |-> <<>>],
    path |-> p, differs |-> c # d, files |-> Files(p, c), edited |-> Files(p, d)] :
      v, w \in Volumes, x \in {{}, {<<"a">>}}, p \in {MCGlobOrder[i] : i \in 1..Len(MCGlobOrder)},
      c \in {<<1>>, <<2>>}, d \in Contents}

-----------------------------------------------------------------------------
(* Up to four events in any order, one of them the statistics; a second and *)
(* older run next to it.                                                    *)
Event(e, c, h) == [event |-> e, counter |-> c, hosts |-> h]
Task(c) == Event("task", c, NoStats)
Hosts == {"h1", "h2", "h3"}
Stats == {Event("playbook_on_stats", c, [processed |-> Hosts, failures |-> f, dark |-> d]) :
            c \in {2, 3, Bad}, f \in {{}, {"h1"}}, d \in {{}, {"h1"}, {"h2"}, {"h2", "h3"}}}
Listings == {<<>>, <<Absent>>, <<Task(1), Task(0)>>}
       \cup UNION {{<<s, Task(1), Absent, Task(4)>>, <<Task(4), Absent, s, Task(1)>>,
                    <<Task(1), s, Task(Bad)>>, <<s, Task(1)>>} : s \in Stats}
Older == [mtime |-> 1, status |-> "successful", events |-> <<Task(9)>>]
MCRunQuestions ==
  {{}} \cup {{[mtime |-> 2, status |-> t, events |-> l]} \cup o :
               t \in {"successful", "failed", Absent}, l \in Listings, o \in {{}, {Older}}}
=============================================================================
