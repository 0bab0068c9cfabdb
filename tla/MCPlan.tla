------------------------------- MODULE MCPlan -------------------------------
(***************************************************************************)
(* Instances of PlanRollout for TLC.                                       *)
(***************************************************************************)
EXTENDS PlanRollout

CONSTANTS a, b, c

Main   == <<"src", "main.py">>
Util   == <<"src", "lib", "util.py">>
Plugin == <<"ext.d", "plugin.py">>

MCFile == {Main, Util, Plugin}
MCName == {"src", "lib", "ext.d", "main.py", "util.py", "plugin.py"}

One(is, name) == {[names |-> {name}, is |-> is]}

\* Every shape, an entry of two names, and a directory that looks like a file.
Shapes == {One("file", Main), One("file", Util), One("dir", <<"src">>),
           One("dir", <<"src", "lib">>), One("glob", <<"src">>),
           One("glob", <<"src", "lib">>), One("file", <<"ext.d">>),
           {[names |-> {Main, Plugin}, is |-> "file"]}}
Simple == {One("file", Main), One("file", Util), One("file", Main) \cup One("file", Util)}

Row(files) == [status |-> "ready", groomed |-> TRUE, files |-> files, project |-> "home"]
Rows(choices) == {[i \in Item |-> Row(files[i])] : files \in [Item -> choices]}
Apart == {[i \in Item |-> Row(One("file", IF i = a THEN Main ELSE IF i = b THEN Util
                                           ELSE Plugin))]}

Pairs == {p \in Item \X Item : p[1] # p[2]}
Flaws == {Row(One("file", Main)), [Row({}) EXCEPT !.groomed = FALSE],
          [Row({}) EXCEPT !.status = "open"],
          [Row(One("file", Util)) EXCEPT !.project = "other"],
          [Row(One("file", Util)) EXCEPT !.status = "done"], Nil}

Quiet == [items |-> Apart, blockers |-> {{}}, configs |-> {TRUE},
          orders |-> {<<a, b>>}, edits |-> 0, deaths |-> 0,
          rows |-> {}, rewires |-> FALSE, deletes |-> FALSE]

\* Two items of any shapes, and one named twice.
Shaping == [Quiet EXCEPT !.items = Rows(Shapes), !.orders = {<<a, b>>}]
Naming  == [Quiet EXCEPT !.items = Rows(Simple), !.blockers = {{}, {<<b, a>>}},
                         !.orders = {<<>>, <<c>>, <<a, a>>, <<b, a, b>>}]

\* Three items, any blockers, cycles included.
Ordering == [Quiet EXCEPT !.items = Rows(Simple), !.blockers = SUBSET Pairs,
                          !.orders = {<<a, b, c>>}]

\* Items that break the rules.
Judging == [Quiet EXCEPT !.items = [Item -> Flaws],
                         !.blockers = {p \in SUBSET {<<a, c>>, <<b, a>>, <<b, c>>} : TRUE},
                         !.configs = BOOLEAN]

\* Edits while a request is planning and while the manager works.
Editing == [Quiet EXCEPT !.edits = 2, !.rewires = TRUE, !.deletes = TRUE,
                         !.rows = {Row(One("file", Main)), Row({})},
                         !.blockers = {{}, {<<b, a>>}}]
Dying   == [Quiet EXCEPT !.edits = 1, !.deaths = 1, !.deletes = TRUE,
                         !.orders = {<<a, b>>, <<a, a>>},
                         !.rows = {[Row(One("file", Main)) EXCEPT !.status = "done"]}]

MCMixes == {Shaping, Naming, Ordering, Judging, Editing, Dying}
=============================================================================
