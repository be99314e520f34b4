---------------------------- MODULE MC_Inkstone ----------------------------
(* Instances of Inkstone: one worker and all that can fail, two workers    *)
(* and one message, and two workers whose commands meet.                   *)
EXTENDS Inkstone

Cmd(kind, msg, alias) == [kind |-> kind, msg |-> msg, alias |-> alias, by |-> "id", reply |-> 0, force |-> FALSE]
ReplyTo(m, msg, force) == [Cmd("write", msg, "a") EXCEPT !.reply = m, !.force = force]
World(workers, strict, bound, commands) ==
  [workers |-> workers, strict |-> strict, bound |-> bound, media |-> {9}, refused |-> {8}, commands |-> commands]
Bound == [a \in {"a"} |-> 1]
Unbound == [a \in {} |-> 1]
Managing == {Cmd("new", 1, "a"), Cmd("find", 2, "a"), Cmd("unbind", 4, "a"), Cmd("write", 5, "a"), Cmd("bind", 6, "a")}
  \cup {[Cmd("bind", 3, "a") EXCEPT !.by = by] : by \in {"number", "title"}}
AllInk == {World(1, TRUE, Bound, {ReplyTo(9, 2, FALSE), ReplyTo(9, 3, TRUE), ReplyTo(8, 4, FALSE)}),
           World(2, FALSE, Bound, {ReplyTo(9, 2, FALSE), ReplyTo(9, 3, FALSE)}),
           World(1, TRUE, Unbound, Managing)}
=============================================================================
