--------------------------- MODULE MC_CommandPath ---------------------------
EXTENDS CommandPath

Symmetry == Permutations(Workers)

Text(mark, body) == [mark |-> mark, body |-> body]
From(who, mark, body) == [from |-> who, chat |-> "home", text |-> Text(mark, body)]
Me(body) == From("me", "-", body)

CommandsMC == [w \in {"sudo", "sure", "prefix", "alias", "loglevel", "reload"} |-> "core"]
              @@ ("run" :> "biz")
WordsMC == {"run", "hi", "now", "x", "go", "ho", "do", "off", "sudo", "sure", "prefix", "alias",
            "loglevel", "reload", "add", "del", "set", "remove", "chat", "msg", "redirect",
            "ana", "bob", "home", "work", "debug", ".", "-", "1"}
NumberMC == "1" :> 1
LinesMC == [do |-> [command |-> TRUE, text |-> Text("-", <<"run">>)],
            hi |-> [command |-> FALSE, text |-> Text("", <<"hi">>)],
            off |-> [command |-> TRUE, text |-> Text("-", <<"sudo", "del">>)]]
           @@ [w \in WordsMC |-> [command |-> FALSE, text |-> Text("", <<w>>)]]

Run == From("ana", "-", <<"run">>)
AnaOnly == [users |-> {"ana"}, chats |-> {}, msgs |-> <<>>]
Trusting == [users |-> {"ana"}, chats |-> {}, msgs |->
  <<[id |-> 1, line |-> "do", out |-> ""], [id |-> 2, line |-> "hi", out |-> ""]>>]
World(stored, mail) == [rows |-> stored, inbox |-> mail]
Sudo == "sudo" :> AnaOnly
Both == Sudo @@ ("sure" :> Trusting)
Sure == ("sure" :> Trusting) @@ ("aliases" :> (<<"go">> :> <<"run">>))
WorldsMC == {
  World(Sudo, {Me(<<"sudo", "del", "ana">>), Me(<<"sudo", "add", "bob">>), Run}),
  World(Sudo, {Me(<<"sudo", "chat", "add", "home">>), Me(<<"sudo", "chat", "add", "work">>), Run}),
  World(Sudo, {Me(<<"prefix", "add", ".">>), Me(<<"prefix", "remove", "-">>),
               From("me", ".", <<"prefix", "set", "-", "-">>)}),
  World(Sudo, {Me(<<"prefix", "remove", "-">>), Me(<<"prefix", ".">>), Run}),
  World(Sudo, {Me(<<"alias", "set", "go", "now", "run">>), Me(<<"alias", "set", "alias", "run">>),
               From("ana", "-", <<"go", "now">>)}),
  World(Sure, {Me(<<"alias", "set", "run", "loglevel">>), Me(<<"alias", "set", "ho", "go", "run">>),
               Me(<<"alias", "del", "go">>)}),
  World(Sudo, {Me(<<"loglevel", "debug">>), Me(<<"reload">>), Run}),
  World(Both, {Run, Me(<<"sure", "del", "ana">>), Me(<<"sure", "msg", "redirect", "1", "do">>)}),
  World(Sure, {Run, Me(<<"sure", "msg", "add", "hi">>), Me(<<"sure", "msg", "del", "1">>)}),
  World(Both, {Run, Me(<<"sure", "chat", "add", "work">>), From("ana", "", <<"hi">>)}),
  World(Both, {From("ana", "-", <<"run", "bob">>), Me(<<"sure", "msg", "redirect", "1", "off">>)})}
LegacyMC == ("sudo" :> [AnaOnly EXCEPT !.users = {"ana", "bob"}])
            @@ ("aliases" :> (<<"go", "now">> :> <<"run", "x">>))
=============================================================================
