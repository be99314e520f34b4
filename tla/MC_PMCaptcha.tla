---------------------------- MODULE MC_PMCaptcha ----------------------------
(* Instances of PMCaptcha: two strangers, one worker, one timer at once.    *)
EXTENDS PMCaptcha, TLC

CONSTANTS w1, g1, u1, u2

OneHelper == {w1}
OneGoroutine == {g1}
TwoStrangers ==
  u1 :> [premium |-> FALSE, common |-> FALSE, history |-> FALSE] @@
  u2 :> [premium |-> TRUE, common |-> TRUE, history |-> TRUE]
Texts ==
  {[number |-> 0, sticker |-> FALSE, word |-> "white"], [number |-> Nothing, sticker |-> TRUE, word |-> ""]} \cup
  {[number |-> n, sticker |-> FALSE, word |-> ""] : n \in 1 .. 2}

Plain == [limited |-> {"math", "sticker", "img"}, type |-> "math", action |-> "ban", initiative |-> TRUE,
  disabled |-> FALSE, premium |-> "none", history |-> FALSE, groups |-> FALSE, rule |-> FALSE,
  whitelist |-> FALSE, blacklist |-> FALSE, floodLimit |-> 3, floodUsername |-> FALSE,
  floodAction |-> "none", tries |-> 2]
Image == [Plain EXCEPT !.type = "img", !.action = "none"]
Sticker == [Plain EXCEPT !.type = "sticker", !.limited = {"math"}, !.action = "delete", !.initiative = FALSE]
Flooded == [Plain EXCEPT !.floodLimit = 2, !.floodUsername = TRUE, !.floodAction = "asis", !.initiative = FALSE]
Quick == [Flooded EXCEPT !.floodLimit = 1]
Asked == [Flooded EXCEPT !.floodUsername = FALSE, !.floodAction = "captcha", !.initiative = TRUE]
Ruled == [Plain EXCEPT !.premium = "only", !.whitelist = TRUE, !.floodAction = "delete", !.floodLimit = 1, !.initiative = FALSE]
World(c, auto) == [config |-> c, auto |-> auto]
Worlds == {World(c, FALSE) : c \in {Plain, Image, Sticker, Ruled, Quick}} \cup {World(Asked, TRUE)}
Changed == {Sticker, [Plain EXCEPT !.type = "sticker", !.limited = {"math"}], [Plain EXCEPT !.type = "sticker"]}
Files == {[Sticker EXCEPT !.action = "", !.type = "captcha"], [Sticker EXCEPT !.floodLimit = 0]}
=============================================================================
