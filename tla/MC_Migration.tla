--------------------------- MODULE MC_Migration ---------------------------
(* Instances of Migration: two archives, three paths.                      *)
EXTENDS Migration, TLC

Kinds == "p" :> "data" @@ "x" :> "program" @@ "z" :> "alien"
MigrationWorld(old, own, oneDevice) ==
  [archives |-> "a" :> {"p", "x"} @@ "b" :> {"x", "z"}, kind |-> Kinds, old |-> old, own |-> own, oneDevice |-> oneDevice]
AllMigrations == {MigrationWorld(FALSE, {<<"config", "">>, <<"assets", "x">>}, TRUE),
                  MigrationWorld(TRUE, {<<"assets", "p">>, <<"assets", "x">>}, FALSE)}
Plain == {MigrationWorld(FALSE, {}, TRUE)}
===========================================================================
