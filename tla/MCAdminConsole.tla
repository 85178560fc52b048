--------------------------- MODULE MCAdminConsole ---------------------------
(***************************************************************************)
(* AdminConsole with one or two threads of "stop", a log that is flushed   *)
(* at every second entry, and a line for each thing a command can do.      *)
(***************************************************************************)
EXTENDS AdminConsole

MCThreads == {"console", "services"} \cup Stoppers

MCIntOf == [p \in {"8080", "0", "128", "5432", "3", "8083", "2", "7", "99999"} |->
  CASE p = "8080" -> 8080 [] p = "0" -> 0 [] p = "128" -> 128
    [] p = "5432" -> 5432 [] p = "3" -> 3 [] p = "8083" -> 8083
    [] p = "2" -> 2 [] p = "7" -> 7 [] p = "99999" -> 99999]

MCFirstFile == [k \in {MaxLogBufferSize} |-> <<"2">>]

Setting(name, value) == <<"setting", " ", name, " ">> \o value

MCLines == {
  <<"stop", " ", "0">>, <<"save">>,
  Setting("dbpassword", <<"'", "a", " ", "b", "'">>),
  Setting("controlderviceport", <<"7">>),
  Setting("authserviceport", <<"99999">>),
  Setting("commandprompt", <<"7">>)}
==============================================================================
