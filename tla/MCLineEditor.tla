---------------------------- MODULE MCLineEditor ----------------------------
(***************************************************************************)
(* LineEditor with a letter and a space, two commands, the first with a    *)
(* parameter, and short lines.                                             *)
(***************************************************************************)
EXTENDS LineEditor

MCCommands == {<<"s">>, <<"s", "s">>}

MCSecParam == (<<"s">> :> {<<"s">>}) @@ (<<"s", "s">> :> {})
==============================================================================
