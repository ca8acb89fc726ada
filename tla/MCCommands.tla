----------------------------- MODULE MCCommands -----------------------------
(***************************************************************************)
(* Commands with a full name that is defined twice, a short name that is   *)
(* used twice, and short names of one and of three bytes.                  *)
(***************************************************************************)
EXTENDS Commands

command(name, short, is, permissions) ==
    [name |-> name, nameShort |-> short, is |-> is, requiredPermissions |-> permissions]

received == {"receiveOnServer", "receiveOnClient"}
secured == {"receiveOnServer", "requireAuthentication"}

MCDefinitions ==
    << command("login", <<"c", "l">>, {"receiveOnServer", "onlyNonAuthenticated"}, {}),
       command("send", <<"s", "e">>, secured, {"write"}),
       command("send", <<"s", "2">>, secured, {}),
       command("set", <<"s", "e">>, secured, {}),
       command("password", <<"p", "w">>, secured \cup {"onlyTemporaryAuth"}, {}),
       command("notify", <<"n">>, received, {}),
       command("status", <<"c", "l", "x">>, received, {}) >>

MCUsergroupOf == [alice |-> "staff", bob |-> "guests"]
=============================================================================
