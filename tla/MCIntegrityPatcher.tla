------------------------- MODULE MCIntegrityPatcher -------------------------
(***************************************************************************)
(* IntegrityPatcher with the changes a version of the program may make to  *)
(* a table: a nullable field added, a required one, a unique one, a field  *)
(* made unique, a change of type only.                                     *)
(***************************************************************************)
EXTENDS IntegrityPatcher

F(name, type, canBeNull, unique) ==
    [name |-> name, type |-> type, canBeNull |-> canBeNull, unique |-> unique,
     primary |-> FALSE]

Id == [name |-> "id", type |-> "INTEGER", canBeNull |-> FALSE, unique |-> FALSE,
       primary |-> TRUE]

MCTables == <<"users", "messages">>

MCSchemas ==
    { <<Id, F("a", "TEXT", FALSE, FALSE)>>,
      <<Id, F("a", "BLOB", FALSE, FALSE)>>,
      <<Id, F("a", "TEXT", FALSE, TRUE)>>,
      <<Id, F("a", "TEXT", FALSE, FALSE), F("b", "TEXT", TRUE, FALSE)>>,
      <<Id, F("a", "TEXT", FALSE, FALSE), F("b", "TEXT", FALSE, FALSE)>> }
=============================================================================
