---------------------------- MODULE MCOperations ----------------------------
(***************************************************************************)
(* Operations with two clients and five commands: two that write the same  *)
(* shared item, one that writes an item of one user and is saved late, and *)
(* one without an item, and an empty one.                                  *)
(***************************************************************************)
EXTENDS Operations

CONSTANTS a, b, x, y, note, edit, draft, ping, login

MCDefinition == [u \in Commands |->
    CASE u = note  -> [kind |-> "auto", key |-> x, sender |-> a, ownership |-> "all"]
      [] u = edit  -> [kind |-> "auto", key |-> x, sender |-> b, ownership |-> "all"]
      [] u = draft -> [kind |-> "late", key |-> y, sender |-> a, ownership |-> "self"]
      [] u = ping  -> [kind |-> "itemless", key |-> NoKey, sender |-> b, ownership |-> "self"]
      [] u = login -> [kind |-> "bare", key |-> NoKey, sender |-> a, ownership |-> "self"]]
=============================================================================
