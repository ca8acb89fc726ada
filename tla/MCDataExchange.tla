--------------------------- MODULE MCDataExchange ---------------------------
(***************************************************************************)
(* DataExchange with one structure that has a field of every basic type,   *)
(* the custom types with their bounds, and a nested structure.             *)
(***************************************************************************)
EXTENDS DataExchange

type(name, underlying, min, max, auto) ==
    [name |-> name, underlying |-> underlying, minLength |-> min, maxLength |-> max,
     autoFill |-> auto]

MCCustomTypes == << type("uuid", "blob", -1, -1, TRUE), type("title", "text", 1, 5, FALSE),
                    type("count", "integer", 1, 300, FALSE), type("floor", "integer", 1, -2, FALSE),
                    type("below", "integer", -3, -1, FALSE), type("label", "text", 2, 5, FALSE),
                    type("username", "blob", -1, -1, FALSE),
                    type("datetime", "text", -1, -1, FALSE) >>

optional(name, t) ==
    [name |-> name, type |-> t, required |-> FALSE, unique |-> FALSE,
     storage |-> Sides, command |-> TRUE]

required(name, t) == [optional(name, t) EXCEPT !.required = TRUE]

MCSchema ==
    << [name |-> "item", fields |-> << required("n", "count"), optional("f", "bool") >>],
       [name |-> "message", fields |->
          << optional("n", "count"), [required("i", "uuid") EXCEPT !.unique = TRUE],
             required("t", "title"), optional("f", "bool"), optional("b", "blob"),
             [optional("m", "floor") EXCEPT !.storage = {"server"}],
             [optional("s", "text") EXCEPT !.storage = {"server"}, !.command = FALSE],
             optional("x", "item"), [optional("l", "text") EXCEPT !.storage = {"client"}],
             optional("d", "datetime"), optional("u", "username"),
             optional("k", "label"), optional("z", "below") >>] >>

item(n) == [name |-> "item", valid |-> TRUE, values |-> [n |-> {<<n>>}, f |-> {<<1>>}]]

uuid1 == <<2, 0>>
uuid2 == <<2, 2>>
MCGenerated == {uuid2}
MCDatetimes == {<<1, 1>>}
MCEdits == {[field |-> "s", value |-> <<1>>], [field |-> "t", value |-> <<1, 2>>]}

repeat(n) == [k \in 1..n |-> 1]

Sparse == [NewStructure("message").values EXCEPT !.i = {uuid1}, !.t = {<<1>>}]

Full == [Sparse EXCEPT !.n = {<<300>>}, !.f = {<<0>>}, !.b = {<<3, 0>>}, !.m = {<<30000>>},
                       !.s = {<<2>>}, !.x = {<<item(1), item(2)>>}, !.l = {repeat(15)},
                       !.d = {<<1, 1>>}, !.u = {<<1, 2, 3>>}, !.k = {<<1, 2>>}, !.z = {<<-3>>}]

Alternatives ==
    [n |-> {{<<1>>}, {<<0>>}, {<<-1>>}, {<<301>>}},
     i |-> {{}, {uuid2}, {<<2>>}},
     t |-> {{}, {<<>>}, {<<0, 1>>}, {<<1, 0, 2>>}, {repeat(6)}},
     f |-> {{<<1>>}},
     b |-> {{<<>>}, {repeat(16)}},
     m |-> {{<<0>>}, {<<-3>>}, {<<-1>>}},
     s |-> {{<<1>>}},
     x |-> {{<<>>}, {<<item(1)>>}, {<<item(0), item(1), item(2), item(1)>>}},
     l |-> {{<<>>}, {repeat(16)}},
     d |-> {{<<2>>}},
     u |-> {{<<1>>}},
     k |-> {{<<1, 0, 2>>}, {<<1, 2, 0>>}},
     z |-> {{<<1>>}, {<<-4>>}, {<<-1>>}}]

Varied(base, fields) == UNION {{[base EXCEPT ![f] = v] : v \in Alternatives[f]} : f \in fields}

MCDrafts ==
    {Sparse, Full} \cup Varied(Full, DOMAIN Alternatives) \cup Varied(Sparse, {"i", "t", "x"})
=============================================================================
