----------------------------- MODULE MCEvBuffer -----------------------------
(* Small instances of EvBuffer. *)
EXTENDS EvBuffer

CONSTANTS A, B

MCBufs == {A, B}

Short == {<<"x">>, <<"y", "z">>}

Texts == {<<"x">>, <<"y", "z", "z">>}

Lines == {<<"x">>, <<"CR", "LF">>, <<"LF", "x">>}

Program2(max, data, callsA, callsB, cbA, cbB) ==
    [max |-> max, data |-> data,
     calls |-> A :> callsA @@ B :> callsB, cb |-> A :> cbA @@ B :> cbB]

(* every way to make room, to move chains, to share them and to read lines *)
MCPrograms == {
    Program2(4, Texts, {"add", "prepend", "drain", "pullup", "expand", "reserve"}, {},
             "count", "none"),
    Program2(3, Short, {"printf", "iovec", "remove", "freeze"}, {}, "defer", "none"),
    Program2(4, Lines, {"read", "write", "file", "readln", "prepend"}, {}, "count", "none"),
    Program2(3, Short, {"add", "move"}, {"move"}, "count", "none"),
    Program2(2, Short, {"add", "move"}, {"move", "expand"}, "none", "drain"),
    Program2(3, {<<"x", "y">>}, {"prepend", "move"}, {"reserve"}, "cross", "none"),
    Program2(4, Short, {"reference", "free", "drain"}, {"multicast", "drain", "free", "add"},
             "none", "count"),
    Program2(4, Short, {"reference", "add", "free"}, {"multicast", "pullup", "drain"},
             "none", "none"),
    Program2(2, Short, {"add", "move", "free"}, {"multicast", "free"}, "none", "defer")}

(* programs that share chains and change them, for May # {} *)
MCSharing == {
    Program2(3, Short, {"add", "drain", "pullup"}, {"multicast", "add", "pullup"}, "none", "none"),
    Program2(2, Short, {"add"}, {"multicast", "expand", "drain"}, "none", "none"),
    Program2(3, Short, {"add", "move"}, {}, "none", "cross")}
=============================================================================
