------------------------------ MODULE MCEvHttp ------------------------------
(* Instances of EvHttp for TLC. *)
EXTENDS EvHttp

CONSTANTS r1, r2

MCReqs == {r1, r2}

Client(flags, cb, chunk, header) ==
    [role |-> "client", flags |-> flags, cb |-> cb, chunk |-> chunk,
     header |-> header, handler |-> "hold"]

Server(flags, header, handler) ==
    [role |-> "server", flags |-> flags, cb |-> "none", chunk |-> "none",
     header |-> header, handler |-> handler]

MCPrograms ==
    {Client({}, "again", "none", "go"), Client({}, "free", "cancel", "go"),
     Client({"AUTOFREE"}, "again", "read", "go"),
     Client({"AUTOFREE"}, "none", "cancel", "stop"),
     Client({}, "none", "free", "go"),
     Server({}, "go", "hold"), Server({"LINGERING_CLOSE"}, "go", "reply"),
     Server({}, "stop", "start"), Server({}, "go", "start")}

MCTokens ==
    [client |-> {"100", "200", "204", "cl2", "chunked", "close", "blank",
                 "0", "1", "byte"},
     server |-> {"GET", "GET10", "POST", "TRACE", "cl2", "cl3", "clbad", "chunked",
                 "close", "expect", "expectother", "blank", "0", "1", "byte"}]
====
