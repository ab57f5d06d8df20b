----------------------------- MODULE MCDispatch -----------------------------
(***************************************************************************)
(* Dispatch for TLC: one request that may be anything, and next to it one  *)
(* of a few, on every entry point and style.                               *)
(***************************************************************************)
EXTENDS Dispatch

CONSTANTS r1, r2

MCRequests == {r1, r2}
MCProcesses == {r1, r2, "shared"}

MCSites ==
    {s \in [entry : Entries, style : Styles] :
        s.entry = "cgi" => s.style # "docstyle"}

ServerSites == {[entry |-> "server", style |-> "any"]}

Plain ==
    [method |-> "POST", type |-> "xml", length |-> TRUE, message |-> "soap",
     what |-> "echo", parts |-> <<>>, array |-> FALSE,
     zsi |-> "absent", http |-> "absent"]

Part(name, value) == [name |-> name, value |-> value]

Headers ==
    {[Plain EXCEPT !.method = "GET"],
     [Plain EXCEPT !.type = "absent"],
     [Plain EXCEPT !.length = FALSE],
     [Plain EXCEPT !.type = "multipart"],
     [Plain EXCEPT !.type = "multipart", !.message = "empty"]}

Messages ==
    {[Plain EXCEPT !.message = "malformed"],
     [Plain EXCEPT !.message = "header unreadable"],
     [Plain EXCEPT !.type = "multipart", !.message = "unreadable"]}

Bodies ==
    {[Plain EXCEPT !.what = w] : w \in {NoRoot, "unknown", "constant", "double"}}
    \cup
    {[Plain EXCEPT !.parts = <<Part("a", "good"), Part("b", "good"), Part("a", "good")>>],
     [Plain EXCEPT !.parts = <<Part("a", "good"), Part("b", "bad")>>],
     [Plain EXCEPT !.parts = <<Part("a", "strange"), Part("b", "bad")>>],
     [Plain EXCEPT !.array = TRUE],
     [Plain EXCEPT !.array = TRUE, !.parts = <<Part("a", "good"), Part("a", "good")>>],
     [Plain EXCEPT !.array = TRUE, !.parts = <<Part("a", "bad")>>]}

Clients ==
    {[Plain EXCEPT !.what = "whoami", !.zsi = a[1], !.http = a[2]] :
        a \in {<<"absent", "digest">>, <<"absent", "bob">>,
               <<"partial", "bob">>, <<"ann", "bob">>}}

Fetches == {[Plain EXCEPT !.what = "fetch"]}

(* The entry points and styles differ before the handler is called and     *)
(* after it has returned: URIs are resolved on threads, in one style.     *)
Fetching == [entry : {"handler"}, style : {"any"}]

MCCalls ==
    [r \in MCRequests |->
        [s \in MCSites |->
            (IF s \in Fetching THEN Fetches ELSE {}) \cup
            (IF r = r1 THEN Headers \cup Messages \cup Bodies \cup Clients
             ELSE {[Plain EXCEPT !.what = "whoami", !.zsi = "cid"]})]]

ServerCalls ==
    [r \in MCRequests |->
        [s \in ServerSites |-> {Plain, [Plain EXCEPT !.type = "multipart"]}]]

HandlerNames == {"echo", "constant", "double", "whoami", "fetch"}

MCResults ==
    [w \in HandlerNames |->
        IF w = "echo"
        THEN {[kind |-> k, wide |-> FALSE] :
                 k \in {"typed", "mistyped", "plain", "odd", "dom"}}
             \cup {[kind |-> "typed", wide |-> TRUE]}
        ELSE {[kind |-> "typed", wide |-> FALSE]}]

Module(names) ==
    [w \in HandlerNames \cup {"unknown"} |->
        IF w \in names THEN "callable"
        ELSE IF w = "constant" THEN "data" ELSE "absent"]

MCModules ==
    <<Module({"echo", "double"}), Module({"whoami", "fetch", "double"})>>

MCAsks ==
    [w \in HandlerNames |->
        CASE w = "whoami" -> {"client"}
          [] w = "fetch" -> {"uri"}
          [] OTHER -> {}]
=============================================================================
