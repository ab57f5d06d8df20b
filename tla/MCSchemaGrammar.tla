--------------------------- MODULE MCSchemaGrammar ---------------------------
(* Instance of SchemaGrammar for TLC. *)
EXTENDS SchemaGrammar

CONSTANTS A, B, p

MCNs == {A, B}
MCPrefixes == {NoPrefix, p}
MCScopes == {<<>>, p :> A, NoPrefix :> A, NoPrefix :> NoNs @@ p :> B}
MCContexts == {<<p :> A>>, <<NoPrefix :> A, NoPrefix :> NoNs @@ p :> B>>, <<<<>>, <<>>>>}
MCGivens == {{}, {"name"}, {"ref"}, {"name", "ref"}, {"base"}, {"xpath"}, {"name", "refer"}, {"name", "public"}}
==============================================================================
