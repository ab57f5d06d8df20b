------------------------------ MODULE MCBinding ------------------------------
(* Instance of Binding for TLC: two Sends, so that the second can meet what *)
(* the first left behind, and one cookie.  Where text hashes, httpbasic and *)
(* zsibasic only add a header and behave as no authorization does; where it *)
(* does not, httpbasic makes Send raise.                                    *)
EXTENDS Binding

MCStyles == {{}, {"httpdigest"}}
MCStylesBasic == MCStyles \cup {{"httpbasic"}}
==============================================================================
