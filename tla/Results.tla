-------------------------------- MODULE Results --------------------------------
(*****************************************************************************)
(* What a call returns or raises, and calls made one after the other.        *)
(*****************************************************************************)
Ok(v) == <<"ok", v>>
Raise(x) == <<"raise", x>>
IsOk(r) == r[1] = "ok"
After(r, F(_)) == IF IsOk(r) THEN F(r[2]) ELSE r

\* A result out with the state st that the call leaves.
Give(v, st) == [out |-> Ok(v), st |-> st]
Fail(x, st) == [out |-> Raise(x), st |-> st]
Then(r, F(_, _)) == IF IsOk(r.out) THEN F(r.out[2], r.st) ELSE r
================================================================================
