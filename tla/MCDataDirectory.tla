--------------------------- MODULE MCDataDirectory ---------------------------
(* A small instance of DataDirectory for TLC. *)
EXTENDS DataDirectory, TLC

CONSTANTS
    default, long, bad, \* settings
    t1, t2              \* calls of save_settings

\* one that is longer than the default, one that is not valid
SomeSettings  == {default, long, bad}
GoodSettings  == {default, long}
Lengths       == (default :> 1) @@ (long :> 2) @@ (bad :> 1)
TwoSavers     == {t1, t2}
=============================================================================
