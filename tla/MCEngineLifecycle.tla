------------------------- MODULE MCEngineLifecycle -------------------------
(* A small instance of EngineLifecycle for TLC. *)
EXTENDS EngineLifecycle

CONSTANTS
    a, b,        \* instances
    a1, a2, a3,  \* tasks of a
    b1           \* the task of b

TwoPeers  == {a, b}
FourCalls == {a1, a2, a3, b1}
CallsAt   == [c \in FourCalls |-> IF c = b1 THEN b ELSE a]
CallsTo   == [c \in FourCalls |-> IF c = b1 THEN a ELSE b]
=============================================================================
