--------------------------- MODULE MCStatusHandler ---------------------------
(* A small instance of StatusHandler for TLC. *)
EXTENDS StatusHandler

SomeOuter == {"/status", "/a"}
SomeInner == {"200", "404"}
Ones == {1}
OneCount == {[outer |-> "/a", inner |-> "404"]}

=============================================================================
