----------------------------- MODULE MCWebserver -----------------------------
(* A small instance of Webserver for TLC. *)
EXTENDS Webserver

CONSTANTS c1, c2

SomeConns == {c1, c2}
SomeCodes == {"200", "401", "404", "500", "999"}
Known     == SomeCodes \ {"999"}

\* A page, an upstream code the server has no text for, the status handler's
\* error, and an error that leaves code_ as it was: any value.
SomeResults == {[status |-> "OK",    code |-> "200"],
                [status |-> "OK",    code |-> "999"],
                [status |-> "Error", code |-> "404"],
                [status |-> "Error", code |-> "999"]}

=============================================================================
