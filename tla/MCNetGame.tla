----------------------------- MODULE MCNetGame -----------------------------
(* Instance of NetGame for TLC. *)
EXTENDS NetGame

\* Scripts that kick nobody from a callback of a join, a request or a restart, but
\* end the mode at any time; and scripts that kick from every callback.
Careful == [kicks |-> {}, exits |-> TRUE, logs |-> FALSE]
Ruthless == [kicks |-> CallbackPhases, exits |-> FALSE, logs |-> TRUE]
CarefulOrRuthless == {Careful, Ruthless}

\* Scripts that do neither.
Tame == {[kicks |-> {}, exits |-> FALSE, logs |-> FALSE]}
=============================================================================
