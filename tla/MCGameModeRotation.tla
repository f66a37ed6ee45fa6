------------------------ MODULE MCGameModeRotation ------------------------
(* Instances of GameModeRotation for TLC. *)
EXTENDS GameModeRotation

\* Four entries, the second of which cannot be read; a file that holds no program, and
\* two filter scripts.
FourModes == <<[name |-> "lan", repeats |-> 1], [name |-> "missing", repeats |-> 1],
               [name |-> "rivershell", repeats |-> 2], [name |-> "area51", repeats |-> 0]>>
ReadableNames == {"lan", "rivershell", "area51", "junk", "adminspec", "base"}
LoadableNames == ReadableNames \ {"junk"}
AllNames == ReadableNames \cup {"missing"}
NamesForChangemode == {"junk", "missing"}
NamesForLoadfs == {"adminspec", "base", "junk"}
=============================================================================
