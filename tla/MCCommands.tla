----------------------------- MODULE MCCommands -----------------------------
(* Two clients.  Rates that are no number, that fit and that wrap round;   *)
(* an empty passphrase and one with a capital letter, which is lowered.    *)
EXTENDS Commands

Word(number, unit) == [numeric |-> TRUE, number |-> number, unit |-> unit]
Text == [numeric |-> FALSE, number |-> 7, unit |-> 1]

MCRateWords == {Text, Word(3, 2), Word(4, 2), Word(5, 2)}
MCSizeWords == {Text, Word(9, 1)}
MCLowered == [phrase \in Phrases |-> IF phrase = "Kitten" THEN "kitten" ELSE phrase]
=============================================================================
