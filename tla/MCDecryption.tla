---------------------------- MODULE MCDecryption ----------------------------
\* Instances of Decryption for TLC.
EXTENDS Decryption, TLC

CONSTANTS e1, e2, e3

\* Two messages, and a third event that repeats the index of the first.
Indexes == (e1 :> 0) @@ (e2 :> 1) @@ (e3 :> 0)

SomeScenarios == { {"restart"}, {"forward"}, {"backup", "race"}, {"download"},
                   {"download", "eager"}, {"preview"}, {"late", "forward"},
                   {"limited", "backup"} }
=============================================================================
