------------------------------ MODULE MCCatalogue ------------------------------
\* An instance of Catalogue for TLC: a relation whose name sorts in front of
\* leaprel, one behind it, and rl_compact's copy.
EXTENDS Catalogue

MCNames == {"_temp", "a", "m"}

MCRank == [n \in MCNames \cup {"leaprel"} |->
              CASE n = "_temp" -> 1 [] n = "a" -> 2 [] n = "leaprel" -> 3
                [] OTHER -> 4]

===============================================================================
