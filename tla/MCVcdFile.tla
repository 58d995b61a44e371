----------------------------- MODULE MCVcdFile -----------------------------
(* An instance of VcdFile with three characters for codes, two of which    *)
(* start commands elsewhere, and codes of one and two of them.             *)
EXTENDS VcdFile

MCIdChars == <<"!", "#", "$">>
MCGivenIds == {2, 4}
MCTexts == {<<"made", " ", "by", " ", "hand">>, <<"made", "\n", "#", "5">>}
MCTimes == {12}
MCVectors == {<<"1", "x">>}
=============================================================================
