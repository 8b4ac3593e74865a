------------------------- MODULE MCTrainingSnapshots -------------------------
(* Each game's sources over two rows each: a row whose cards the second     *)
(* binder matches otherwise, one that both sources may have, and a          *)
(* malformed one.                                                           *)
EXTENDS TrainingSnapshots

CONSTANTS cards_a, cards_b, cards_c

MCCardLists == {cards_a, cards_b, cards_c}
MCDeckIds == MCCardLists \cup ((1..2) \X (1..2))
MCStamps == 0..MaxVersion
Rematched(before, after) == [v \in MCStamps |-> IF v = 0 THEN before ELSE after]
Steady(cards) == [v \in MCStamps |-> cards]
MCRawFiles ==
    {<<<<Rematched(cards_a, cards_b), Steady(cards_c)>>, <<Steady(cards_b)>>>>,
     <<<<Steady(Malformed), Rematched(cards_a, cards_c)>>, <<Rematched(cards_a, cards_b)>>>>}
MCGames ==
    {FleshAndBlood, Hearthstone, Gwent, Dominion}
MCAllGames == MCGames \cup {Pokemon, MTG, SlayTheSpire2}
=============================================================================
