-------------------------------- MODULE MCTexts --------------------------------
(***************************************************************************)
(* Calls for many texts, EmbedAll, for TLC.                                *)
(***************************************************************************)
EXTENDS EmbedAll, TLC

CONSTANTS c1, c2, one, two, other, huge

\* Two calls have texts in common: of one, two and one bytes, and one that is too large.
Sizes == one :> 1 @@ two :> 2 @@ other :> 1 @@ huge :> 5
Repeated == {<<one, two, one, other>>, <<other, one, one>>, <<one, huge>>}
=============================================================================
