---------------------------- MODULE MCRendering ----------------------------
(* Instances of Rendering for TLC: a word, a word that ends a sentence, a  *)
(* blank, and three tags of two effects, one of them played twice.          *)
EXTENDS Rendering

CONSTANTS word, stop, blank, step, stepTwice, siren, Step, Siren

MCWords == {word, stop}
MCStops == {stop}
MCBlanks == {blank}
MCTags == {step, stepTwice, siren}
MCNameOf == [t \in MCTags |-> IF t = siren THEN Siren ELSE Step]
MCCountOf == [t \in MCTags |-> IF t = stepTwice THEN 2 ELSE 1]
=============================================================================
