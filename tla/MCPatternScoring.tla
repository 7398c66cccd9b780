--------------------------- MODULE MCPatternScoring -------------------------
(***************************************************************************)
(* A small grid of feature dicts around the thresholds and the golden set. *)
(***************************************************************************)
EXTENDS PatternScoring

\* color 75 with an unknown brand and nothing else is exactly 0.30.
GridValues ==
  [layout |-> {NoValue, 30, 120}, layoutDerived |-> {0, 95},
   color |-> {NoValue, 20, 75, 92}, colorDerived |-> {0},
   structure |-> {NoValue, 30, 88}, structureDerived |-> {0},
   brand |-> {NoValue, 80}, brandListed |-> {NoValue, 20},
   overlap |-> {14, 15},
   logo |-> {"absent", "yes", "no"}, logoScore |-> {NoValue, 50},
   logoHint |-> BOOLEAN,
   artwork |-> {"absent", "yes"}, artworkScore |-> {NoValue}, artworkHint |-> {FALSE},
   face |-> BOOLEAN]
=============================================================================
