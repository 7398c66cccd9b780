-------------------------- MODULE MCPatternPipeline -------------------------
(***************************************************************************)
(* An instance of PatternPipeline for TLC: one key of each kind.           *)
(***************************************************************************)
EXTENDS PatternPipeline

SomeKeys == {"original_text", "pattern_text", "face_crops", "signature", "layout_type",
             "caption"}

SomeTexts == {{}, {"email"}, {"rrn", "email"}}
=============================================================================
