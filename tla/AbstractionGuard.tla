-------------------------- MODULE AbstractionGuard --------------------------
(***************************************************************************)
(* What the abstraction guard takes out of a feature dict, what            *)
(* persist_pattern stores of the rest, and what the PII scanner says of a  *)
(* text.  A dict is the set of its keys: the guard looks at nothing else.  *)
(***************************************************************************)
EXTENDS FiniteSets

\* The keys that carry original expression, by the reason they are removed for.
RemovalTargets ==
  [long_form_original_text |-> {"raw_text", "original_text"},
   verbatim_phrases |-> {"verbatim_text"},
   unique_phrases |-> {"unique_phrases"},
   image_pixels |-> {"image_pixels", "raw_image"},
   logo |-> {"logo_asset"},
   person_face |-> {"face_crops", "person_images"},
   signature |-> {"signature"},
   original_illustration |-> {"unique_artwork", "illustration_asset"},
   design_replica |-> {"design_replica"}]

Removed(reasons) == UNION {RemovalTargets[r] : r \in reasons}

RemovalKeys == Removed(DOMAIN RemovalTargets)

TextReasons == {"long_form_original_text", "verbatim_phrases", "unique_phrases"}

\* A signature is neither text nor an image to the reports.
ImageReasons == {"image_pixels", "logo", "person_face", "original_illustration",
                 "design_replica"}

\* ABSTRACTION_ALLOWED: structure, abstract signatures, flags.
AllowedKeys ==
  {"section_order", "layout_type", "region_ratios", "color_count", "table_structure",
   "card_count", "slide_flow", "chart_type", "category_count", "series_count",
   "legend_present", "data_labels_present", "layout_similarity", "color_signature",
   "structure_fingerprint", "region_iou", "original_layout_tree", "pattern_layout_tree",
   "original_color_hist", "pattern_color_hist", "original_structure_vec",
   "pattern_structure_vec", "brand_risk", "domain", "logo_detected", "face_detected",
   "unique_artwork_detected"}

\* Texts that are compared for leaks and set apart from what is stored.
ProbeKeys == {"original_text", "pattern_text"}

ReportKeys == {"raw_text_removed", "image_pixels_removed", "removed_items"}

\* guard: the keys of the abstracted feature, the texts set apart under
\* _leak_probe, and what the reports say of the rest.
Guard(keys) ==
  LET probe == keys \cap ProbeKeys
  IN  [kept |-> ((keys \cap AllowedKeys) \ RemovalKeys) \cup ReportKeys
                  \cup (IF probe # {} THEN {"_leak_probe"} ELSE {}),
       probe |-> probe,
       reasons |-> {r \in DOMAIN RemovalTargets : keys \cap RemovalTargets[r] # {}},
       unallowed |-> keys \ (RemovalKeys \cup ProbeKeys \cup AllowedKeys),
       textRemoved |-> keys \cap Removed(TextReasons) # {},
       imagesRemoved |-> keys \cap Removed(ImageReasons) # {}]

Internal(keys) == keys \cap {"_leak_probe"}

\* Seeded fault: the abstracted feature is stored as it is.
StoredWhole(guarded) == guarded.kept

\* persist_pattern: the feature without the keys that begin with "_".
StoredKeys(guarded) == guarded.kept \ Internal(guarded.kept)

\* A text is the set of kinds of personal data the scanner finds in it.
HighRisk == {"rrn", "brn", "credit_card"}
PiiTypes == HighRisk \cup {"phone_kr", "email"}

PiiScan(text) ==
  IF text = {} THEN "clean"
  ELSE IF text \cap HighRisk # {} THEN "sensitive" ELSE "redacted"
=============================================================================
