----------------------------- MODULE LicenseRules -----------------------------
(***************************************************************************)
(* The first classification of a source's licence                          *)
(* (app/policy/license_state.py), from what its metadata says.  A text is  *)
(* abstracted to the marks the heuristics look for, in the order they      *)
(* occur in it:                                                            *)
(*   cc_free, cc_restricted     a Creative Commons URL, without or with    *)
(*                              NC, ND or SA (or of an unknown variant)    *)
(*   spdx_free, spdx_copyleft   an SPDX identifier of one of two lists     *)
(*   public_domain, reserved    a phrase                                   *)
(***************************************************************************)
EXTENDS Sequences, SequencesExt

Marks == {"cc_free", "cc_restricted", "spdx_free", "spdx_copyleft",
          "public_domain", "reserved"}

\* The keys of a metadata dict whose text counts, in the order they are read.
ClueKeys == <<"license", "license_url", "license_href", "rel_license", "spdx",
              "spdx_id", "meta_license", "copyright", "rights", "dc.rights",
              "license_links", "html", "raw_html", "head_html">>

\* metadata: a function from the keys present to their text; license_links
\* stands for the texts of the links whose rel names a licence.
CollectClues(metadata) ==
  FlattenSeq([i \in DOMAIN ClueKeys |->
                IF ClueKeys[i] \in DOMAIN metadata THEN metadata[ClueKeys[i]] ELSE <<>>])

AutoClassify(metadata) ==
  LET clues == CollectClues(metadata)
      cc == SelectSeq(clues, LAMBDA mark : mark \in {"cc_free", "cc_restricted"})
      Says(mark) == Contains(clues, mark)
  IN  CASE cc # <<>> -> IF Head(cc) = "cc_free" THEN "allowed" ELSE "conditional"
        [] cc = <<>> /\ Says("spdx_copyleft") -> "conditional"
        [] cc = <<>> /\ ~Says("spdx_copyleft")
             /\ (Says("spdx_free") \/ Says("public_domain")) -> "allowed"
        [] cc = <<>> /\ ~Says("spdx_copyleft") /\ ~Says("spdx_free")
             /\ ~Says("public_domain") /\ Says("reserved") -> "conditional"
        [] OTHER -> "unknown"

\* What register_source stores as metadata: the caller's intended use and
\* notes, whatever they say, under keys that are not among ClueKeys.
RegisteredMetadata(notes) == [intended_use |-> <<>>, notes |-> notes]
===============================================================================
