----------------------------- MODULE MCLlmSlots -----------------------------
(* Small instances of LlmSlots for TLC. *)
EXTENDS LlmSlots, TLC

CONSTANTS small, large, legacy

MCModel  == {small, large}
(* With a share of 1 for the KV cache and a ceiling of 5 both models fit,  *)
(* the large one twice does not.                                           *)
MCWeight == [m \in MCModel |-> IF m = large THEN 2 ELSE 1]
(* Like the repository's, where active[] is [2, 0]. *)
MCShipped == [active |-> <<1, 0>>, downloaded |-> <<small, large>>]
(* The built-in table shares a preset with the registry.                   *)
MCLegacyPreset == {small, legacy}
=============================================================================
