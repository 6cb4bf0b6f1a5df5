----------------------------- MODULE MCStackBoot -----------------------------
(* Two bound slots and one other host unit for TLC. *)
EXTENDS StackBoot

MCSlots    == <<"slot0", "slot1">>
MCServices == <<"embedder">>
=============================================================================
