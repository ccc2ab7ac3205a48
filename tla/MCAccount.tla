----------------------------- MODULE MCAccount -----------------------------
(* Account for TLC: two users who share a device. *)
EXTENDS Account
============================================================================
