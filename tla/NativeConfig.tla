----------------------------- MODULE NativeConfig -----------------------------
(* The native engine's configuration that its sandboxes read.            *)

CONSTANT CreateUser  \* engine.config.CreateUser

ASSUME ConfigAssumption == CreateUser \in BOOLEAN

=============================================================================
