------------------------------ MODULE MCInstaller ------------------------------
(* Instances of the installers for TLC. *)
EXTENDS PluginInstaller

CONSTANTS b1, b2, v1, v2

================================================================================
