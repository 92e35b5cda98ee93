---------------------------- MODULE MCLocalDevice ----------------------------
(* Instances of LocalDevice for TLC: messages in the conversation, one of     *)
(* which may be tried again, and a device that connects more than once.       *)
EXTENDS LocalDevice
=============================================================================
