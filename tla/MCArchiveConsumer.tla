---- MODULE MCArchiveConsumer ----
(* Bounded instances of ArchiveConsumer for TLC; the constants are in the .cfg files. *)
EXTENDS ArchiveConsumer
=============================================================================
