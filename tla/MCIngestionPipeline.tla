------------------------ MODULE MCIngestionPipeline ------------------------
(* Small instances of IngestionPipeline for TLC. *)
EXTENDS IngestionPipeline

=============================================================================
