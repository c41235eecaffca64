---------------------------- MODULE MCIngestQueue ---------------------------
(* IngestQueue with two interactions, two page views and a deployment.      *)
EXTENDS IngestQueue

MCClass == <<1, 1, 2, 2, 3>>
=============================================================================
