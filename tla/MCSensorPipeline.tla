-------------------------- MODULE MCSensorPipeline --------------------------
(* SensorPipeline for TLC. *)
EXTENDS SensorPipeline
=============================================================================
