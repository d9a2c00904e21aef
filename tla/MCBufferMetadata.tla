-------------------------- MODULE MCBufferMetadata --------------------------
(* BufferMetadata on a small instance, for TLC.                             *)
EXTENDS BufferMetadata, TLC

CONSTANTS MaxValue, MaxPayload

MCScalars == 0..MaxValue

(* Contents to tell apart, none, and sizes up to more than is allowed.      *)
MCPayloads == [value: 1..MaxValue, size: 0..MaxPayload]

(* Types of each way setStandardMetadata goes.                              *)
MCWritten == {"USAGE", "DATASPACE", "SMPTE2094_50"}
MCRead == {"DATASPACE", "SMPTE2086", "SMPTE2094_50"}
MCPayloadType == {"SMPTE2094_50"}

Symmetry == Permutations(Thread)
=============================================================================
