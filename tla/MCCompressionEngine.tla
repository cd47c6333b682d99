------------------------ MODULE MCCompressionEngine ------------------------
(* One call, every kind of request, up to two failures of the system.      *)
EXTENDS CompressionEngine
=============================================================================
