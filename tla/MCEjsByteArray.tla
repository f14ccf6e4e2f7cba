--------------------------- MODULE MCEjsByteArray ---------------------------
(***************************************************************************)
(* Values for the constants of EjsByteArray: up to five bytes, written to a *)
(* byte array of one or three.                                              *)
(***************************************************************************)
EXTENDS EjsByteArray

MCCounts == {-1, 1}
MCWrites ==
    {<<[kind |-> "string", length |-> 1]>>, <<[kind |-> "string", length |-> 2]>>,
     <<[kind |-> "string", length |-> 1], [kind |-> "string", length |-> 2]>>,
     <<[kind |-> "string", length |-> 1], [kind |-> "bytes", length |-> 2]>>}

ASSUME ByteAssumption == Arguments
=============================================================================
