------------------------ MODULE MCSerialPortSession ------------------------
(* Small instances of SerialPortSession for TLC. *)
EXTENDS SerialPortSession, TLC
=============================================================================
