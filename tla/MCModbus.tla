------------------------------ MODULE MCModbus ------------------------------
(* The main task connects and disconnects, the engine reads and writes;    *)
(* one device without limits, with two registers, and one with a limit,    *)
(* which is written.  As in the code no task asks for a sequential read    *)
(* but a handle can: the main task does it here.                           *)
EXTENDS Modbus, TLC

CONSTANTS main, plc, meter

MCCallers == {Engine, main}
MCDevices == <<plc, meter>>
MCAsks ==
  Engine :> {Reading, [kind |-> "write", device |-> meter]} @@
  main   :> [kind: {"connect", "disconnect", "read"}, device: {None}]
MCRegisters == plc :> 2 @@ meter :> 1
MCBurst == plc :> 1 @@ meter :> 1
=============================================================================
