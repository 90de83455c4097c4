------------------------------ MODULE MCUsbBus ------------------------------
(***************************************************************************)
(* A hub with a device that cannot be used at the first port, a stick at   *)
(* the second and a low-speed keyboard at the third, behind the            *)
(* transaction translator of the hub.                                      *)
(***************************************************************************)
EXTENDS UsbBus

MCPlugged == <<"broken", "stick", "keyboard">>
MCEndpoints == (0 .. 3) \X {"control", "in", "out", "int"}
MCSplitEps == {3} \X {"control", "in", "out", "int"}
MCEpNumbers == [in |-> 1, out |-> 2]
=============================================================================
