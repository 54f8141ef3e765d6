-------------------------------- MODULE Wire --------------------------------
(***************************************************************************)
(* The frames on the CAN bus, as both of its masters read and write them:   *)
(* firmware/src/joint_controller.cpp and hil/scripts/can_protocol.py.  A    *)
(* number is two bytes, the low one first.  What is encoded is a fixed-     *)
(* point number with n steps to the unit of the wire.                       *)
(***************************************************************************)
EXTENDS FixedPoint

CONSTANT Byte    \* the values of a byte, 256

ASSUME ByteAssumption == Byte \in Nat /\ Byte >= 2

Bytes == 0 .. Byte - 1

HalfWord == Byte * (Byte \div 2)
Int16 == -HalfWord .. HalfWord - 1

\* The id of a feedback frame, 0x300 + joint.
feedback_id(joint) == 768 + joint

\* pack_i16, struct.pack('<h')
PackI16(v) == <<v % Byte, (v \div Byte) % Byte>>

\* unpack_i16, struct.unpack('<h')
UnpackI16(b) ==
    LET word == b[1] + Byte * b[2]
    IN IF word < HalfWord THEN word ELSE word - Byte * Byte

\* The firmware's cast truncates; it is undefined of what does not fit.
FirmwareI16(a, n) == IF Quotient(a, n) \in Int16 THEN {Quotient(a, n)} ELSE Int16

\* Mutant: the number is packed as it is.
HostUnclamped(a, n) == Rounded(a, n)

\* The host rounds and clamps.
HostI16(a, n) == Clamp(Rounded(a, n), -HalfWord, HalfWord - 1)
=============================================================================
