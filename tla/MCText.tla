------------------------------- MODULE MCText -------------------------------
(* Texts of up to four bytes out of digits, signs and blanks, and an int   *)
(* of eight bits.                                                          *)
EXTENDS TextBuilder

Codes == {45, 49, 50, 55, 56, 58, 102, 32, 251}
MCPieces == {<<>>} \cup {<<a>> : a \in Codes} \cup {<<a, b>> : a, b \in {49, 50, 56}}
MCSeparator == Colon
MCIntMax == 127
MCOctet == 16
MCPortWord == 128
MCWord == 16
=============================================================================
