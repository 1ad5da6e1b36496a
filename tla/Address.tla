------------------------------ MODULE Address -------------------------------
(***************************************************************************)
(* ipv4_endpoint of src/modules/reax/net.hpp: the text "a.b.c.d:port".  A *)
(* number in it is not checked, it is added to the word of four octets;    *)
(* the port loses what does not fit.                                       *)
(***************************************************************************)
EXTENDS Mestring, ParseInt

CONSTANTS
  Octet,    \* values of an octet (256)
  PortWord  \* values of a port (65536)

ASSUME AddressAssumption ==
  /\ Octet \in Nat \ {0} /\ PortWord \in Nat \ {0}
  /\ Octet - 1 <= IntMax /\ PortWord - 1 <= IntMax

Dot == <<46>>
Colon == <<58>>

\* Four numbers as a word of unsigned arithmetic.
AddressOf(n) ==
  (((n[1] * Octet + n[2]) * Octet + n[3]) * Octet + n[4])
    % (Octet * Octet * Octet * Octet)

\* parse_addr()
ParseAddr(text) ==
  LET parts == StaticSplit(text, Dot, 4) IN
  IF parts = Throw THEN {}
  ELSE {AddressOf(<<a, b, c, d>>) :
          a \in ParseIntIn(parts[1], 10), b \in ParseIntIn(parts[2], 10),
          c \in ParseIntIn(parts[3], 10), d \in ParseIntIn(parts[4], 10)}

\* parse_ipv4()
ParseIPv4(text) ==
  LET parts == StaticSplit(text, Colon, 2) IN
  IF parts = Throw THEN {}
  ELSE {[address |-> a, port |-> p % PortWord] :
          a \in ParseAddr(parts[1]), p \in ParseIntIn(parts[2], 10)}

\* p() of the endpoint, which operator<< prints.
Part(endpoint, i) ==
  LET below == <<Octet * Octet * Octet, Octet * Octet, Octet, 1>>
  IN (endpoint.address \div below[i + 1]) % Octet

Decimal(n) ==
  LET digits[k \in 0 .. n] ==
        IF k < 10 THEN <<48 + k>> ELSE digits[k \div 10] \o <<48 + (k % 10)>>
  IN digits[n]

Printed(endpoint) ==
  LET p(i) == Decimal(Part(endpoint, i)) IN
  p(0) \o Dot \o p(1) \o Dot \o p(2) \o Dot \o p(3) \o Colon \o Decimal(endpoint.port)
=============================================================================
