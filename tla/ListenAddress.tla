--------------------------- MODULE ListenAddress ---------------------------
(***************************************************************************)
(* parse_port_string of qs_lib.cpp: from the text qs_params.listen_adr to  *)
(* the address that qs_start binds.                                        *)
(*                                                                         *)
(* A text is a sequence of tokens: a number, or a character.  The scans of *)
(* sscanf are operators on positions; At is "end" past the last token.     *)
(* Octets and ports have the widths ByteBits and PortBits (8 and 16).      *)
(* Texts are shorter than the 40 characters that %40[ ] takes.             *)
(***************************************************************************)
EXTENDS Integers, Sequences, FiniteSetsExt, Bitwise

CONSTANTS
  Value,       \* the value of each number token
  Chunks,      \* what texts are made of
  MaxChunks,   \* bound: how many
  ByteBits,
  PortBits

ASSUME WidthAssumption == {ByteBits, PortBits, MaxChunks} \subseteq Nat
ASSUME ValueAssumption == \A n \in DOMAIN Value : Value[n] \in Nat

VARIABLES
  text,        \* the listen address
  pieces,      \* chunks it is made of
  ipv6         \* the library was built with USE_IPV6

vars == <<text, pieces, ipv6>>

Numbers == DOMAIN Value
Blanks  == {" ", "tab"}

------------------------------------------------------------------------------
\* Scanning.

At(s, i) == IF i \in 1 .. Len(s) THEN s[i] ELSE "end"

\* A blank in a format, and what %d does first.
SkipBlanks(s, i) == Min({j \in i .. Len(s) : s[j] \notin Blanks} \cup {Len(s) + 1})

\* Where %40[^c] stops.
UpTo(s, i, c) == Min({j \in i .. Len(s) : s[j] = c} \cup {Len(s) + 1})

IsNumber(s, i) == At(s, i) \in Numbers

NoScan == [host |-> <<>>, port |-> -1]

\* " [%40[^]]]:%d%n"
ScanBracketed(s) ==
  LET open  == SkipBlanks(s, 1)
      close == UpTo(s, open + 1, "]")
      port  == SkipBlanks(s, close + 2)
  IN IF /\ At(s, open) = "["
        /\ close > open + 1
        /\ At(s, close) = "]" /\ At(s, close + 1) = ":"
        /\ IsNumber(s, port)
     THEN [host |-> SubSeq(s, open + 1, close - 1), port |-> Value[s[port]]]
     ELSE NoScan

\* " %40[^:]:%d%n"
ScanColon(s) ==
  LET first == SkipBlanks(s, 1)
      colon == UpTo(s, first, ":")
      port  == SkipBlanks(s, colon + 1)
  IN IF /\ colon > first
        /\ At(s, colon) = ":"
        /\ IsNumber(s, port)
     THEN [host |-> SubSeq(s, first, colon - 1), port |-> Value[s[port]]]
     ELSE NoScan

------------------------------------------------------------------------------
\* parse_ipvX_addr_string

Rejected == [ok |-> FALSE]
Accepted(family, addr, port) ==
  [ok |-> TRUE, family |-> family, addr |-> addr, port |-> port]

\* htons((uint16_t) port)
Port(n) == n % 2^PortBits

\* Faulty variant: the last two octets in the wrong order.
InetAddrSwapped(a, b, c, d) ==
  (a * 2^(3 * ByteBits) + b * 2^(2 * ByteBits) + d * 2^ByteBits + c)
    % 2^(4 * ByteBits)

\* (a << 24) | (b << 16) | (c << 8) | d, in 32 bits
InetAddr(a, b, c, d) ==
  ((((a * 2^(3 * ByteBits)) % 2^(4 * ByteBits)) | (b * 2^(2 * ByteBits)))
     | ((c * 2^ByteBits) | d)) % 2^(4 * ByteBits)

\* Faulty variant: what follows the last octet is not looked at.
ParseQuadPrefix(host, port) ==
  LET a == SkipBlanks(host, 1)
      b == SkipBlanks(host, a + 2)
      c == SkipBlanks(host, b + 2)
      d == SkipBlanks(host, c + 2)
  IN IF /\ \A i \in {a, b, c, d} : IsNumber(host, i)
        /\ \A i \in {a, b, c} : At(host, i + 1) = "."
     THEN Accepted("in", InetAddr(Value[host[a]], Value[host[b]],
                                  Value[host[c]], Value[host[d]]), Port(port))
     ELSE Rejected

\* "%d.%d.%d.%d%n" with n at the end: blanks may precede a number.
ParseQuad(host, port) ==
  LET a == SkipBlanks(host, 1)
      b == SkipBlanks(host, a + 2)
      c == SkipBlanks(host, b + 2)
      d == SkipBlanks(host, c + 2)
  IN IF /\ \A i \in {a, b, c, d} : IsNumber(host, i)
        /\ \A i \in {a, b, c} : At(host, i + 1) = "."
        /\ d = Len(host)
     THEN Accepted("in", InetAddr(Value[host[a]], Value[host[b]],
                                  Value[host[c]], Value[host[d]]), Port(port))
     ELSE Rejected

\* inet_pton takes a full address with octets in range and nothing else; of
\* the addresses of IPv6 only ::n is in the texts.
IsInet6(host) == Len(host) = 3 /\ IsNumber(host, 3) /\ host[1] = ":" /\ host[2] = ":"
IsInet(host) ==
  /\ Len(host) = 7
  /\ \A i \in {1, 3, 5, 7} : IsNumber(host, i) /\ Value[host[i]] < 2^ByteBits
  /\ \A i \in {2, 4, 6} : host[i] = "."

ParsePton(host, port) ==
  IF IsInet6(host) THEN Accepted("in6", Value[host[3]], Port(port))
  ELSE IF IsInet(host)
  THEN Accepted("in", InetAddr(Value[host[1]], Value[host[3]],
                               Value[host[5]], Value[host[7]]), Port(port))
  ELSE Rejected

ParseHost(scan) ==
  IF scan = NoScan THEN Rejected
  ELSE IF ipv6 THEN ParsePton(scan.host, scan.port)
  ELSE ParseQuad(scan.host, scan.port)

------------------------------------------------------------------------------
\* parse_port_string

\* Faulty variant: the family of IPv4 in every build.
ParseBareInet(s) ==
  LET n == SkipBlanks(s, 1)
  IN IF IsNumber(s, n) /\ At(s, n + 1) \in {"end", "s", "p", ","} \cup Blanks
     THEN Accepted("in", 0, Port(Value[s[n]]))
     ELSE Rejected

\* "%d%n", followed by nothing or by one of "sp, \t"
ParseBare(s) ==
  LET n == SkipBlanks(s, 1)
  IN IF IsNumber(s, n) /\ At(s, n + 1) \in {"end", "s", "p", ","} \cup Blanks
     THEN Accepted(IF ipv6 THEN "in6" ELSE "in", 0, Port(Value[s[n]]))
     ELSE Rejected

parse_port_string(s) ==
  LET bracketed == ParseHost(ScanBracketed(s))
      colon     == ParseHost(ScanColon(s))
  IN IF bracketed.ok THEN bracketed ELSE IF colon.ok THEN colon ELSE ParseBare(s)

\* socket_create: the family of the sockets that accept clients.
AcceptFamily == IF ipv6 THEN "in6" ELSE "in"

------------------------------------------------------------------------------
\* All texts made of Chunks.

Init == text = <<>> /\ pieces = 0 /\ ipv6 \in BOOLEAN

Extend ==
  \E chunk \in Chunks :
    /\ pieces < MaxChunks
    /\ pieces' = pieces + 1
    /\ text # <<>> => ~ (chunk[1] \in Numbers /\ text[Len(text)] \in Numbers)
    /\ text' = text \o chunk
    /\ UNCHANGED ipv6

Next == Extend

Spec == Init /\ [][Next]_vars

------------------------------------------------------------------------------
\* What the message of line 450, "[IP_ADDRESS:]PORT[s|p]", and the examples of
\* line 394 document.

Octet(s, i)   == At(s, i - 1) = "." \/ At(s, i + 1) = "."
InRange(s)    ==
  \A i \in DOMAIN s : s[i] \in Numbers =>
    Value[s[i]] < 2^(IF Octet(s, i) THEN ByteBits ELSE PortBits)

Unmarked(s) == IF Len(s) > 1 /\ s[Len(s)] \in {"s", "p"}
               THEN SubSeq(s, 1, Len(s) - 1) ELSE s

IsPort(s)     == Len(s) = 1 /\ s[1] \in Numbers
IsHostPort(s) == /\ Len(s) = 9
                 /\ \A i \in {1, 3, 5, 7, 9} : s[i] \in Numbers
                 /\ \A i \in {2, 4, 6} : s[i] = "."
                 /\ s[8] = ":"

Documented(s) == InRange(s) /\ (IsPort(Unmarked(s)) \/ IsHostPort(Unmarked(s)))

\* The four octets and the port, each in its place.
Meaning(s) ==
  LET v(i) == Value[s[i]]
  IN IF IsPort(Unmarked(s)) THEN Accepted(AcceptFamily, 0, v(1))
     ELSE Accepted("in", v(7) + 2^ByteBits * (v(5) + 2^ByteBits *
                           (v(3) + 2^ByteBits * v(1))), v(9))

\* Every documented address is accepted, whatever the build, and means what it
\* says, although each of the three scans is tried in turn on the whole text.
DocumentedAccepted ==
  Documented(text) => parse_port_string(text) = Meaning(text)

\* The text without blanks and brackets.
Squeezed == SelectSeq(text, LAMBDA t : t \notin Blanks \cup {"[", "]"})

\* In a build for IPv4: a text whose numbers are in range is accepted as an
\* address of that family only if the text begins with this address.  A host
\* that does not parse is not skipped in favour of a port further on, and no
\* number is taken from another place.
AcceptedNamesItsStart ==
  LET result == parse_port_string(text)
  IN (result.ok /\ result.family = AcceptFamily /\ ~ ipv6 /\ InRange(text)) =>
       \E n \in 1 .. Len(Squeezed) :
         /\ Documented(SubSeq(Squeezed, 1, n))
         /\ Meaning(SubSeq(Squeezed, 1, n)) = result

\* The listener has the family of the sockets that socket_create makes for its
\* accepts, which AcceptEx requires, except that a build for IPv6 takes an IPv4
\* address and then cannot accept on it.
FamilyMatches ==
  LET result == parse_port_string(text)
  IN result.ok => \/ result.family = AcceptFamily
                  \/ ipv6 /\ \E i \in DOMAIN text : text[i] = "."

==============================================================================
