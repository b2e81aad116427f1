-------------------------------- MODULE Uri --------------------------------
(***************************************************************************)
(* Addresses as text: what the constructors of Address make of a URI, of a *)
(* host and a service, and of a port, and what to_string prints.  A text   *)
(* is a sequence of tokens: words, numbers and punctuation.  Resolving is  *)
(* external: getaddrinfo knows some hosts and services.                    *)
(***************************************************************************)
EXTENDS Integers, Sequences

CONSTANTS
  Tokens,   \* what texts are made of
  Words,    \* those of letters, digits and underscores only, which \w+ matches
  Number,   \* number tokens -> their value
  Service,  \* names of services -> [port, protocols]
  HostName, \* names of hosts -> the addresses of either family, and those of IPv4
  Literals, \* numeric hosts, as records of family and text
  Schemes,  \* services, known or not, that may precede ://
  Hosts,    \* texts that are given as a host, known or not
  Paths,    \* texts that may follow a host
  MaxHost   \* NI_MAXHOST, in tokens

Colons == {":", "::"}  \* tokens with a colon in them
PortMax == 65535
Digits == {n \in DOMAIN Number : Number[n] >= 0}  \* \d+, which has no sign
Both == <<"tcp", "udp">>
Nothing == <<>>        \* an empty text; in place of a list, an exception
Localhost == [family |-> "inet", text |-> <<"127.0.0.1">>]

Text == Seq(Tokens)
Punctuation == Colons \cup {"/", "[", "]", ""}  \* "" stands for NUL

\* Tokens are of one sort: a name is no number, and neither is punctuation.  The name
\* of a service need not be a word: many have a hyphen.
ASSUME TokenAssumption ==
  /\ DOMAIN Number \cup DOMAIN Service \cup DOMAIN HostName \cup Schemes \cup Words
       \subseteq Tokens \ Punctuation
  /\ Punctuation \subseteq Tokens
  /\ DOMAIN Number \cap (DOMAIN Service \cup Schemes) = {}
  /\ \A n \in DOMAIN Number : Number[n] \in Int

\* Services have ports, which can be written as numbers, and so can none.
ASSUME ServiceAssumption ==
  /\ \A s \in DOMAIN Service : /\ Service[s].port \in 1..PortMax
                              /\ Service[s].protocols \in Seq({"tcp", "udp"}) \ {<<>>}
  /\ \A port \in {0} \cup {Service[s].port : s \in DOMAIN Service} :
       \E n \in DOMAIN Number : Number[n] = port

\* Numeric hosts are told apart by their text, fit into the buffer of to_string and
\* are not names; those of IPv4 have dots only, and none ends in a single colon or in a
\* number with a sign.  localhost has the address of IPv4 that it has everywhere.
ASSUME LiteralAssumption ==
  /\ MaxHost \in Nat
  /\ Literals \subseteq [family : {"inet", "inet6"}, text : Text \ {<<>>}]
  /\ \A l \in Literals :
       /\ Len(l.text) < MaxHost
       /\ ~(Len(l.text) = 1 /\ l.text[1] \in DOMAIN HostName)
       /\ \A i \in DOMAIN l.text :
            /\ l.text[i] \notin Punctuation \ Colons
            /\ l.family = "inet" => l.text[i] \notin Colons
       /\ l.text[Len(l.text)] \notin {":"} \cup (DOMAIN Number \ Digits)
  /\ \A k, l \in Literals : k.text = l.text => k = l
  /\ Localhost \in Literals
  /\ HostName \in [DOMAIN HostName -> [unspec : Seq(Literals) \ {<<>>}, inet : Seq(Literals)]]
  /\ "localhost" \in DOMAIN HostName
  /\ HostName["localhost"].inet # Nothing /\ HostName["localhost"].inet[1] = Localhost

VARIABLES
  typed,  \* whether getaddrinfo tells types and protocols, which Windows does not
  phase,  \* "idle", "given" to a constructor, or "made"
  given,  \* a URI, a host and a service, or a port
  meant,  \* the address that this stands for, in a list, which is else empty
  info    \* the list of addrinfo

uriVars == <<typed, phase, given, meant, info>>

-----------------------------------------------------------------------------
\* getaddrinfo

\* the addresses of a host, for the hint of a family
Addresses(host, family) ==
  IF Len(host) = 1 /\ host[1] \in DOMAIN HostName
  THEN HostName[host[1]][family]
  ELSE LET found == {l \in Literals : l.text = host /\ family \in {"unspec", l.family}}
       IN IF found = {} THEN Nothing ELSE <<CHOOSE l \in found : TRUE>>

Served(serv, numeric) ==
  IF serv = Nothing THEN [port |-> 0, protocols |-> Both]
  ELSE IF serv[1] \in DOMAIN Number THEN [port |-> Number[serv[1]], protocols |-> Both]
  ELSE IF serv[1] \in DOMAIN Service /\ ~ numeric THEN Service[serv[1]]
  ELSE [port |-> 0, protocols |-> Nothing]

Node(a, port, protocol) ==
  [family |-> a.family, text |-> a.text, port |-> port, protocol |-> protocol]

\* for each address one entry per protocol, or a single one without
GetAddrInfo(host, serv, numeric, family) ==
  LET as == Addresses(host, family)
      s == Served(serv, numeric)
      protocols == IF typed \/ s.protocols = Nothing THEN s.protocols ELSE <<"any">>
      n == Len(protocols)
  IN [i \in 1..(n * Len(as)) |->
        Node(as[((i - 1) \div n) + 1], s.port, protocols[((i - 1) % n) + 1])]

-----------------------------------------------------------------------------
OutOfRange(number) == Number[number] \notin 0..PortMax

\* Mutant: the expression searches for :// behind anything, as .* would.
SchemeEndAnywhere(uri) ==
  LET ends == {n \in 3..(Len(uri) - 1) : SubSeq(uri, n - 2, n) = <<":", "/", "/">>}
  IN IF ends = {} THEN 0 ELSE CHOOSE n \in ends : \A m \in ends : m <= n

\* where ((^\w+)?://)? ends; what follows must not be a slash, else the
\* expression matches without this part
SchemeEnd(uri) ==
  LET ends == {n \in 3..(Len(uri) - 1) :
                 /\ \A i \in 1..(n - 3) : uri[i] \in Words
                 /\ SubSeq(uri, n - 2, n) = <<":", "/", "/">>
                 /\ uri[n + 1] # "/"}
  IN IF ends = {} THEN 0 ELSE CHOOSE n \in ends : TRUE

\* ([^/]+), which ends before the path
HostPart(uri) ==
  LET first == SchemeEnd(uri) + 1
      last == CHOOSE n \in first..Len(uri) :
                /\ \A i \in first..n : uri[i] # "/"
                /\ n < Len(uri) => uri[n + 1] = "/"
  IN SubSeq(uri, first, last)

EndsInPort(part) ==
  LET n == Len(part) IN n > 2 /\ part[n] \in Digits /\ part[n - 1] = ":"

\* rePortBracket
Bracketed(part) == EndsInPort(part) /\ part[1] = "[" /\ part[Len(part) - 2] = "]"

\* rePort
Plain(part) ==
  EndsInPort(part) /\ \A i \in 1..(Len(part) - 2) : part[i] \notin Colons

\* What is given as a host may be any text that does not read as something else: as
\* a host with a port, which takes a single colon before digits, or as a service, if
\* the path has two slashes.
ASSUME TextAssumption ==
  /\ Hosts \subseteq Text \ {<<>>}
  /\ \A h \in Hosts :
       /\ \A i \in DOMAIN h : h[i] \notin {"/", "[", "]"}
       /\ ~Plain(h)
       /\ h[Len(h)] = ":" => \E i \in 1..(Len(h) - 1) : h[i] \notin Words
  /\ Paths \subseteq Text
  /\ \A p \in Paths : p = Nothing \/ p[1] = "/"

UriDissect(uri) ==
  LET part == HostPart(uri)
      n == Len(part)
  IN IF Bracketed(part)
     THEN [host |-> SubSeq(part, 2, n - 3), serv |-> <<part[n]>>, numeric |-> TRUE]
     ELSE IF Plain(part)
     THEN [host |-> SubSeq(part, 1, n - 2), serv |-> <<part[n]>>, numeric |-> TRUE]
     ELSE [host |-> part, serv |-> SubSeq(uri, 1, SchemeEnd(uri) - 3), numeric |-> FALSE]

ParseUri(uri) ==
  LET d == UriDissect(uri)
  IN IF uri = Nothing \/ (d.numeric /\ OutOfRange(d.serv[1]))
     THEN Nothing
     ELSE GetAddrInfo(d.host, d.serv, d.numeric, "unspec")

ParseHostServ(host, serv) ==
  IF serv = Nothing \/ (serv[1] \in DOMAIN Number /\ OutOfRange(serv[1]))
  THEN Nothing
  ELSE GetAddrInfo(host, serv, FALSE, "unspec")

\* Mutant: the family is not forced.
ParsePortUnspec(port) == GetAddrInfo(<<"localhost">>, <<port>>, TRUE, "unspec")

ParsePort(port) == GetAddrInfo(<<"localhost">>, <<port>>, TRUE, "inet")

-----------------------------------------------------------------------------
\* the first entry for a protocol, in a list that is else empty
Find(list, protocol) ==
  LET fits == {i \in DOMAIN list : list[i].protocol \in {"any", protocol}}
  IN IF fits = {} THEN Nothing
     ELSE <<list[CHOOSE i \in fits : \A j \in fits : i <= j]>>

Endpoint(node) == [family |-> node.family, text |-> node.text, port |-> node.port]
ForAny(list) == Endpoint(list[1])

\* The buffer of to_string takes the longest host and service, and what
\* surrounds them; they are moved together in it.  "" stands for NUL.
Printed(a, port) ==
  LET v6 == IF a.family = "inet" THEN 0 ELSE 1
      serv == MaxHost + 1 + 2 * v6
      buffer == [i \in 0..(serv + 1) |->
        IF i = serv THEN port
        ELSE IF i = serv - 1 THEN ":"
        ELSE IF i = serv - 2 /\ v6 = 1 THEN "]"
        ELSE IF i = 0 /\ v6 = 1 THEN "["
        ELSE IF i - v6 \in 0..(Len(a.text) - 1) THEN a.text[i - v6 + 1]
        ELSE ""]
      hostEnd == CHOOSE i \in v6..serv : /\ buffer[i] = ""
                                         /\ \A j \in v6..(i - 1) : buffer[j] # ""
      tail == serv - 1 - v6
  IN [i \in 1..(hostEnd + serv + 1 - tail) |->
        IF i <= hostEnd THEN buffer[i - 1] ELSE buffer[tail + i - hostEnd - 1]]

Token(port) == CHOOSE n \in DOMAIN Number : Number[n] = port

-----------------------------------------------------------------------------
UriInit ==
  /\ typed \in BOOLEAN
  /\ phase = "idle"
  /\ given = [way |-> "none", host |-> Nothing, serv |-> Nothing]
  /\ meant = Nothing
  /\ info = Nothing

Give(way, host, serv, meaning) ==
  /\ phase' = "given"
  /\ given' = [way |-> way, host |-> host, serv |-> serv]
  /\ meant' = meaning
  /\ info' = Nothing
  /\ UNCHANGED typed

\* what a host and a service stand for
Meaning(host, serv) ==
  LET list == GetAddrInfo(host, serv, FALSE, "unspec")
  IN IF list = Nothing \/ list[1].port \notin 0..PortMax THEN Nothing ELSE <<ForAny(list)>>

Optional(S) == {Nothing} \cup {<<t>> : t \in S}

\* The URIs of address.h:16 to 19, with a number for the port.  An IPv6 host
\* takes brackets if a port follows.
GiveUri ==
  \E scheme \in Optional(Schemes), host \in Hosts,
     port \in Optional(DOMAIN Number), path \in Paths :
    LET before == IF scheme = Nothing THEN Nothing ELSE scheme \o <<":", "/", "/">>
        closed == IF \E i \in DOMAIN host : host[i] \in Colons
                  THEN <<"[">> \o host \o <<"]">> ELSE host
        part == IF port = Nothing THEN host ELSE closed \o <<":">> \o port
    IN Give("uri", before \o part \o path, Nothing,
            Meaning(host, IF port = Nothing THEN scheme ELSE port))

GiveHostServ ==
  \E host \in Hosts, serv \in Optional(DOMAIN Number \cup DOMAIN Service) \ {Nothing} :
    Give("pair", host, serv, Meaning(host, serv))

GivePort ==
  \E port \in {n \in DOMAIN Number : Number[n] \in 0..PortMax} :
    Give("port", Nothing, <<port>>,
         <<[family |-> "inet", text |-> Localhost.text, port |-> Number[port]]>>)

\* What an address prints is given to a constructor again: its to_string, or
\* its Host() and Service().
GivePrinted ==
  /\ phase = "made" /\ info # Nothing
  /\ LET port == Token(info[1].port)
     IN \/ Give("uri", Printed(info[1], port), Nothing, <<ForAny(info)>>)
        \/ Give("pair", info[1].text, <<port>>, <<ForAny(info)>>)

Parsed == CASE given.way = "uri"  -> ParseUri(given.host)
            [] given.way = "pair" -> ParseHostServ(given.host, given.serv)
            [] given.way = "port" -> ParsePort(given.serv[1])

Make ==
  /\ phase = "given"
  /\ phase' = "made"
  /\ info' = Parsed
  /\ UNCHANGED <<typed, given, meant>>

UriNext ==
  \/ phase # "given" /\ (GiveUri \/ GiveHostServ \/ GivePort)
  \/ GivePrinted
  \/ Make

UriSpec == UriInit /\ [][UriNext]_uriVars

-----------------------------------------------------------------------------
Fits(list, meaning) ==
  IF meaning = Nothing
  THEN list = Nothing
  ELSE /\ list # Nothing
       /\ ForAny(list) = meaning[1]
       /\ \A p \in {"tcp", "udp"} : \A i \in DOMAIN Find(list, p) :
            Endpoint(Find(list, p)[i]) = meaning[1]

\* A service that is no word before ://, such as one with a hyphen, is not taken for
\* one: ^\w+ ends at the hyphen, and the host is what precedes the slashes.
Unread ==
  /\ given.way = "uri" /\ Len(given.host) > 4
  /\ given.host[1] \in Schemes \ Words
  /\ SubSeq(given.host, 2, 4) = <<":", "/", "/">>

\* A text is understood as it was meant, or refused where it means nothing: whatever
\* kind of host, port and path it has, whatever service that is a word, and also if it
\* was printed from an address.  With any other service before :// it is refused if it
\* is not understood, never taken for some other address.  A socket that is created for
\* the family of the first entry gets an endpoint of that family, whichever protocol it
\* asks for (address_impl.cpp:28, 251, 358).
Understood == phase = "made" => Fits(info, meant) \/ (Unread /\ info = Nothing)

=============================================================================
