------------------------------- MODULE MCUri -------------------------------
EXTENDS Uri, TLC

V4(text) == [family |-> "inet", text |-> text]
V6(text) == [family |-> "inet6", text |-> text]

MCNumber == ("-3" :> -3) @@ ("0" :> 0) @@ ("80" :> 80) @@ ("554" :> 554) @@ ("8080" :> 8080)
            @@ ("65535" :> 65535) @@ ("65536" :> 65536)
MCService == ("http" :> [port |-> 80, protocols |-> <<"tcp">>])
             @@ ("tftp" :> [port |-> 554, protocols |-> <<"udp">>])
             @@ ("http-alt" :> [port |-> 8080, protocols |-> <<"tcp", "udp">>])
LongV6 == <<"a", ":", "b", "::", "c", ":", "80">>
MCLiterals == {Localhost, V6(<<"::", "80">>), V6(<<"::">>), V6(LongV6)}
MCHostName == [localhost |-> [unspec |-> <<V6(<<"::", "80">>), Localhost>>, inet |-> <<Localhost>>],
               dual |-> [unspec |-> <<Localhost, V6(<<"::">>)>>, inet |-> <<Localhost>>],
               v6only |-> [unspec |-> <<V6(<<"::">>)>>, inet |-> <<>>]]
MCHosts == {l.text : l \in MCLiterals}
           \cup {<<"localhost">>, <<"dual">>, <<"v6only">>, <<"999.999.999.999">>, <<"Hi!", ":">>}
MCPaths == {<<>>, <<"/">>, <<"/", "wiki", "/", "Wikipedia", ":", "80">>,
            <<"/", "http", ":", "/", "/", "dual">>}
MCTokens == DOMAIN MCNumber \cup DOMAIN MCService \cup DOMAIN MCHostName
            \cup UNION {{t[i] : i \in DOMAIN t} : t \in MCHosts \cup MCPaths}
            \cup {"httttttp", ":", "::", "/", "[", "]", ""}
MCWords == MCTokens \ {"http-alt", "-3", "127.0.0.1", "999.999.999.999", "Hi!",
                       ":", "::", "/", "[", "]", ""}
=============================================================================
