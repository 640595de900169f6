--------------------------- MODULE MCSslConnection ---------------------------
(***************************************************************************)
(* Hosts and servers for PslSslConnection.                                 *)
(***************************************************************************)
EXTENDS PslSslConnection

Address == [text |-> <<"b">>, addr |-> "v4"]

MCHosts == {NoHost, Name(<<"a", ".", "b", ".", "a">>), Address}

Dns(text) == [type |-> "dns", ia5 |-> TRUE, name |-> Name(text)]
Common(name) == [utf8 |-> TRUE, name |-> name]

ForName == {Common(Name(<<"a", ".", "b", ".", "a">>))}

MCNames ==
    {[san |-> {Dns(<<"*", ".", "b", ".", "A">>)}, cn |-> {}],
     [san |-> {Dns(<<"b">>)}, cn |-> ForName],
     [san |-> {[type |-> "ip", ia5 |-> FALSE, name |-> Address]}, cn |-> ForName],
     [san |-> {[Dns(<<"b">>) EXCEPT !.ia5 = FALSE]}, cn |-> ForName],
     [san |-> {}, cn |-> {Common(Address)}]}

Lookalike == [subject |-> "peer", id |-> 3]

MCStores == {{}, {CertAt(0), Lookalike}, {CertAt(1), Lookalike}}

MCPeers ==
    [names : MCNames, errors : [Depths -> SUBSET CertErrors], store : MCStores]

=============================================================================
