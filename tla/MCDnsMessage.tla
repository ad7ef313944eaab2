---------------------------- MODULE MCDnsMessage ----------------------------
(* Small instances of DnsMessage for TLC. *)
EXTENDS DnsMessage

\* Terminator, two label lengths, two pointer targets (12 is where the question starts)
\* and the mark of a pointer, which is a length no question may have.
MCOctets == {0, 1, 2, 12, 13, 192}

Record(type, rdata) ==
    [name |-> <<>>, type |-> type, class |-> QClass, ttl |-> <<0, 0, 1, 44>>,
     rdata |-> rdata]

Alias == Record(QTypeCNAME, <<<<97>>, <<98, 99>>>>)
Address == Record(QTypeA, <<192, 0, 2, 1>>)
Address6 == Record(QTypeAAAA, <<32, 1, 13, 184, 0, 0, 0, 0, 0, 0, 0, 0, 0, 0, 0, 1>>)
Authority == Record(QTypeSOA, <<MinimumTTL>>)

MCAnswers == { <<>>, <<Address>>, <<Alias, Address6>>, <<Alias, Authority, Address>> }

\* The name x.y is asked for; a response has an alias and an address, the alias
\* being compressed in two of them, a start of authority and additional addresses, or
\* nothing besides.
Question == <<1, 120, 1, 121, 0>> \o QTypeA \o QClass
Compressed == <<192, 12>> \o QTypeCNAME \o QClass \o <<0, 0, 1, 44, 0, 4, 1, 97, 192, 14>>

Response(an, ns, ar, records) ==
    <<0, 7, 129, 128, 0, 1, 0, an, 0, ns, 0, ar>> \o Question \o records

MCMessages ==
    { Response(2, 1, 1, EncodeRecord(Alias) \o EncodeRecord(Address)
                        \o EncodeRecord(Authority) \o EncodeRecord(Address)),
      Response(2, 0, 2, Compressed \o EncodeRecord(Address)
                        \o EncodeRecord(Address6) \o EncodeRecord(Address)),
      Response(2, 0, 0, Compressed \o EncodeRecord(Address)) }
=============================================================================
