------------------------------ MODULE DnsMessage ------------------------------
(***************************************************************************)
(* The wire format of DNS messages, internal/dns/parse.go and build.go, on *)
(* octets: names with and without compression, questions, resource record  *)
(* sections, and the messages the program builds.                          *)
(*                                                                         *)
(* A domain is the sequence of its labels; the code joins them with dots,  *)
(* which comes to the same for labels that contain none.  Record data is   *)
(* the octets of an address or the labels of a name instead of their text. *)
(* The minimum of the TTLs is in UpstreamManager, which takes it again.    *)
(*                                                                         *)
(* The state machine supplies inputs: a packet that arrives octet by octet *)
(* and a complete message that is cut off, as the 512-octet buffer of the  *)
(* bootstrap client does.                                                  *)
(***************************************************************************)
EXTENDS Naturals, Sequences, SequencesExt

CONSTANTS
    Octets,    \* what the body of an arriving packet is made of
    MaxBody,   \* bound on the length of that body
    Answers,   \* record sequences to answer with
    Messages   \* complete responses

Header == 12

Dot == 46

\* The complete responses are made of octets.
ASSUME MessagesAssumption == Messages \subseteq Seq(0..255)

\* Labels with a dot in them are left out: the code tells no difference between
\* such a label and two labels.
ASSUME OctetAssumption == Octets \subseteq (0..255) \ {Dot}

QTypeA == <<0, 1>>
QTypeAAAA == <<0, 28>>
QTypeCNAME == <<0, 5>>
QTypeSOA == <<0, 6>>
QClass == <<0, 1>>
MinimumTTL == 300
RcodeNXDomain == 3

\* The octets of a word of n octets.
Word(n) == {w \in Seq(0..255) : Len(w) = n}

\* A label after RFC 1035.
Label == {l \in Seq(0..255) : Len(l) \in 1..63}

-----------------------------------------------------------------------------
(* Names.  Offsets count from 0, as in the code. *)

Failure == [ok |-> FALSE]
Name(labels, end) == [ok |-> TRUE, labels |-> labels, end |-> end]

Octet(packet, offset) == packet[offset + 1]
Slice(packet, from, to) == SubSeq(packet, from + 1, to)

\* Seeded fault: reading goes on after the name the pointer leads to.
AfterTarget(offset, target) == target.end

\* Reading goes on after the pointer.
AfterPointer(offset, target) == offset + 2

\* unpackName.  name[s] is the name that starts at s; reading it, read[o] is what is
\* left of it from offset o on.  A pointer has to lead to before s, so the bounds on
\* jumps never matter, and is not accepted in the question.
UnpackName(packet, start, qSection) ==
    LET size == Len(packet)
        name[s \in 0..start] ==
            LET question == qSection /\ s = start
                read[o \in s..size] ==
                    IF o = size THEN Name(<<>>, o)
                    ELSE
                    LET length  == Octet(packet, o)
                        pointer == (length % 64) * 256 + Octet(packet, o + 1)
                        rest    == read[o + 1 + length]
                        target  == name[pointer]
                    IN  IF length = 0 THEN Name(<<>>, o + 1)
                        ELSE IF question /\ length > 63 THEN Failure
                        ELSE IF length >= 192 THEN
                             IF o + 1 = size \/ pointer >= s THEN Failure
                             ELSE IF target.ok
                                  THEN Name(target.labels, AfterPointer(o, target))
                             ELSE IF s < o THEN Name(<<>>, o + 2)
                             ELSE Failure
                        ELSE IF o + 1 + length > size \/ ~rest.ok THEN Failure
                        ELSE Name(<<Slice(packet, o + 1, o + 1 + length)>> \o rest.labels,
                                  rest.end)
            IN  read[s]
    IN  IF start < size THEN name[start] ELSE Failure

\* parseUncompressedName; no labels if it fails.
UncompressedName(data) ==
    LET read[o \in 0..Len(data)] ==
            IF o = Len(data) \/ Octet(data, o) = 0 THEN Name(<<>>, o)
            ELSE LET end  == o + 1 + Octet(data, o)
                     rest == read[end]
                 IN  IF Octet(data, o) >= 192 \/ end > Len(data) \/ ~rest.ok
                     THEN Failure
                     ELSE Name(<<Slice(data, o + 1, end)>> \o rest.labels, end)
        name == read[0]
    IN  IF name.ok THEN name.labels ELSE <<>>

\* encodeDomainName: splitting the empty string yields one empty label.
EncodeDomainName(labels) ==
    IF labels = <<>> THEN <<0>>
    ELSE FlattenSeq([i \in DOMAIN labels |-> <<Len(labels[i])>> \o labels[i]])

\* encodeU16 of an int that is converted to uint16 first.
EncodeU16(v) == <<(v \div 256) % 256, v % 256>>

-----------------------------------------------------------------------------
(* Queries *)

ParseQuery(packet) ==
    LET name == UnpackName(packet, Header, TRUE)
    IN  IF \/ Len(packet) < Header
           \/ Slice(packet, 4, 6) = <<0, 0>>
           \/ ~name.ok
           \/ name.end + 4 > Len(packet)
        THEN Failure
        ELSE [ok |-> TRUE, domain |-> name.labels,
              type |-> Slice(packet, name.end, name.end + 2)]

\* Seeded fault: the name is not terminated.
BuildQueryUnterminated(domain, type) ==
    <<0, 0, 1, 0, 0, 1, 0, 0, 0, 0, 0, 0>> \o EncodeDomainName(domain) \o type \o QClass

BuildQuery(domain, type) ==
    <<0, 0, 1, 0, 0, 1, 0, 0, 0, 0, 0, 0>> \o EncodeDomainName(domain) \o <<0>> \o type
    \o QClass

-----------------------------------------------------------------------------
(* Responses *)

\* parseRData; <<>> where the code returns "".
ParseRData(packet, type, from, to) ==
    LET data == Slice(packet, from, to)
        name == UnpackName(packet, from, FALSE)
    IN  CASE type = QTypeA /\ Len(data) = 4 -> data
          [] type = QTypeAAAA /\ Len(data) = 16 -> data
          [] type = QTypeCNAME ->
                IF UncompressedName(data) # <<>> THEN UncompressedName(data)
                ELSE IF name.ok THEN name.labels ELSE <<>>
          [] type = QTypeSOA -> <<MinimumTTL>>
          [] OTHER -> <<>>

Section(ok, records, offset) == [ok |-> ok, records |-> records, offset |-> offset]

\* The section after one more record, whose name has been read.  Where it fails it
\* also says at which offset.
AfterRecord(packet, done, name) ==
    LET head  == name.end + 10
        rdLen == 256 * Octet(packet, head - 2) + Octet(packet, head - 1)
        type  == Slice(packet, name.end, name.end + 2)
        rdata == ParseRData(packet, type, head, head + rdLen)
    IN  CASE ~done.ok -> done
          [] done.ok /\ ~name.ok -> Section(FALSE, done.records, done.offset)
          [] done.ok /\ name.ok /\ head > Len(packet) ->
                Section(FALSE, done.records, name.end)
          [] done.ok /\ name.ok /\ head <= Len(packet) /\ head + rdLen > Len(packet) ->
                Section(FALSE, done.records, head)
          [] OTHER ->
                Section(TRUE,
                        IF rdata = <<>> THEN done.records
                        ELSE Append(done.records,
                               [name  |-> name.labels,
                                type  |-> type,
                                class |-> Slice(packet, head - 8, head - 6),
                                ttl   |-> Slice(packet, head - 6, head - 2),
                                rdata |-> rdata]),
                        head + rdLen)

\* unpackRRSection.
UnpackRRSection(packet, count, start) ==
    LET Next(done) == AfterRecord(packet, done, UnpackName(packet, done.offset, FALSE))
        after[i \in 0..count] ==
            IF i = 0 THEN Section(TRUE, <<>>, start) ELSE Next(after[i - 1])
    IN  after[count]

\* Answer, authority and additional section are 1 to 3; each starts where the one
\* before it ended or failed, and the first at start.
Sections(packet, start) ==
    LET Count(i) == 256 * Octet(packet, 4 + 2 * i) + Octet(packet, 5 + 2 * i)
        section[i \in 0..3] ==
            IF i = 0 THEN Section(TRUE, <<>>, start)
            ELSE UnpackRRSection(packet, Count(i), section[i - 1].offset)
    IN  section

\* Seeded fault: a section that fails contributes the records before the failure.
KeptAnyway(sections) ==
    sections[1].records \o sections[2].records \o sections[3].records

\* A section that fails contributes nothing.
Kept(sections) ==
    LET Records(s) == IF s.ok THEN s.records ELSE <<>>
    IN  Records(sections[1]) \o Records(sections[2]) \o Records(sections[3])

ParseResponse(packet) ==
    LET question == UnpackName(packet, Header, TRUE)
        rcode    == Octet(packet, 3) % 16
        records  == Kept(Sections(packet, question.end + 4))
    IN  IF Len(packet) < Header THEN Failure
        ELSE IF rcode \notin {0, RcodeNXDomain} THEN Failure
        ELSE IF ~question.ok THEN Failure
        ELSE IF question.end + 4 > Len(packet) THEN Failure
        ELSE [ok |-> TRUE, records |-> records,
              nxdomain |-> rcode = RcodeNXDomain /\ records = <<>>]

\* Seeded fault: the name in the data is not terminated.
EncodeRDataUnterminated(type, rdata) ==
    CASE type \in {QTypeA, QTypeAAAA} -> rdata
      [] type = QTypeCNAME -> EncodeDomainName(rdata)
      [] OTHER -> <<>>

\* What parseRData makes of an SOA is not turned into an SOA again.
EncodeRData(type, rdata) ==
    CASE type \in {QTypeA, QTypeAAAA} -> rdata
      [] type = QTypeCNAME -> EncodeDomainName(rdata) \o <<0>>
      [] OTHER -> <<>>

\* A record as ParseRData yields it, the name an alias stands for being valid.
IsAnswer(r) ==
    /\ r \in [name : {r.name}, type : Word(2), class : Word(2), ttl : Word(4),
             rdata : {r.rdata}]
    /\ \/ r.type = QTypeA /\ r.rdata \in Word(4)
       \/ r.type = QTypeAAAA /\ r.rdata \in Word(16)
       \/ r.type = QTypeCNAME /\ r.rdata \in Seq(Label) \ {<<>>}
       \/ r.type = QTypeSOA /\ r.rdata = <<MinimumTTL>>
    /\ Len(EncodeRData(r.type, r.rdata)) < 65536

\* The records and the octets of their data are counted in words of two octets.
ASSUME AnswersAssumption ==
    \A records \in Answers :
        /\ records \in Seq(Range(records)) /\ Len(records) < 65536
        /\ \A i \in DOMAIN records : IsAnswer(records[i])

\* Every record is given to the name in the question, at offset 12.
EncodeRecord(r) ==
    LET rdata == EncodeRData(r.type, r.rdata)
    IN  <<192, Header>> \o r.type \o r.class \o r.ttl
        \o EncodeU16(Len(rdata)) \o rdata

QuestionEndOffset(packet) ==
    LET name == UnpackName(packet, Header, TRUE)
    IN  IF Len(packet) < Header \/ ~name.ok THEN Header
        ELSE IF name.end + 4 > Len(packet) THEN name.end
        ELSE name.end + 4

BuildResponse(query, records) ==
    Slice(query, 0, 2) \o <<129, 128, 0, 1>> \o EncodeU16(Len(records)) \o <<0, 0, 0, 0>>
    \o Slice(query, Header, QuestionEndOffset(query))
    \o FlattenSeq([i \in DOMAIN records |-> EncodeRecord(records[i])])

BuildErrorResponse(query, rcode) ==
    Slice(query, 0, 2) \o <<129, 128 + rcode, 0, 1, 0, 0, 0, 0, 0, 0>>
    \o Slice(query, Header, QuestionEndOffset(query))

-----------------------------------------------------------------------------
(* Inputs *)

VARIABLES
    packet,  \* what has been received
    whole    \* the message it is cut off from, or <<>>

messages == <<packet, whole>>

QueryHeader == <<0, 7, 1, 0, 0, 1, 0, 0, 0, 0, 0, 0>>

MessageInit ==
    \/ packet = QueryHeader /\ whole = <<>>
    \/ whole \in Messages /\ packet = whole

Receive(octet) ==
    /\ whole = <<>> /\ Len(packet) < Header + MaxBody
    /\ packet' = Append(packet, octet)
    /\ UNCHANGED whole

CutOff ==
    /\ whole # <<>> /\ packet # <<>>
    /\ packet' = Front(packet)
    /\ UNCHANGED whole

MessageNext == CutOff \/ \E octet \in Octets : Receive(octet)

MessageSpec == MessageInit /\ [][MessageNext]_messages

-----------------------------------------------------------------------------
(* Properties *)

\* The name at an offset after RFC 1035, by hops from octet to octet: a label of
\* at most 63 octets leads behind itself, and a pointer to an earlier offset than
\* any that was visited, until there is a zero.  Nothing if there is no such name.
\* The bound is never reached: after a second visit of an offset the hops are the
\* old ones, which end at the first pointer.
ReferenceNames(p, start) ==
    LET IsPointer(o) == Octet(p, o) >= 192
        Hop(o) == IF IsPointer(o) THEN (Octet(p, o) % 64) * 256 + Octet(p, o + 1)
                  ELSE o + 1 + Octet(p, o)
        Stuck(path) ==
            LET o == Last(path)
            IN  \/ o >= Len(p) \/ Len(path) > 2 * Len(p)
                \/ Octet(p, o) \in {0} \cup 64..191
                \/ IsPointer(o) /\ (o + 1 = Len(p) \/ \E v \in ToSet(path) : Hop(o) >= v)
        walk[path \in Seq(Nat) \ {<<>>}] ==
            IF Stuck(path) THEN path ELSE walk[Append(path, Hop(Last(path)))]
        visited == walk[<<start>>]
        hops    == 1..Len(visited) - 1
        jumps   == {i \in hops : IsPointer(visited[i])}
        labels[i \in 1..Len(visited)] ==
            IF i = Len(visited) THEN <<>>
            ELSE IF i \in jumps THEN labels[i + 1]
            ELSE <<Slice(p, visited[i] + 1, Hop(visited[i]))>> \o labels[i + 1]
        end == IF jumps = {} THEN Last(visited) + 1 ELSE visited[Min(jumps)] + 2
    IN  IF Last(visited) < Len(p) /\ Octet(p, Last(visited)) = 0
        THEN {Name(labels[1], end)} ELSE {}

\* Every name that RFC 1035 allows, however it is compressed, is read as the RFC
\* says, and reading goes on at the right place; in a question, where no pointer
\* is accepted, only those without one.
NamesAreRead ==
    \A start \in Header..Len(packet) - 1 : \A name \in ReferenceNames(packet, start) :
        /\ UnpackName(packet, start, FALSE) = name
        /\ UnpackName(packet, start, TRUE) \in {name, Failure}

\* Whatever question is accepted, the response built for it repeats the question
\* and reads back as the records it was built from, all owned by the name asked; the
\* name an alias stands for is complete, for clients that read it as RFC 1035 says.
\* An error response repeats the question, and reads back as the error.
AnswersReadBack ==
    LET query == ParseQuery(packet)
        missing == BuildErrorResponse(packet, RcodeNXDomain)
    IN  whole = <<>> /\ query.ok =>
        /\ ParseQuery(missing) = query
        /\ ParseResponse(missing) = [ok |-> TRUE, records |-> <<>>, nxdomain |-> TRUE]
        /\ \A records \in Answers :
            LET response == BuildResponse(packet, records)
                owned == [i \in DOMAIN records |->
                             [records[i] EXCEPT !.name = query.domain]]
            IN  /\ ParseQuery(response) = query
                /\ ParseResponse(response) =
                      [ok |-> TRUE, records |-> owned, nxdomain |-> FALSE]
                /\ \A r \in {r \in Range(records) : r.type = QTypeCNAME} :
                      LET rdata == EncodeRData(r.type, r.rdata)
                      IN  ReferenceNames(rdata, 0) = {Name(r.rdata, Len(rdata))}

\* The query sent upstream asks what the client asked, except for the root name,
\* whose query gets one zero octet too many.
QuestionForwarded ==
    LET query == ParseQuery(packet)
    IN  whole = <<>> /\ query.ok /\ query.domain # <<>> =>
            ParseQuery(BuildQuery(query.domain, query.type)) = query

WholeRecords(sections) ==
    { <<>>, sections[1].records, sections[1].records \o sections[2].records,
      Kept(sections) }

\* A response that is cut off yields the records of the sections that arrived
\* whole: never a record the complete message does not have, nor half a section.
\* (Of messages with several sections this is asked where no record's data, taken by
\* itself, reads as a record: the next section starts in the data that is cut.)
WholeSections ==
    whole # <<>> /\ ParseResponse(packet).ok =>
        ParseResponse(packet).records
            \in WholeRecords(Sections(whole, UnpackName(whole, Header, TRUE).end + 4))
=============================================================================
