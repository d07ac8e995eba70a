---------------------------- MODULE RadiusCodec ----------------------------
(***************************************************************************)
(* RADIUS packets as the authenticator builds and reads them (radius.py,     *)
(* radius_attributes.py, radius_datatypes.py and the RADIUS half of          *)
(* message_parser.py, under subset/dot1x/authenticator). Attributes are      *)
(* packed to bytes; the 20 bytes of the header are a record.                 *)
(*                                                                          *)
(* A hash is the value that was hashed: two hashes agree exactly when the    *)
(* bytes under them do, so a packet is valid when the authenticator packs    *)
(* again, byte for byte, what the server packed.                             *)
(***************************************************************************)
EXTENDS EapCodec, Integers

CONSTANTS MaxData,    \* MAX_DATA_LENGTH of an attribute (253)
          DigestLen   \* bytes of an MD5 digest (16)

ASSUME RadiusAssumption == MaxData \in Nat \ {0} /\ DigestLen \in 1..MaxData

-----------------------------------------------------------------------------
(* Attributes and their data types                                           *)

USER_NAME == 1
USER_PASSWORD == 2
NAS_IP_ADDRESS == 4
NAS_PORT == 5
SERVICE_TYPE == 6
FILTER_ID == 11
FRAMED_MTU == 12
REPLY_MESSAGE == 18
RADIUS_STATE == 24
VENDOR_SPECIFIC == 26
SESSION_TIMEOUT == 27
CALLED_STATION_ID == 30
CALLING_STATION_ID == 31
NAS_IDENTIFIER == 32
ACCT_SESSION_ID == 44
NAS_PORT_TYPE == 61
TUNNEL_TYPE == 64
TUNNEL_MEDIUM_TYPE == 65
CONNECT_INFO == 77
EAP_MESSAGE == 79
MESSAGE_AUTHENTICATOR == 80
TUNNEL_PRIVATE_GROUP_ID == 81
NAS_FILTER_RULE == 92

Texts == {USER_NAME, FILTER_ID, REPLY_MESSAGE, CALLED_STATION_ID, CALLING_STATION_ID,
          NAS_IDENTIFIER, ACCT_SESSION_ID, CONNECT_INFO}
Strings == {USER_PASSWORD, NAS_IP_ADDRESS, RADIUS_STATE, MESSAGE_AUTHENTICATOR,
            TUNNEL_PRIVATE_GROUP_ID, NAS_FILTER_RULE}
Integers4 == {NAS_PORT, FRAMED_MTU, SESSION_TIMEOUT}
Enums == {SERVICE_TYPE, NAS_PORT_TYPE, TUNNEL_TYPE, TUNNEL_MEDIUM_TYPE}
Vsas == {VENDOR_SPECIFIC}
Concats == {EAP_MESSAGE}
ATTRIBUTE_TYPES == Texts \cup Strings \cup Integers4 \cup Enums \cup Vsas \cup Concats

\* is_valid_length, with each class's bounds; Concat does not check.
IsValidLength(type, n) ==
    CASE type \in Integers4 \cup Enums -> n = 4
      [] type \in Texts \cup Strings -> n \in 1..MaxData
      [] type \in Vsas -> n \in 5..MaxData
      [] type \in Concats -> TRUE

Attribute(type, data) == [type |-> type, data |-> data]

\* What a parser that raises MessageParseError returns.
Invalid == <<Attribute(0, <<>>)>>

\* One header for the data, however many attributes it is packed in.
full_length_single(attr) == Len(attr.data) + 2

\* full_length: Concat counts a header for each of its pieces.
full_length(attr) ==
    LET n == Len(attr.data)
    IN  IF attr.type \in Concats THEN 2 * (((n + MaxData - 1) \div MaxData) + 1) + n - 2
        ELSE n + 2

\* Concat.pack: pieces of MaxData bytes, each with its header. The last piece
\* has the remainder of the length.
Chunks(attr) ==
    LET n == Len(attr.data)
        chunk(k) == LET i == (k - 1) * MaxData
                        length == IF i + MaxData > n THEN n % MaxData ELSE MaxData
                        piece == Slice(attr.data, i, i + length)
                    IN  <<attr.type, Len(piece) + 2>> \o piece
    IN  FlattenSeq([k \in 1..((n + MaxData - 1) \div MaxData) |-> chunk(k)])

Attribute_pack(attr) ==
    IF attr.type \in Concats THEN Chunks(attr)
    ELSE <<attr.type, full_length(attr)>> \o attr.data

\* RadiusAttributesList
AttributesLen(attrs) == FoldLeft(LAMBDA n, attr : n + full_length(attr), 0, attrs)
Attributes_pack(attrs) == FlattenSeq([k \in DOMAIN attrs |-> Attribute_pack(attrs[k])])
IndexOf(type, attrs) == SelectInSeq(attrs, LAMBDA attr : attr.type = type)

\* The place of an attribute in the list, where adjacent pieces of one Concat
\* have one place together.
NextPlace(index, last, type) ==
    IF type \notin Concats \/ last # type THEN index + 1 ELSE index

\* extract_attributes: the list of [type, data, place], or Invalid. The walk
\* stops at the first attribute it cannot read. An attribute whose length byte
\* is 1 has no data. A length byte of 0, on which the code's walk would not
\* advance, is refused here.
RECURSIVE Extract(_, _, _, _)
Extract(data, pos, index, last) ==
    IF pos >= Len(data) THEN <<>>
    ELSE IF pos + 2 > Len(data) \/ data[pos + 2] = 0 THEN Invalid
    ELSE LET type == data[pos + 1]
             value == Slice(data, pos + 2, pos + data[pos + 2])
             place == NextPlace(index, last, type)
         IN  IF type \notin ATTRIBUTE_TYPES THEN Invalid
             ELSE IF ~IsValidLength(type, Len(value)) THEN Invalid
             ELSE LET rest == Extract(data, pos + data[pos + 2], place, type)
                  IN  IF rest = Invalid THEN Invalid
                      ELSE <<[type |-> type, data |-> value, place |-> place]>> \o rest

\* merge_concat_attributes: one attribute for all the pieces of a Concat, put
\* where its last piece was counted.
MergeConcat(found) ==
    LET pieces == SelectSeq(found, LAMBDA attr : attr.type \in Concats)
        others == SelectSeq(found, LAMBDA attr : attr.type \notin Concats)
        plain == [k \in DOMAIN others |-> Attribute(others[k].type, others[k].data)]
        whole == Attribute(EAP_MESSAGE, FlattenSeq([k \in DOMAIN pieces |-> pieces[k].data]))
    IN  IF pieces = <<>> THEN plain
        ELSE InsertAt(plain, Min({Last(pieces).place, Len(plain)}) + 1, whole)

\* RadiusAttributesList.parse
Attributes_parse(data) ==
    LET found == Extract(data, 0, -1, 0)
    IN  IF found = Invalid THEN Invalid ELSE MergeConcat(found)

-----------------------------------------------------------------------------
(* Packets                                                                   *)

ACCESS_REQUEST == 1
ACCESS_ACCEPT == 2
ACCESS_REJECT == 3
ACCESS_CHALLENGE == 11
PACKET_TYPE_PARSERS == {ACCESS_REQUEST, ACCESS_ACCEPT, ACCESS_REJECT, ACCESS_CHALLENGE}

Zeros == [k \in 1..DigestLen |-> 0]

\* RadiusPacket.pack
Packet(code, id, authenticator, attrs) ==
    [code |-> code, id |-> id, length |-> 20 + AttributesLen(attrs),
     authenticator |-> authenticator, attributes |-> Attributes_pack(attrs)]

\* The bytes before an attribute of the packed list (indexof).
OffsetOf(type, attrs) == AttributesLen(SubSeq(attrs, 1, IndexOf(type, attrs) - 1))

\* RadiusPacket.build: the digest of the packet, with zeros for its own, is
\* written over the place where the Message-Authenticator was packed.
build(packet, attrs, digest) ==
    LET position == OffsetOf(MESSAGE_AUTHENTICATOR, attrs) + 2
        over(k) == IF k - position \in 1..DigestLen THEN digest[k - position]
                   ELSE packet.attributes[k]
    IN  [packet EXCEPT !.attributes = [k \in DOMAIN packet.attributes |-> over(k)]]

\* radius_pack with the attributes of _prepare_extra_radius_attributes. Text
\* that is empty or too long raises ValueError (Invalid).
radius_pack_attrs(eap_data, username, station, state, module_id) ==
    IF ~IsValidLength(USER_NAME, Len(username)) THEN Invalid
    ELSE <<Attribute(USER_NAME, username), Attribute(CALLING_STATION_ID, station),
           Attribute(NAS_PORT, <<0, 0, 0, 1>>),
           Attribute(CALLED_STATION_ID, module_id), Attribute(NAS_PORT_TYPE, <<0, 0, 0, 15>>),
           Attribute(NAS_IDENTIFIER, module_id), Attribute(EAP_MESSAGE, eap_data)>>
         \o (IF state = <<>> THEN <<>> ELSE <<Attribute(RADIUS_STATE, state)>>)
         \o <<Attribute(MESSAGE_AUTHENTICATOR, Zeros)>>

\* The attributes with zeros for the first Message-Authenticator.
Blank(attrs) ==
    LET k == IndexOf(MESSAGE_AUTHENTICATOR, attrs)
    IN  IF k = 0 THEN attrs ELSE [attrs EXCEPT ![k].data = Zeros]

\* What each of the two hashes of an answer covers: the packet with the
\* authenticator of the request in its header, with and without the
\* Message-Authenticator.
ResponseHash(code, id, request_authenticator, attrs) ==
    Packet(code, id, request_authenticator, attrs)
MessageHash(code, id, request_authenticator, attrs) ==
    Packet(code, id, request_authenticator, Blank(attrs))

\* Radius.parse of an answer: its attributes, or Invalid. "signed" is the value
\* under the response authenticator and "sealed" the one under the
\* Message-Authenticator, as the server computed them. Both are computed again
\* from the attributes that were parsed.
Radius_parse(packet, request_authenticator) ==
    LET attrs == Attributes_parse(packet.attributes)
        again(hash(_, _, _, _)) == hash(packet.code, packet.id, request_authenticator, attrs)
    IN  IF /\ packet.code \in PACKET_TYPE_PARSERS
           /\ attrs # Invalid
           /\ again(ResponseHash) = packet.signed
           /\ IndexOf(MESSAGE_AUTHENTICATOR, attrs) # 0 => again(MessageHash) = packet.sealed
        THEN attrs
        ELSE Invalid
=============================================================================
