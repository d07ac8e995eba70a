------------------------------ MODULE EapCodec ------------------------------
(***************************************************************************)
(* The frames between the supplicant and the authenticator: Ethernet, EAPOL  *)
(* and EAP, as sequences of bytes (ethernet_packet.py, auth_8021x.py, eap.py *)
(* and the EAP half of message_parser.py, under subset/dot1x/authenticator). *)
(* A parser that raises MessageParseError returns ParseError.                *)
(***************************************************************************)
EXTENDS Naturals, Sequences, FiniteSetsExt, SequencesExt

\* data[i:j]
Slice(data, i, j) == SubSeq(data, i + 1, Min({j, Len(data)}))

\* struct formats "!H" and, for a byte, "!B"
U16(n) == <<(n \div 256) % 256, n % 256>>
Unpack16(data, i) == 256 * data[i + 1] + data[i + 2]

ParseError == [kind |-> "error"]

-----------------------------------------------------------------------------
(* Eap                                                                       *)

REQUEST == 1
RESPONSE == 2
SUCCESS == 3
FAILURE == 4

\* The packet types with a registered parser.
PACKET_TYPE == [identity |-> 1, nak |-> 3, md5 |-> 4, tls |-> 13, ttls |-> 21, peap |-> 25]

\* bytes.decode(), on bytes that are ASCII or begin no UTF-8 sequence
Decodable(data) == \A i \in DOMAIN data : data[i] < 128

EapIdentity_parse(code, id, data) ==
    IF Decodable(data)
    THEN [kind |-> "identity", code |-> code, id |-> id, identity |-> data]
    ELSE ParseError

EapMd5Challenge_parse(code, id, data) ==
    IF data = <<>> THEN ParseError
    ELSE [kind |-> "md5", code |-> code, id |-> id,
          challenge |-> Slice(data, 1, 1 + data[1]),
          extra_data |-> Slice(data, 1 + data[1], Len(data))]

\* struct.unpack returns a tuple: of one element, the bytes of all the types.
EapLegacyNak_parse(code, id, data) ==
    [kind |-> "nak", code |-> code, id |-> id, desired_auth_types |-> <<data>>]

EapTLSBase_parse(kind, code, id, data) ==
    IF data = <<>> THEN ParseError
    ELSE [kind |-> kind, code |-> code, id |-> id, flags |-> data[1],
          extra_data |-> Tail(data)]

Parser(type, code, id, data) ==
    CASE type = PACKET_TYPE.identity -> EapIdentity_parse(code, id, data)
      [] type = PACKET_TYPE.md5 -> EapMd5Challenge_parse(code, id, data)
      [] type = PACKET_TYPE.nak -> EapLegacyNak_parse(code, id, data)
      [] type = PACKET_TYPE.tls -> EapTLSBase_parse("tls", code, id, data)
      [] type = PACKET_TYPE.ttls -> EapTLSBase_parse("ttls", code, id, data)
      [] type = PACKET_TYPE.peap -> EapTLSBase_parse("peap", code, id, data)
      [] OTHER -> ParseError

Eap_parse(data) ==
    CASE Len(data) < 4 -> ParseError
      [] data[1] \in {REQUEST, RESPONSE} ->
            IF Len(data) < 5 THEN ParseError
            ELSE Parser(data[5], data[1], data[2], Slice(data, 5, Unpack16(data, 2)))
      [] data[1] = SUCCESS -> [kind |-> "success", id |-> data[2]]
      [] data[1] = FAILURE -> [kind |-> "failure", id |-> data[2]]
      [] OTHER -> ParseError

Eap_pack(message, body) ==
    <<message.code, message.id>> \o U16(5 + Len(body)) \o <<PACKET_TYPE[message.kind]>> \o body

EapMd5Challenge_body(message) ==
    <<Len(message.challenge)>> \o message.challenge \o message.extra_data

\* The format is built from the length of the tuple, which is one: one byte is
\* packed, whatever the length of the types, and a zero when there is none.
EapLegacyNak_body(message) ==
    LET types == message.desired_auth_types[1]
    IN  IF types = <<>> THEN <<0>> ELSE <<types[1]>>

EapTLSBase_body(message) == <<message.flags>> \o message.extra_data

-----------------------------------------------------------------------------
(* MessagePacker and MessageParser                                           *)

\* The message classes: the fields of the packet and where it came from.
\* build() copies the fields; a start or a logoff has none.
Message(src_mac, packet) == [src_mac |-> src_mac, eap |-> packet]

\* eap_pack: the EAPOL packet type and its data.
eap_pack(message) ==
    LET eap == message.eap IN
    CASE eap.kind = "identity" -> <<0, Eap_pack(eap, eap.identity)>>
      [] eap.kind = "nak" -> <<0, Eap_pack(eap, EapLegacyNak_body(eap))>>
      [] eap.kind = "md5" -> <<0, Eap_pack(eap, EapMd5Challenge_body(eap))>>
      [] eap.kind \in {"tls", "ttls", "peap"} -> <<0, Eap_pack(eap, EapTLSBase_body(eap))>>
      [] eap.kind = "success" -> <<0, <<SUCCESS, eap.id>> \o U16(4)>>
      [] eap.kind = "failure" -> <<0, <<FAILURE, eap.id>> \o U16(4)>>
      [] eap.kind = "start" -> <<1, <<>>>>
      [] eap.kind = "logoff" -> <<2, <<>>>>

\* Auth8021x.pack
pack(message) ==
    LET packed == eap_pack(message)
    IN  <<1, packed[1]>> \o U16(Len(packed[2])) \o packed[2]

ETHERTYPE == <<136, 142>>

\* EthernetPacket.pack; an address is six bytes.
ethernet_pack(message, src_mac, dst_mac) == dst_mac \o src_mac \o ETHERTYPE \o pack(message)

\* Auth8021x.parse: the packet type and its data.
Auth8021x_parse(data) == <<data[2], Slice(data, 4, 4 + Unpack16(data, 2))>>

\* one_x_parse and eap_parse
one_x_parse(data, src_mac) ==
    IF Len(data) < 4 THEN Message(src_mac, ParseError)
    ELSE LET parsed == Auth8021x_parse(data) IN
         Message(src_mac, CASE parsed[1] = 0 -> Eap_parse(parsed[2])
                            [] parsed[1] = 1 -> [kind |-> "start"]
                            [] parsed[1] = 2 -> [kind |-> "logoff"]
                            [] OTHER -> ParseError)

\* EthernetPacket.parse: the addresses, the type and the data.
EthernetPacket_parse(frame) ==
    [dst_mac |-> Slice(frame, 0, 6), src_mac |-> Slice(frame, 6, 12),
     ethertype |-> Slice(frame, 12, 14), data |-> Slice(frame, 14, Len(frame))]

ethernet_parse(frame) ==
    LET packet == EthernetPacket_parse(frame)
    IN  IF Len(frame) < 14 \/ packet.ethertype # ETHERTYPE
        THEN Message(packet.src_mac, ParseError)
        ELSE one_x_parse(packet.data, packet.src_mac)
=============================================================================
