------------------------------- MODULE Relay -------------------------------
(***************************************************************************)
(* What the authenticator relays: an EAP packet goes from the supplicant's   *)
(* frame to an Access-Request, and the one in the server's answer goes to a  *)
(* frame for the supplicant (receive_eap_messages, _encode_radius_response,  *)
(* receive_radius_messages and send_eap_message around the codecs).          *)
(***************************************************************************)
EXTENDS RadiusCodec

CONSTANTS Frames,     \* EAPOL payloads and padding a supplicant may send
          Answers     \* EAP packets and attribute layouts the server may answer with

VARIABLES stage,      \* where the packet is
          frame,      \* the Ethernet frame, in bytes
          message,    \* the EAP message the authenticator holds
          packet      \* the RADIUS packet

vars == <<stage, frame, message, packet>>

Supplicant == <<2, 0, 0, 0, 0, 1>>
AuthMac == <<2, 0, 0, 0, 0, 2>>
ModuleId == <<65, 66>>
Digest == [k \in 1..DigestLen |-> 255]
RequestAuthenticator == "request"
NoMessage == Message(<<>>, ParseError)
NoPacket == [attributes |-> <<>>]

-----------------------------------------------------------------------------
(* From the supplicant to the server                                         *)

EapolFrame(eap, padding) ==
    AuthMac \o Supplicant \o ETHERTYPE \o <<1, 0>> \o U16(Len(eap)) \o eap \o padding

\* receive_eap_messages: a frame that does not parse is dropped.
ReceiveFrame ==
    /\ stage = "frame"
    /\ message' = ethernet_parse(frame)
    /\ stage' = IF message'.eap = ParseError THEN "dropped" ELSE "received"
    /\ UNCHANGED <<frame, packet>>

\* The identity is kept for the user name of later requests.
UserName(m) == IF m.eap.kind = "identity" THEN m.eap.identity ELSE <<65>>

\* _encode_radius_response: an attribute that cannot be created raises out of
\* the sending thread. EAPMessage.create packs the message again.
EncodeRequest ==
    /\ stage = "received"
    /\ LET attrs == radius_pack_attrs(eap_pack(message)[2], UserName(message), <<67, 68>>, <<69>>,
                                      ModuleId)
       IN  IF attrs = Invalid THEN stage' = "raised" /\ UNCHANGED packet
           ELSE /\ stage' = "requested"
                /\ packet' = build(Packet(ACCESS_REQUEST, 1, RequestAuthenticator, attrs), attrs,
                                   Digest)
    /\ UNCHANGED <<frame, message>>

-----------------------------------------------------------------------------
(* From the server to the supplicant                                         *)

\* The server packs the attributes of its answer, an EAP message in pieces as
\* large as they may be, and signs it.
ServerPacket(answer) ==
    LET ma == Attribute(MESSAGE_AUTHENTICATOR, Digest)
        eap == Attribute(EAP_MESSAGE, answer.eap)
        state == Attribute(RADIUS_STATE, <<69>>)
        attrs == answer.layout[1] \o <<eap>> \o answer.layout[2] \o <<state, ma>>
        sign(hash(_, _, _, _)) == hash(answer.code, 1, RequestAuthenticator, attrs)
    IN  [code |-> answer.code, id |-> 1, attributes |-> Attributes_pack(attrs),
         signed |-> sign(ResponseHash), sealed |-> sign(MessageHash)]

\* receive_radius_messages: an answer that does not parse is dropped; the EAP
\* message is read from its attribute.
DecodeAnswer ==
    /\ stage = "answer"
    /\ LET attrs == Radius_parse(packet, RequestAuthenticator)
       IN  IF attrs = Invalid THEN stage' = "dropped" /\ UNCHANGED message
           ELSE /\ stage' = "decoded"
                /\ message' = Message(<<>>, Eap_parse(attrs[IndexOf(EAP_MESSAGE, attrs)].data))
    /\ UNCHANGED <<frame, packet>>

\* send_eap_message
SendFrame ==
    /\ stage = "decoded"
    /\ frame' = ethernet_pack(message, AuthMac, Supplicant)
    /\ stage' = "sent"
    /\ UNCHANGED <<message, packet>>

Init ==
    \/ /\ stage = "frame"
       /\ \E f \in Frames : frame = EapolFrame(f.eap, f.padding)
       /\ message = NoMessage
       /\ packet = NoPacket
    \/ /\ stage = "answer"
       /\ frame = <<>>
       /\ message = NoMessage
       /\ \E answer \in Answers : packet = ServerPacket(answer)

Next == ReceiveFrame \/ EncodeRequest \/ DecodeAnswer \/ SendFrame

Spec == Init /\ [][Next]_vars

-----------------------------------------------------------------------------
(* Properties                                                                *)

\* How a RADIUS server reads a packed attribute: the values of its type.
RECURSIVE ServerReads(_, _)
ServerReads(type, data) ==
    IF data = <<>> THEN <<>>
    ELSE LET rest == ServerReads(type, Slice(data, data[2], Len(data)))
         IN  IF data[1] = type THEN Slice(data, 2, data[2]) \o rest ELSE rest

\* The EAP packet in a frame whose lengths are right. A Legacy-Nak is left out:
\* EapLegacyNak packs one byte of its types.
FramedEap == LET eapol == Slice(frame, 18, Len(frame))
             IN  Slice(eapol, 0, Unpack16(eapol, 2))
RightLengths(eap, room) ==
    /\ Len(eap) \in 5..room /\ Unpack16(eap, 2) = Len(eap)
    /\ eap[5] = PACKET_TYPE.md5 => Len(eap) >= 6 + eap[6]

\* The EAP packet that the server reads in the request is the one that the
\* supplicant sent, though it was parsed, packed again and cut in pieces.
ForwardedIntact ==
    stage = "requested" =>
        LET room == Unpack16(frame, 16) IN
        RightLengths(FramedEap, room) /\ message.eap.kind # "nak"
            => ServerReads(EAP_MESSAGE, packet.attributes) = FramedEap

\* The digest is written where the server looks for the Message-Authenticator,
\* and over nothing else: the other attributes are read as they were packed,
\* whatever the number of pieces before it (build, indexof, full_length).
SealedInPlace ==
    stage = "requested" =>
        /\ ServerReads(MESSAGE_AUTHENTICATOR, packet.attributes) = Digest
        /\ ServerReads(RADIUS_STATE, packet.attributes) = <<69>>
        /\ packet.length = 20 + Len(packet.attributes)

\* Every answer that the server signed is found valid and reaches the
\* supplicant: packing the parsed attributes again gives the server's bytes.
AnswerDelivered ==
    /\ packet # NoPacket => stage # "dropped"
    /\ stage = "sent" => ethernet_parse(frame) = Message(AuthMac, message.eap)
=============================================================================
