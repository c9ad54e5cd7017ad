--------------------------- MODULE MCNoiseSocket ----------------------------
(***************************************************************************)
(* Stanzas from every kind of address the server uses, with contents on both *)
(* sides of the limits of a length; one good and some bad certificates; one  *)
(* iq request; a node too large for a frame and one too wide for a list.     *)
(***************************************************************************)
EXTENDS NoiseSocket

MCStanza(tag, id, from, content) == [tag |-> tag, id |-> id, from |-> from, content |-> content]

MCStanzas ==
    { MCStanza(Message, <<51, 69, 66>>, Pair(<<49, 50>>, Net), Bytes([i \in 1..18 |-> i])),
      MCStanza(Notification, <<52>>, Pair(<<>>, Net), Nodes(<<Node(Active, <<>>, Nothing)>>)),
      MCStanza(Message, <<51, 69>>, AdJid(1, 3, <<49, 45, 50>>), Nothing),
      MCStanza(Notification, <<53, 54>>, AdJid(9, 3, <<49>>), Bytes(<<7, 7, 7>>)),
      MCStanza(Message, <<65, 66>>, Pair(<<51>>, Group), Bytes(<<>>)),
      MCStanza(Message, <<70>>, AdJid(0, 0, <<49, 50>>), Nothing) }

MCCert(midWindow, leafKey) ==
    [mid |-> [signer |-> "root", issuer |-> 0, serial |-> 1, key |-> "k", window |-> midWindow],
     leaf |-> [signer |-> "k", issuer |-> 1, serial |-> 2, key |-> leafKey, window |-> "now"]]
MCCerts == {MCCert("none", "S"), MCCert("over", "S"), MCCert("now", "X")}

MCBulky ==
    { Node(Message, <<>>, Nodes([i \in 1..3 |-> Node(Active, <<>>, Bytes([j \in 1..20 |-> j]))])),
      Node(Notification, <<>>, Nodes([i \in 1..9 |-> Node(Active, <<>>, Nothing)])) }

=============================================================================
