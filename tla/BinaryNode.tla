----------------------------- MODULE BinaryNode -----------------------------
(***************************************************************************)
(* The binary XML codec (protocol.rs, mod binary): what the encoder writes  *)
(* and what the decoder makes of bytes.                                     *)
(*                                                                         *)
(* A string is a sequence of character codes; the words of the dictionaries *)
(* are abbreviated to one letter. An attribute value is a text: a plain     *)
(* string, or user[.agent][:device]@server taken apart at its separators,   *)
(* with NoNumber where a part is missing. The digits of lengths run up to   *)
(* Base instead of 256, those of the top of a 20-bit length up to Quad      *)
(* instead of 16; tags, packed bytes, agents and devices are real bytes.    *)
(* The tokens 245 and 246 (interop and Messenger addresses) are left out.   *)
(* Attributes keep the order of the bytes, where the code keeps a map.      *)
(***************************************************************************)
EXTENDS Integers, Sequences, FiniteSets, SequencesExt

CONSTANTS
    Base,       \* 256 in the code: how far one byte of a length counts
    Quad,       \* 16: how far the top digit of BINARY_20 counts
    PackedMax   \* 127: the longest string that is packed

ASSUME BinaryAssumption ==
    /\ Base \in Nat \ {0, 1}
    /\ Quad \in 1..Base
    /\ PackedMax \in 1..127

LIST_EMPTY == 0
DICT_0     == 236
DICT_3     == 239
AD_JID     == 247
LIST_8     == 248
LIST_16    == 249
JID_PAIR   == 250
HEX_8      == 251
BINARY_8   == 252
BINARY_20  == 253
BINARY_32  == 254
NIBBLE_8   == 255

-----------------------------------------------------------------------------
(* Words and texts *)

Net          == <<115>>     \* s.whatsapp.net
Lid          == <<108>>     \* lid
Group        == <<103>>     \* g.us
Hosted       == <<104>>     \* hosted, in no dictionary
Message      == <<109>>
Notification == <<110>>
Receipt      == <<114>>
Iq           == <<113>>
Ack          == <<97>>
Id           == <<105>>
From         == <<102>>
To           == <<116>>
Class        == <<99>>
Active       == <<118>>     \* a word of the second dictionary

SINGLE_BYTE_TOKENS ==
    <<Net, From, Receipt, Id, Notification, To, Message, Class, Iq, Ack, Group, Lid>>
DOUBLE_BYTE_TOKENS == << <<Active>>, <<>>, <<>>, <<>> >>
KNOWN_JID_SERVERS == {Net, Group, Lid}

NoNumber == -1
Plain(s) == [user |-> s, agent |-> NoNumber, device |-> NoNumber, server |-> <<>>]
Address(u, a, d, s) == [user |-> u, agent |-> a, device |-> d, server |-> s]
IsEmpty(t) == t = Plain(<<>>)

\* The characters of a text. Agents and devices are below ten here.
Number(sep, n) == IF n = NoNumber THEN <<>> ELSE <<sep, 48 + n>>
Chars(t) ==
    t.user \o Number(46, t.agent) \o Number(58, t.device)
           \o (IF t.server = <<>> THEN <<>> ELSE <<64>> \o t.server)

\* A node. Content is nothing, bytes or nodes.
Nothing == [kind |-> "none", seq |-> <<>>]
Bytes(b) == [kind |-> "bytes", seq |-> b]
Nodes(ns) == [kind |-> "nodes", seq |-> ns]
Node(tag, attrs, content) == [tag |-> tag, attrs |-> attrs, content |-> content]

-----------------------------------------------------------------------------
(* Encoder *)

Digits(n, k) == [i \in 1..k |-> (n \div Base ^ (k - i)) % Base]

write_list_start(n) ==
    IF n = 0 THEN <<LIST_EMPTY>>
    ELSE IF n < Base THEN <<LIST_8>> \o Digits(n, 1) ELSE <<LIST_16>> \o Digits(n, 2)

write_byte_length(n) ==
    IF n < Base THEN <<BINARY_8>> \o Digits(n, 1)
    ELSE IF n < Quad * Base ^ 2
         THEN <<BINARY_20, (n \div Base ^ 2) % Quad>> \o Digits(n, 2)
         ELSE <<BINARY_32>> \o Digits(n, 4)

write_bytes(b) == write_byte_length(Len(b)) \o b

Digit == 48..57
Packable(s, chars) == Len(s) \in 1..PackedMax /\ Range(s) \subseteq chars
validate_nibble(s) == Packable(s, Digit \cup {45, 46})
validate_hex(s) == Packable(s, Digit \cup 65..70)

\* Four bits of a character; 0 is what fills up an odd length.
pack_nibble(c) ==
    CASE c \in Digit -> c - 48
      [] c = 45 -> 10
      [] c = 46 -> 11
      [] c = 0 -> 15
pack_hex(c) ==
    CASE c \in Digit -> c - 48
      [] c \in 65..70 -> c - 55
      [] c = 0 -> 15

write_packed(s, ty) ==
    LET half == (Len(s) + 1) \div 2
        Four(i) == LET c == IF i <= Len(s) THEN s[i] ELSE 0
                   IN IF ty = NIBBLE_8 THEN pack_nibble(c) ELSE pack_hex(c)
    IN <<ty, half + 128 * (Len(s) % 2)>>
       \o [i \in 1..half |-> 16 * Four(2 * i - 1) + Four(2 * i)]

\* The places of a word in the dictionaries.
Single(s) == {i \in DOMAIN SINGLE_BYTE_TOKENS : SINGLE_BYTE_TOKENS[i] = s}
Double(s) == {p \in (1..4) \X (1..1) :
                 p[2] \in DOMAIN DOUBLE_BYTE_TOKENS[p[1]]
                 /\ DOUBLE_BYTE_TOKENS[p[1]][p[2]] = s}

write_string(s) ==
    IF Single(s) # {} THEN <<CHOOSE i \in Single(s) : TRUE>>
    ELSE IF Double(s) # {}
    THEN LET p == CHOOSE p \in Double(s) : TRUE IN <<DICT_0 + p[1] - 1, p[2] - 1>>
    ELSE IF validate_nibble(s) THEN write_packed(s, NIBBLE_8)
    ELSE IF validate_hex(s) THEN write_packed(s, HEX_8)
    ELSE write_bytes(s)

\* The agent that goes with a server. A hosted address brings its own.
server_agent(t) ==
    CASE t.server = Net -> 0
      [] t.server = Lid -> 1
      [] t.server = Hosted -> t.agent
      [] OTHER -> NoNumber

Or(n, default) == IF n = NoNumber THEN default ELSE n

\* The address of the server itself goes out as a string (mutated).
write_attr_value_literal(t) ==
    IF t.user = <<>> THEN write_string(Chars(t))
    ELSE IF t.server \in KNOWN_JID_SERVERS /\ t.agent = NoNumber /\ t.device = NoNumber
    THEN <<JID_PAIR>> \o write_string(t.user) \o write_string(t.server)
    ELSE IF server_agent(t) # NoNumber
    THEN <<AD_JID, Or(t.agent, server_agent(t)), Or(t.device, 0)>> \o write_string(t.user)
    ELSE write_string(Chars(t))

\* An address goes out as one of the two address tokens, any other text, and
\* an address the tokens cannot say, as a string.
write_attr_value(t) ==
    LET known == t.server \in KNOWN_JID_SERVERS
        bare == t.agent = NoNumber /\ t.device = NoNumber
        agent == Or(t.agent, server_agent(t))
        device == Or(t.device, 0)
    IN IF known /\ bare /\ t.user = <<>>
       THEN <<JID_PAIR, LIST_EMPTY>> \o write_string(t.server)
       ELSE IF known /\ bare
       THEN <<JID_PAIR>> \o write_string(t.user) \o write_string(t.server)
       ELSE IF t.user # <<>> /\ server_agent(t) # NoNumber /\ (device > 0 \/ agent > 0)
       THEN <<AD_JID, agent, device>> \o write_string(t.user)
       ELSE write_string(Chars(t))

WriteAttr(a) == write_string(a.key) \o write_attr_value(a.val)

\* Attributes without a value are not written.
Written(n) == SelectSeq(n.attrs, LAMBDA a : ~IsEmpty(a.val))
ListSize(n) == 2 * Len(Written(n)) + 1 + (IF n.content.kind = "none" THEN 0 ELSE 1)

RECURSIVE write_node(_)
write_node(n) ==
    LET listEnd == n.tag = <<48>>     \* the tag "0" stands for an empty list
        attrs == Written(n)
        content ==
            CASE n.content.kind = "none" -> <<>>
              [] n.content.kind = "bytes" -> write_bytes(n.content.seq)
              [] n.content.kind = "nodes" ->
                    write_list_start(Len(n.content.seq))
                    \o FlattenSeq([i \in DOMAIN n.content.seq |-> write_node(n.content.seq[i])])
    IN IF listEnd THEN <<LIST_8, LIST_EMPTY>>
       ELSE write_list_start(ListSize(n)) \o write_string(n.tag)
            \o FlattenSeq([i \in DOMAIN attrs |-> WriteAttr(attrs[i])]) \o content

\* EncodeError: a list or a byte string whose size its digits cannot say.
RECURSIVE Encodable(_)
Encodable(n) ==
    /\ ListSize(n) < Base ^ 2
    /\ n.content.kind = "bytes" => Len(n.content.seq) < (Base ^ 4) \div 2 - 1
    /\ n.content.kind = "nodes" =>
          /\ Len(n.content.seq) < Base ^ 2
          /\ \A i \in DOMAIN n.content.seq : Encodable(n.content.seq[i])

\* pack: the flag for "not compressed" and the node.
pack(n) == <<0>> \o write_node(n)

-----------------------------------------------------------------------------
(* Decoder. A reader returns whether it could read, what, and where it is   *)
(* then.                                                                    *)

Failure == [ok |-> FALSE, kind |-> "none", text |-> Plain(<<>>), seq |-> <<>>, at |-> 0]
Got(kind, text, seq, at) == [ok |-> TRUE, kind |-> kind, text |-> text, seq |-> seq, at |-> at]
GotText(t, at) == Got("str", t, <<>>, at)

\* A reader after another, where that one has succeeded.
Then(r, Reader(_)) == IF r.ok THEN Reader(r) ELSE Failure

ValueOf(ds) == FoldLeft(LAMBDA v, d : v * Base + d, 0, ds)

\* read_list_size of the list that begins at p, and where its items begin.
Invalid == -1
list_size(d, p) ==
    CASE p <= Len(d) /\ d[p] = LIST_EMPTY -> 0
      [] p < Len(d) /\ d[p] = LIST_8 -> d[p + 1]
      [] p + 1 < Len(d) /\ d[p] = LIST_16 -> ValueOf(SubSeq(d, p + 1, p + 2))
      [] OTHER -> Invalid
AfterSize(d, p) == IF d[p] = LIST_8 THEN p + 2 ELSE p + 3

\* n bytes from p on, a string where one is asked for.
read_bytes_or_string(d, p, n, as_string) ==
    IF p + n - 1 > Len(d) THEN Failure
    ELSE LET raw == SubSeq(d, p, p + n - 1)
         IN IF as_string THEN GotText(Plain(raw), p + n) ELSE Got("bytes", Plain(<<>>), raw, p + n)

\* A length of k digits at p, then as many bytes.
ReadCounted(d, p, k, as_string) ==
    IF p + k - 1 > Len(d) THEN Failure
    ELSE read_bytes_or_string(d, p + k, ValueOf(SubSeq(d, p, p + k - 1)), as_string)

unpack_byte(ty, v) ==
    CASE v < 10 -> 48 + v
      [] ty = HEX_8 /\ v >= 10 -> 55 + v
      [] ty = NIBBLE_8 /\ v = 10 -> 45
      [] ty = NIBBLE_8 /\ v = 11 -> 46
      [] ty = NIBBLE_8 /\ v = 15 -> 0
      [] OTHER -> Invalid

read_packed(d, p, ty) ==
    IF p > Len(d) THEN Failure
    ELSE LET half == d[p] % 128
             odd == d[p] \div 128
             chars == [i \in 1..(2 * half) |->
                          LET b == d[p + (i + 1) \div 2]
                          IN unpack_byte(ty, IF i % 2 = 1 THEN b \div 16 ELSE b % 16)]
         IN IF p + half > Len(d) \/ Invalid \in Range(chars) THEN Failure
            ELSE GotText(Plain(IF odd = 1 THEN Front(chars) ELSE chars), p + half + 1)

format_ad_jid(user, agent, device) ==
    Address(user,
            IF agent = 0 THEN NoNumber ELSE agent,
            IF device = 0 THEN NoNumber ELSE device,
            CASE agent = 0 -> Net [] agent = 1 -> Lid [] OTHER -> Hosted)

RECURSIVE read_value(_, _, _), read_nodes(_, _, _, _), read_attrs(_, _, _, _), read_node(_, _)

read_ad_jid(d, p) ==
    Then(read_value(d, p + 2, TRUE),
         LAMBDA user : IF user.kind # "str" THEN Failure
                       ELSE GotText(format_ad_jid(user.text.user, d[p], d[p + 1]), user.at))

read_jid_pair(d, p) ==
    Then(read_value(d, p, TRUE), LAMBDA user :
    Then(read_value(d, user.at, TRUE), LAMBDA server :
        IF server.kind # "str" \/ user.kind \notin {"none", "str"} THEN Failure
        ELSE GotText(Address(user.text.user, NoNumber, NoNumber, server.text.user), server.at)))

\* read(asString): a value of any kind, chosen by its first byte.
read_value(d, p, as_string) ==
    IF p > Len(d) THEN Failure
    ELSE LET tag == d[p]
         IN CASE tag = LIST_EMPTY -> Got("none", Plain(<<>>), <<>>, p + 1)
              [] tag \in {LIST_8, LIST_16} -> read_nodes(d, AfterSize(d, p), list_size(d, p), <<>>)
              [] tag = BINARY_8 -> ReadCounted(d, p + 1, 1, as_string)
              [] tag = BINARY_20 -> ReadCounted(d, p + 1, 3, as_string)
              [] tag = BINARY_32 -> ReadCounted(d, p + 1, 4, as_string)
              [] tag \in DICT_0..DICT_3 /\ p < Len(d)
                 /\ d[p + 1] < Len(DOUBLE_BYTE_TOKENS[tag - DICT_0 + 1]) ->
                    GotText(Plain(DOUBLE_BYTE_TOKENS[tag - DICT_0 + 1][d[p + 1] + 1]), p + 2)
              [] tag = JID_PAIR -> read_jid_pair(d, p + 1)
              [] tag = AD_JID -> read_ad_jid(d, p + 1)
              [] tag \in {NIBBLE_8, HEX_8} -> read_packed(d, p + 1, tag)
              [] tag \in DOMAIN SINGLE_BYTE_TOKENS ->
                    GotText(Plain(SINGLE_BYTE_TOKENS[tag]), p + 1)
              [] OTHER -> Failure

\* n nodes from p on, after those in acc; a size that could not be read is no list.
read_nodes(d, p, n, acc) ==
    CASE n = Invalid -> Failure
      [] n = 0 -> Got("nodes", Plain(<<>>), acc, p)
      [] OTHER -> Then(read_node(d, p),
                       LAMBDA one : read_nodes(d, one.at, n - 1, Append(acc, one.seq)))

\* n attributes from p on, after those in acc.
read_attrs(d, p, n, acc) ==
    IF n = 0 THEN Got("attrs", Plain(<<>>), acc, p)
    ELSE Then(read_value(d, p, TRUE), LAMBDA key :
         Then(read_value(d, key.at, TRUE), LAMBDA val :
            IF key.kind # "str" \/ val.kind = "nodes" THEN Failure
            ELSE read_attrs(d, val.at, n - 1,
                            Append(acc, [key |-> key.text.user, val |-> val.text]))))

ContentOf(v) ==
    IF v.kind = "str" THEN Bytes(Chars(v.text)) ELSE [kind |-> v.kind, seq |-> v.seq]

\* The size of the list says how many attributes there are and whether
\* content follows.
read_node(d, p) ==
    LET size == list_size(d, p)
        ReadContent(at) ==
            IF size % 2 = 1 THEN Got("none", Plain(<<>>), <<>>, at) ELSE read_value(d, at, FALSE)
    IN IF size <= 0 THEN Failure
       ELSE Then(read_value(d, AfterSize(d, p), TRUE), LAMBDA tag :
            IF tag.kind # "str" \/ tag.text.user = <<>> THEN Failure
            ELSE Then(read_attrs(d, tag.at, (size - 1) \div 2, <<>>), LAMBDA attrs :
                 Then(ReadContent(attrs.at), LAMBDA body :
                    Got("node", Plain(<<>>), Node(tag.text.user, attrs.seq, ContentOf(body)),
                        body.at))))

\* unmarshal: inflate what is flagged as compressed (a compressed body is one
\* unit here), then decode. Bytes after the node are not looked at.
unmarshal(d) ==
    IF d = <<>> THEN Failure
    ELSE read_node(IF (d[1] \div 2) % 2 = 1 THEN d[2] ELSE Tail(d), 1)

=============================================================================
