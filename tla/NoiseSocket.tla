---------------------------- MODULE NoiseSocket -----------------------------
(***************************************************************************)
(* One connection to WhatsApp, from the dial to the close (protocol.rs, mods *)
(* noise, frame and connection), and the part of run_connection that sends  *)
(* and receives over it (session.rs): the select loop, ConnDispatcher and    *)
(* the replies to stanzas.                                                  *)
(*                                                                         *)
(* Keys are the secrets mixed into them. A ciphertext is the plain bytes     *)
(* and a tag, which remembers the key, the counter and the number of bytes;  *)
(* opening it needs all of them. A WebSocket message is any piece of the     *)
(* stream of bytes.                                                         *)
(***************************************************************************)
EXTENDS BinaryNode

CONSTANTS
    FrameBase,  \* 256: how far one byte of a frame's length counts
    Stanzas,    \* what the server may send
    Certs,      \* certificate chains a server may present
    Callers,    \* tasks that make an iq request
    MaxDown,    \* bound on the stanzas of the server
    Bulky,      \* nodes too large for a frame or a list; one is posted
    Pieces      \* numbers of bytes that may arrive without the rest

ASSUME SocketAssumption ==
    /\ FrameBase \in Nat \ {0, 1}
    /\ Callers \subseteq 0..9
    /\ MaxDown \in Nat
    /\ Pieces \subseteq Nat \ {0}

VARIABLES
    phase,      \* of run_connection: idle, hello, open, flushing, closed
    server,     \* of the server: idle, hello, ready, lost
    nh, snh,    \* NoiseHandshake of either end
    tx, rx,     \* NoiseCipher: our write and read ciphers
    stx, srx,   \* those of the server
    pipe,       \* bytes from the server that have not arrived
    buf,        \* FrameDecoder.buf
    up,         \* WebSocket messages on their way to the server
    out,        \* the channel behind ConnDispatcher.out_tx
    posted,     \* the bulky nodes that have been queued
    pc,         \* where a caller is: idle, registered, waiting, answered, ended
    pending,    \* ConnDispatcher.pending
    put, got,   \* history: nodes the server has sent, nodes the loop was given
    shipped,    \* history: nodes that were sent without an error
    read,       \* history: nodes the server has read
    garbled     \* history: the ends that could not open a frame

wires == <<pipe, buf, up>>
ciphers == <<tx, rx, stx, srx>>
history == <<put, got, shipped, read, garbled>>
calls == <<out, posted, pc, pending>>
vars == <<phase, server, nh, snh, ciphers, wires, calls, history>>

-----------------------------------------------------------------------------
(* mod noise *)

\* X25519: both ends of an exchange get the same secret.
DH(a, b) == {a, b}

NoiseStart(header) == [hash |-> <<header>>, salt |-> <<>>, counter |-> 0]
Spent == NoiseStart("spent")     \* finish consumes the handshake
Authenticate(h, data) == [h EXCEPT !.hash = Append(@, data)]
MixIntoKey(h, secret) == [h EXCEPT !.salt = Append(@, secret), !.counter = 0]

\* A ciphertext of the handshake is bound to the key, the counter and all that
\* was said so far.
Sealed(h, plain) == [salt |-> h.salt, counter |-> h.counter, aad |-> h.hash, plain |-> plain]
Opens(h, c) == c.salt = h.salt /\ c.counter = h.counter /\ c.aad = h.hash
After(h, c) == Authenticate([h EXCEPT !.counter = @ + 1], c)

NoKey == [salt |-> <<>>, use |-> "clear"]
Cipher(key) == [key |-> key, counter |-> 0]
\* finish: the first key writes, the second reads.
FinishWrite(h) == Cipher([salt |-> h.salt, use |-> "client"])
FinishRead(h) == Cipher([salt |-> h.salt, use |-> "server"])

\* The stream consists of cells: a byte, or the tag of a ciphertext.
Cell(b) == <<b>>
GcmTag(c, n) == <<c.key, c.counter, n>>

Advance(c) == [c EXCEPT !.counter = @ + 1]
Encrypt(c, b) == Append([i \in DOMAIN b |-> Cell(b[i])], GcmTag(c, Len(b)))
CanDecrypt(c, cells) == cells # <<>> /\ Last(cells) = GcmTag(c, Len(cells) - 1)
PlainOf(cells) == [i \in 1..(Len(cells) - 1) |-> cells[i][1]]

-----------------------------------------------------------------------------
(* mod frame *)

FRAME_LENGTH_SIZE == 3
FRAME_MAX_SIZE == FrameBase ^ FRAME_LENGTH_SIZE

encode_frame(payload) ==
    LET n == Len(payload)
    IN <<Cell(n \div FrameBase ^ 2), Cell((n \div FrameBase) % FrameBase), Cell(n % FrameBase)>>
       \o payload

FrameLength(b) == (b[1][1] * FrameBase + b[2][1]) * FrameBase + b[3][1]

\* next_frame has a frame to give.
HasFrame(b) ==
    /\ Len(b) >= FRAME_LENGTH_SIZE
    /\ Len(b) >= FRAME_LENGTH_SIZE + FrameLength(b)

NextFrame(b) == SubSeq(b, FRAME_LENGTH_SIZE + 1, FRAME_LENGTH_SIZE + FrameLength(b))
Drained(b) == SubSeq(b, FRAME_LENGTH_SIZE + FrameLength(b) + 1, Len(b))

-----------------------------------------------------------------------------
(* The stanzas, and the server. It says an address with one of two tokens,   *)
(* compresses or not, and may write a string in more than one way.           *)

Pair(user, srv) == [agent |-> 0, device |-> 0, user |-> user, server |-> srv, ad |-> FALSE]
AdJid(agent, device, user) ==
    [agent |-> agent, device |-> device, user |-> user, server |-> <<>>, ad |-> TRUE]

Styles == {"tight", "loose", "zlib"}

ServerString(style, s) ==
    IF style = "loose" THEN <<BINARY_20, 0>> \o Digits(Len(s), 2) \o s ELSE write_string(s)
ServerAddress(style, j) ==
    IF j.ad THEN <<AD_JID, j.agent, j.device>> \o ServerString(style, j.user)
    ELSE <<JID_PAIR>>
         \o (IF j.user = <<>> THEN <<LIST_EMPTY>> ELSE ServerString(style, j.user))
         \o ServerString(style, j.server)
ServerSize(style, n) ==
    IF style = "loose" THEN <<LIST_16>> \o Digits(n, 2) ELSE write_list_start(n)

\* The bytes of a stanza.
ServerPack(style, s) ==
    LET filled == s.content.kind # "none"
        body == ServerSize(style, IF filled THEN 6 ELSE 5) \o ServerString(style, s.tag)
                \o ServerString(style, Id) \o ServerString(style, s.id)
                \o ServerString(style, From) \o ServerAddress(style, s.from)
                \o (CASE s.content.kind = "none" -> <<>>
                      [] s.content.kind = "bytes" -> write_bytes(s.content.seq)
                      [] s.content.kind = "nodes" ->
                            write_list_start(Len(s.content.seq))
                            \o FlattenSeq([i \in DOMAIN s.content.seq |-> write_node(s.content.seq[i])]))
    IN IF style = "zlib" THEN <<2, body>> ELSE <<0>> \o body

\* The stanza as a client should see it, addresses in their canonical form
\* user[.agent][:device]@server.
Meant(s) ==
    LET j == s.from
        part(n) == IF n = 0 THEN NoNumber ELSE n
        srv == IF ~j.ad THEN j.server
               ELSE CASE j.agent = 0 -> Net [] j.agent = 1 -> Lid [] OTHER -> Hosted
    IN Node(s.tag,
            << [key |-> Id, val |-> Plain(s.id)],
               [key |-> From, val |-> Address(j.user, part(j.agent), part(j.device), srv)] >>,
            s.content)

IqId(c) == <<120, 45, 48 + c>>
IqRequest(c) ==
    Node(Iq, << [key |-> Id, val |-> Plain(IqId(c))], [key |-> To, val |-> Plain(Net)] >>, Nothing)
IqResult(c) == [tag |-> Iq, id |-> IqId(c), from |-> Pair(<<>>, Net), content |-> Nothing]

-----------------------------------------------------------------------------
(* What the select loop does with a node *)

Attr(n, key) == LET i == CHOOSE i \in DOMAIN n.attrs : n.attrs[i].key = key IN n.attrs[i].val

\* build_message_ack, and the same for notifications.
build_ack(n) ==
    Node(Ack, << [key |-> Class, val |-> Plain(n.tag)],
                 [key |-> Id, val |-> Attr(n, Id)],
                 [key |-> To, val |-> Attr(n, From)] >>, Nothing)

build_receipt(n) ==
    Node(Receipt, << [key |-> Id, val |-> Attr(n, Id)],
                     [key |-> To, val |-> Attr(n, From)] >>, Nothing)

\* What process_inbound_node queues, and what it returns to be sent at once.
Queued(n) == IF n.tag \in {Message, Notification} THEN <<build_ack(n)>> ELSE <<>>
AtOnce(n) == IF n.tag = Message THEN <<build_receipt(n)>> ELSE <<>>

-----------------------------------------------------------------------------
(* Dial and handshake *)

Init ==
    /\ phase = "idle" /\ server = "idle"
    /\ nh = NoiseStart("header") /\ snh = NoiseStart("header")
    /\ tx = Cipher(NoKey) /\ rx = Cipher(NoKey)
    /\ stx = Cipher(NoKey) /\ srx = Cipher(NoKey)
    /\ pipe = <<>> /\ buf = <<>> /\ up = <<>>
    /\ out = <<>> /\ posted = {}
    /\ pc = [c \in Callers |-> "idle"] /\ pending = {}
    /\ put = <<>> /\ got = <<>> /\ shipped = <<>> /\ read = <<>>
    /\ garbled = {}

\* connect_wa succeeds, do_handshake sends its ClientHello.
Hello ==
    /\ phase = "idle"
    /\ phase' = "hello"
    /\ nh' = Authenticate(nh, "e")
    /\ up' = Append(up, encode_frame(<<Cell("e")>>))
    /\ UNCHANGED <<server, snh, ciphers, pipe, buf, calls, history>>

\* External: the ServerHello with the server's ephemeral key, its static key
\* and a certificate chain.
ServerHello(cert) ==
    /\ server = "idle" /\ up # <<>>
    /\ server' = "hello"
    /\ LET h1 == MixIntoKey(Authenticate(Authenticate(snh, "e"), "E"), DH("e", "E"))
           static == Sealed(h1, "S")
           h2 == MixIntoKey(After(h1, static), DH("e", "S"))
           chain == Sealed(h2, cert)
       IN /\ snh' = After(h2, chain)
          /\ pipe' = pipe \o encode_frame(<<Cell([static |-> static, chain |-> chain])>>)
    /\ up' = Tail(up)
    /\ UNCHANGED <<phase, nh, ciphers, buf, calls, history>>

\* check_cert_window: a certificate without a window is always valid.
check_cert_window(c) == c.window \in {"none", "now"}

\* verify_server_cert: the root signs the intermediate certificate, that one
\* the leaf, and the leaf is about the static key.
verify_server_cert(chain, static) ==
    /\ chain.mid.signer = "root" /\ chain.mid.issuer = 0
    /\ chain.leaf.signer = chain.mid.key
    /\ check_cert_window(chain.mid)
    /\ chain.leaf.issuer = chain.mid.serial
    /\ chain.leaf.key = static
    /\ check_cert_window(chain.leaf)

\* The last flight: our static key under the key so far, then the payload under
\* a key that our static key has gone into.
Finish(h) ==
    LET static == Sealed(h, "s")
        h1 == MixIntoKey(After(h, static), DH("s", "E"))
        payload == Sealed(h1, "login")
    IN [static |-> static, payload |-> payload, nh |-> After(h1, payload)]

\* do_handshake gets the ServerHello: it opens the static key and the chain,
\* and answers. The decoder of the handshake ends with it.
HandshakeReply ==
    /\ phase = "hello" /\ HasFrame(buf)
    /\ LET hello == NextFrame(buf)[1][1]
           h1 == MixIntoKey(Authenticate(nh, "E"), DH("e", "E"))
           h2 == MixIntoKey(After(h1, hello.static), DH("e", "S"))
           opens == Opens(h1, hello.static) /\ Opens(h2, hello.chain)
           f == Finish(After(h2, hello.chain))
           trusted == opens /\ verify_server_cert(hello.chain.plain, "S")
       IN /\ \/ /\ trusted
                /\ phase' = "open"
                /\ nh' = Spent
                /\ tx' = FinishWrite(f.nh) /\ rx' = FinishRead(f.nh)
                /\ up' = Append(up, encode_frame(<<Cell([static |-> f.static, payload |-> f.payload])>>))
             \/ /\ ~trusted
                /\ phase' = "closed"
                /\ UNCHANGED <<nh, tx, rx, up>>
          /\ garbled' = IF opens THEN garbled ELSE garbled \cup {"client"}
    /\ buf' = <<>>
    /\ UNCHANGED <<server, snh, stx, srx, pipe, calls, put, got, shipped, read>>

\* External: the server opens the ClientFinish and has its ciphers.
ServerFinishes ==
    /\ server = "hello" /\ up # <<>>
    /\ LET finish == Head(up)[4][1]
           h1 == MixIntoKey(After(snh, finish.static), DH("s", "E"))
           h2 == After(h1, finish.payload)
           opens == Opens(snh, finish.static) /\ Opens(h1, finish.payload)
       IN /\ server' = IF opens THEN "ready" ELSE "lost"
          /\ garbled' = IF opens THEN garbled ELSE garbled \cup {"server"}
          /\ snh' = Spent
          /\ srx' = FinishWrite(h2) /\ stx' = FinishRead(h2)
    /\ up' = Tail(up)
    /\ UNCHANGED <<phase, nh, tx, rx, pipe, buf, calls, put, got, shipped, read>>

-----------------------------------------------------------------------------
(* The server of an open connection (external) *)

ServerShips(s, style) ==
    /\ pipe' = pipe \o encode_frame(Encrypt(stx, ServerPack(style, s)))
    /\ stx' = Advance(stx)
    /\ put' = Append(put, Meant(s))
    /\ UNCHANGED <<phase, server, nh, snh, tx, rx, srx, buf, up, calls, got, shipped, read, garbled>>

ServerSends(s, style) ==
    /\ server = "ready" /\ Len(put) < MaxDown
    /\ ServerShips(s, style)

\* A request is answered once.
ServerReplies(c) ==
    /\ server = "ready" /\ IqRequest(c) \in Range(read)
    /\ Meant(IqResult(c)) \notin Range(put)
    /\ ServerShips(IqResult(c), "tight")

\* The server opens the next frame and decodes it; where it cannot it stops.
ServerReads ==
    /\ server = "ready" /\ up # <<>>
    /\ \E node \in {unmarshal(PlainOf(NextFrame(Head(up))))} :
       LET fits == Drained(Head(up)) = <<>> /\ CanDecrypt(srx, NextFrame(Head(up)))
       IN /\ server' = IF fits THEN "ready" ELSE "lost"
          /\ read' = IF fits THEN Append(read, IF node.ok THEN node.seq ELSE node) ELSE read
          /\ garbled' = IF fits THEN garbled ELSE garbled \cup {"server"}
    /\ srx' = Advance(srx)
    /\ up' = Tail(up)
    /\ UNCHANGED <<phase, nh, snh, tx, rx, stx, pipe, buf, calls, put, got, shipped>>

-----------------------------------------------------------------------------
(* NoiseSocket *)

\* What send_node does with a node: encode, encrypt, frame, send. A node too
\* large for a frame has used up its counter.
Sendable(n) == Encodable(n) /\ Len(Encrypt(tx, pack(n))) < FRAME_MAX_SIZE
CipherAfter(n) == IF Encodable(n) THEN Advance(tx) ELSE tx
FrameOf(n) == encode_frame(Encrypt(tx, pack(n)))

\* What has arrived has to be a whole frame (mutated).
FeedOnce ==
    /\ phase \in {"hello", "open"} /\ buf = <<>> /\ pipe # <<>>
    /\ \E k \in (Pieces \cap 1..Len(pipe)) \cup {Len(pipe)} :
          /\ buf' = buf \o SubSeq(pipe, 1, k)
          /\ pipe' = SubSeq(pipe, k + 1, Len(pipe))
    /\ UNCHANGED <<phase, server, nh, snh, ciphers, up, calls, history>>

\* ws.next gives some bytes. recv_node asks for them when it has no frame.
Feed ==
    /\ phase \in {"hello", "open"} /\ ~HasFrame(buf) /\ pipe # <<>>
    /\ \E k \in (Pieces \cap 1..Len(pipe)) \cup {Len(pipe)} :
          /\ buf' = buf \o SubSeq(pipe, 1, k)
          /\ pipe' = SubSeq(pipe, k + 1, Len(pipe))
    /\ UNCHANGED <<phase, server, nh, snh, ciphers, up, calls, history>>

\* A caller gets its reply: take_pending and the oneshot behind it.
Claimed(n) == {c \in pending : n.tag = Iq /\ Attr(n, Id) = Plain(IqId(c))}

\* recv_node has a frame, the select loop handles the node.
RecvNode ==
    /\ phase = "open" /\ HasFrame(buf)
    /\ \E node \in {unmarshal(PlainOf(NextFrame(buf)))} :
       LET n == node.seq
           ok == CanDecrypt(rx, NextFrame(buf)) /\ node.ok
           claimed == IF ok THEN Claimed(n) ELSE {}
           queued == IF ok /\ claimed = {} THEN Queued(n) ELSE <<>>
           reply == IF ok THEN AtOnce(n) ELSE <<>>
       IN /\ phase' = IF ok THEN phase ELSE "closed"
          /\ garbled' = IF ok THEN garbled ELSE garbled \cup {"client"}
          /\ got' = IF ok THEN Append(got, n) ELSE got
          /\ pending' = pending \ claimed
          /\ pc' = [c \in Callers |-> IF c \in claimed THEN "answered" ELSE pc[c]]
          /\ out' = out \o queued
          /\ up' = up \o [i \in DOMAIN reply |-> FrameOf(reply[i])]
          /\ tx' = [tx EXCEPT !.counter = @ + Len(reply)]
          /\ shipped' = shipped \o reply
    /\ rx' = Advance(rx)
    /\ buf' = Drained(buf)
    /\ UNCHANGED <<server, nh, snh, stx, srx, pipe, posted, put, read>>

\* send_node on a node that can be sent.
ShipsNode(n) ==
    /\ up' = Append(up, FrameOf(n))
    /\ shipped' = Append(shipped, n)
    /\ tx' = Advance(tx)

\* The loop goes on (mutated).
AfterFailureOpen == "open"

\* Where a failing send_node leaves the select loop: its `?` ends it.
AfterFailure == "closed"

\* The select loop takes a node from the channel.
Ship ==
    /\ phase = "open" /\ out # <<>>
    /\ \/ Sendable(Head(out)) /\ ShipsNode(Head(out)) /\ UNCHANGED phase
       \/ /\ ~Sendable(Head(out))
          /\ tx' = CipherAfter(Head(out))
          /\ phase' = AfterFailure
          /\ UNCHANGED <<up, shipped>>
    /\ out' = Tail(out)
    /\ UNCHANGED <<server, nh, snh, rx, stx, srx, pipe, buf, posted, pc, pending, put, got, read, garbled>>

\* The shutdown branch flushes the channel, whatever becomes of each node,
\* and closes.
Shutdown ==
    /\ phase = "open"
    /\ phase' = "flushing"
    /\ UNCHANGED <<server, nh, snh, ciphers, wires, calls, history>>

Flush ==
    /\ phase = "flushing" /\ out # <<>>
    /\ \/ Sendable(Head(out)) /\ ShipsNode(Head(out))
       \/ /\ ~Sendable(Head(out))
          /\ tx' = CipherAfter(Head(out))
          /\ UNCHANGED <<up, shipped>>
    /\ out' = Tail(out)
    /\ UNCHANGED <<phase, server, nh, snh, rx, stx, srx, pipe, buf, posted, pc, pending, put, got, read, garbled>>

\* send_close; a dial, a handshake or a socket that fails or times out; a loop
\* that ends for another reason.
Close ==
    /\ \/ phase = "flushing" /\ out = <<>>
       \/ phase \in {"idle", "hello", "open"}
    /\ phase' = "closed"
    /\ UNCHANGED <<server, nh, snh, ciphers, wires, calls, history>>

-----------------------------------------------------------------------------
(* ConnDispatcher. A caller keeps the dispatcher of the connection it was    *)
(* made on. The channel takes nodes as long as the loop or the flush has its *)
(* receiver.                                                                *)

Receiving == phase \in {"open", "flushing"}

\* Another task queues a node.
Post(n) ==
    /\ phase = "open" /\ posted = {}
    /\ posted' = {n}
    /\ out' = Append(out, n)
    /\ UNCHANGED <<phase, server, nh, snh, ciphers, wires, pc, pending, history>>

\* The request goes out before its id is registered (mutated).
RegisterLate(c) ==
    /\ pc[c] = "idle" /\ phase = "open"
    /\ pc' = [pc EXCEPT ![c] = "registered"]
    /\ out' = Append(out, IqRequest(c))
    /\ UNCHANGED <<phase, server, nh, snh, ciphers, wires, pending, posted, history>>

\* iq_request registers the id, and then sends. The loop runs on another
\* thread.
Register(c) ==
    /\ pc[c] = "idle" /\ phase = "open"
    /\ pc' = [pc EXCEPT ![c] = "registered"]
    /\ pending' = pending \cup {c}
    /\ UNCHANGED <<phase, server, nh, snh, ciphers, wires, out, posted, history>>

Enqueue(c) ==
    /\ pc[c] = "registered"
    /\ \/ /\ Receiving
          /\ out' = Append(out, IqRequest(c))
          /\ pc' = [pc EXCEPT ![c] = "waiting"]
          /\ UNCHANGED pending
       \/ /\ ~Receiving
          /\ pending' = pending \ {c}
          /\ pc' = [pc EXCEPT ![c] = "ended"]
          /\ UNCHANGED out
    /\ UNCHANGED <<phase, server, nh, snh, ciphers, wires, posted, history>>

TimesOut(c) ==
    /\ pc[c] = "waiting"
    /\ pc' = [pc EXCEPT ![c] = "ended"]
    /\ pending' = pending \ {c}
    /\ UNCHANGED <<phase, server, nh, snh, ciphers, wires, out, posted, history>>

-----------------------------------------------------------------------------
Next ==
    \/ Hello \/ HandshakeReply \/ Feed \/ RecvNode \/ Ship \/ Shutdown \/ Flush \/ Close
    \/ ServerFinishes \/ ServerReads
    \/ \E cert \in Certs : ServerHello(cert)
    \/ \E s \in Stanzas, style \in Styles : ServerSends(s, style)
    \/ \E c \in Callers : ServerReplies(c) \/ Register(c) \/ Enqueue(c) \/ TimesOut(c)
    \/ \E n \in Bulky : Post(n)

\* recv_node is polled in every round of the loop, and what is in the stream
\* arrives. The second is WF_vars(RecvNode) with what enables it written out.
FairRecv == []<>~(phase = "open" /\ HasFrame(buf)) \/ []<><<RecvNode>>_vars
Spec == Init /\ [][Next]_vars /\ WF_vars(Feed) /\ FairRecv

-----------------------------------------------------------------------------
(* Properties *)

Down == INSTANCE Pipe WITH put <- put, got <- got
Up == INSTANCE Pipe WITH put <- shipped, got <- read

(* Either end reads what the other has written, in order and unchanged,     *)
(* however the stream is cut into WebSocket messages, whichever way the     *)
(* server encodes, and with every address as an address: an ack is read as  *)
(* one to the very address its stanza came from (recv_node, FrameDecoder,   *)
(* read_value, write_attr_value).                                           *)
InOrder == Down!Spec /\ Up!Spec

(* As long as the select loop runs, neither end meets a ciphertext it cannot *)
(* open: the handshake of do_handshake agrees with the server's, and no node *)
(* is sent after one that has used up a counter without being sent.          *)
Intelligible ==
    /\ "client" \notin garbled
    /\ "server" \in garbled => phase \in {"flushing", "closed"}

(* A reply that the loop has been given finds its caller: iq_request never   *)
(* waits for an answer that has already come.                               *)
NoMissedReply ==
    \A c \in Callers : Meant(IqResult(c)) \in Range(got) => pc[c] \notin {"registered", "waiting"}

(* Every stanza the server sends is handed to the select loop, without more  *)
(* bytes having to arrive, unless the connection ends (recv_node looks for a *)
(* frame before it waits).                                                  *)
Handed ==
    \A i \in 1..(MaxDown + Cardinality(Callers)) : Len(put) >= i ~> (Len(got) >= i \/ phase # "open")

=============================================================================
