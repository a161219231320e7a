------------------------------- MODULE Framing ------------------------------
(***************************************************************************)
(* What the transports make of a stream of bytes or of packets, and get    *)
(* back from it when the network cuts it up as it likes.  A behaviour is   *)
(* about one codec and one direction.                                      *)
(*                                                                         *)
(* A byte of the payload is [k |-> "data", n |-> its position in all that  *)
(* was written]; any other token is a byte, or a run of bytes that is      *)
(* always read as a whole, of a header.  What is encrypted is shown in the *)
(* clear: a nonce counts, so that only the order matters.                  *)
(***************************************************************************)
EXTENDS Integers, Sequences, FiniteSets, TLC

CONSTANTS
  Codecs,       \* those of StreamCodecs, PacketCodecs and "vision" to be looked at
  Bufs,         \* sizes of the buffers that are read into
  Sizes,        \* of what is written at once
  MaxPiece,     \* the largest piece that a frame holds
  MaxWrites,
  Nil

VARIABLES
  fr,           \* a codec
  hs,           \* a handshake that goes on while something is written
  pd            \* packets read with a deadline


StreamCodecs ==
  {"chunk",     \* VMess, with and without AEAD, and the AEAD ciphers of Shadowsocks
   "snell",     \* the same, used for one connection after another
   "iv",        \* the stream ciphers of Shadowsocks
   "record",    \* simple-obfs tls
   "grpc", "mux", "ws", "ssr",
   "response",  \* the http of VMess
   "peek"}      \* simple-obfs http and http_simple, which look at one read only
PacketCodecs == {"trojan", "vless", "snell udp"}

PacketsToFilter == 2          \* 6 in the code

Byte(n) == [k |-> "data", n |-> n]
Mark(k) == [k |-> k, n |-> 0]
Size(n) == <<[k |-> "hi", n |-> n], [k |-> "lo", n |-> n]>>
Data(s) == SelectSeq(s, LAMBDA t : t.k = "data")
Lower(m, n) == IF m < n THEN m ELSE n
Take(s, n) == SubSeq(s, 1, n)
Skip(s, n) == SubSeq(s, n + 1, Len(s))

\* The pieces that what is written is cut into.
Pieces(data) ==
  LET n == (Len(data) + MaxPiece - 1) \div MaxPiece
  IN [i \in 1..n |-> SubSeq(data, (i - 1) * MaxPiece + 1, Lower(i * MaxPiece, Len(data)))]
Joined(seqs) ==
  LET J[i \in 0..Len(seqs)] == IF i = 0 THEN <<>> ELSE J[i - 1] \o seqs[i] IN J[Len(seqs)]
EachPiece(data, Frame(_)) == Joined([i \in DOMAIN Pieces(data) |-> Frame(Pieces(data)[i])])

Init ==
  \E c \in Codecs :
  fr = [codec |-> c, wire |-> <<>>,
        written |-> 0, writes |-> 0, first |-> TRUE,   \* no header yet
        stream |-> 0,                                  \* where the stream of this connection begins
        packets |-> <<>>,                              \* the last byte of each
        half |-> <<>>,                                 \* packets whose length is written
        buf |-> <<>>, remain |-> 0, rAddr |-> 0,
        fresh |-> TRUE,                                \* no response yet
        read |-> <<>>,                                 \* what was read; of packets, by each read
        err |-> Nil,
        odd |-> FALSE,                                 \* the code has no answer to what happened
        vision |-> [isTLS |-> FALSE, xtls |-> FALSE, left |-> PacketsToFilter, handshake |-> TRUE, padding |-> TRUE,
                    direct |-> FALSE, process |-> TRUE, uuid |-> TRUE, last |-> "continue",
                    content |-> 0, pad |-> FALSE, input |-> <<>>, raw |-> FALSE]]

Bytes(n) == [i \in 1..n |-> Byte(fr.written + i)]

-----------------------------------------------------------------------------
(* Streams: writing *)

ChunkWrite(first, data) ==
  (IF first THEN <<Mark("salt")>> ELSE <<>>) \o EachPiece(data, LAMBDA p : Size(Len(p)) \o p)

\* A header of its own goes around what comes first.
SsrHead(p) == Size(Len(p)) \o <<Mark("auth")>> \o p
SsrPacked(p) == Size(Len(p)) \o <<Mark("rand")>> \o p
SsrWrite(first, data) ==
  LET n == Lower(1, Len(data)) IN
  IF first THEN SsrHead(Take(data, n)) \o EachPiece(Skip(data, n), SsrPacked) ELSE EachPiece(data, SsrPacked)

RecordWrite(first, data) ==
  LET n == Lower(MaxPiece, Len(data)) IN
  IF first THEN <<Mark("hello")>> \o Size(n) \o Take(data, n)
                \o EachPiece(Skip(data, n), LAMBDA p : <<Mark("type")>> \o Size(Len(p)) \o p)
           ELSE EachPiece(data, LAMBDA p : <<Mark("type")>> \o Size(Len(p)) \o p)

GrpcWrite(data) == <<Mark("grpc")>> \o Size(Len(data)) \o data
MuxWrite(data) ==
  <<Mark("meta"), [k |-> "status", n |-> 0], [k |-> "option", n |-> 1]>> \o Size(Len(data)) \o data
MuxKeepAlive == <<Mark("meta"), [k |-> "status", n |-> 4], [k |-> "option", n |-> 0]>>
WsWrite(data) == Size(Len(data)) \o data
HttpWrite(first, data) == (IF first THEN <<Mark("head"), Mark("end")>> ELSE <<>>) \o data
IvWrite(first, data) == (IF first THEN <<Mark("iv")>> ELSE <<>>) \o data
SnellWrite(first, data) == ChunkWrite(FALSE, (IF first THEN <<Mark("tunnel")>> ELSE <<>>) \o data)

Encoded(first, data) ==
  CASE fr.codec = "chunk" -> ChunkWrite(first, data)
    [] fr.codec = "snell" -> SnellWrite(first, data)
    [] fr.codec = "iv" -> IvWrite(first, data)
    [] fr.codec = "record" -> RecordWrite(first, data)
    [] fr.codec = "grpc" -> GrpcWrite(data)
    [] fr.codec = "mux" -> MuxWrite(data)
    [] fr.codec = "ws" -> WsWrite(data)
    [] fr.codec = "ssr" -> SsrWrite(first, data)
    [] OTHER -> HttpWrite(first, data)

Write(n) ==
  /\ fr.codec \in StreamCodecs /\ fr.writes < MaxWrites
  /\ fr' = [fr EXCEPT !.wire = @ \o Encoded(fr.first, Bytes(n)), !.first = FALSE,
                      !.written = @ + n, !.writes = @ + 1]

\* A frame without a payload: the server keeps the connection alive.
KeepsAlive ==
  /\ fr.codec = "mux" /\ fr.writes < MaxWrites
  /\ fr' = [fr EXCEPT !.wire = @ \o MuxKeepAlive, !.writes = @ + 1]

\* The connection is put into the pool and used again: the server ends the
\* stream with an empty chunk, and the next one begins with a response.
Reuses ==
  /\ fr.codec = "snell" /\ ~fr.first /\ fr.stream = 0 /\ fr.err = Nil
  /\ fr' = [fr EXCEPT !.wire = @ \o Size(0), !.first = TRUE, !.stream = fr.written, !.fresh = TRUE,
                      !.odd = Data(fr.buf \o fr.wire) # <<>> \/ fr.fresh]

-----------------------------------------------------------------------------
(* Streams: reading *)

Got(f, s) == [f EXCEPT !.read = IF f.codec \in PacketCodecs THEN Append(@, s) ELSE @ \o s]
Rest(f, n) == [f EXCEPT !.wire = Skip(@, n)]
Breaks(why) == fr' = [fr EXCEPT !.err = why]
Arrived(n) == Len(fr.wire) >= n
IsSize(at) ==
  /\ Arrived(at + 1) /\ fr.wire[at].k = "hi" /\ fr.wire[at + 1].k = "lo" /\ fr.wire[at].n = fr.wire[at + 1].n
\* Where a frame with this many tokens before its size begins its payload, and
\* how long that is; only if the header is one.
Headed(at) == IsSize(at + 1)
Payload(at) == fr.wire[at + 1].n

\* What is in the way of the next frame is no header: the reader takes it for one.
OutOfStep(at) == Arrived(at + 2) /\ ~Headed(at) /\ Breaks("garbage")

\* A piece is read as a whole; what does not fit is kept.
ReadKept(c) ==
  /\ fr.codec \in {"chunk", "snell", "response", "peek"} /\ fr.buf # <<>>
  /\ LET n == Lower(c, Len(fr.buf)) IN fr' = Got([fr EXCEPT !.buf = Skip(@, n)], Take(fr.buf, n))

ReadChunk(c) ==
  LET at == IF fr.codec = "chunk" /\ fr.fresh THEN 1 ELSE 0
      n == Payload(at)
      piece == SubSeq(fr.wire, at + 3, at + 2 + n)
  IN
  /\ fr.codec = "chunk" /\ fr.buf = <<>>
  /\ \/ OutOfStep(at)
     \/ /\ Headed(at) /\ Arrived(at + 2 + n)
        /\ fr' = Got([Rest(fr, at + 2 + n) EXCEPT !.fresh = FALSE, !.buf = Skip(piece, Lower(c, n))],
                     Take(piece, Lower(c, n)))

\* Snell reads the response first, by itself.  An empty chunk before it is the
\* end of the connection that had the stream before, and skipped; after it, it
\* is the end.
ReadSnell(c) ==
  LET n == Payload(0)
      kept == IF fr.buf # <<>> THEN fr.buf ELSE SubSeq(fr.wire, 3, 2 + n)
      rest == IF fr.buf # <<>> THEN fr.wire ELSE Skip(fr.wire, 2 + n)
  IN
  /\ fr.codec = "snell"
  /\ fr.buf # <<>> => fr.fresh
  /\ fr.buf = <<>> => Headed(0) /\ Arrived(2 + n)
  /\ CASE kept = <<>> -> fr' = [fr EXCEPT !.wire = rest]
       [] kept # <<>> /\ fr.fresh /\ kept[1].k # "tunnel" -> Breaks("command not support")
       [] kept # <<>> /\ fr.fresh /\ kept[1].k = "tunnel" ->
            fr' = [fr EXCEPT !.wire = rest, !.fresh = FALSE, !.buf = Tail(kept)]
       [] OTHER -> fr' = Got([fr EXCEPT !.wire = rest, !.buf = Skip(kept, Lower(c, Len(kept)))],
                             Take(kept, Lower(c, Len(kept))))

\* As if a read brought all that it asks for.
ReadRemainAsked(c) ==
  LET n == Lower(c, fr.remain) IN
  /\ fr.codec \in {"record", "grpc", "mux", "ws"} /\ fr.remain > 0
  /\ \E m \in (IF fr.codec \in {"record", "grpc"} THEN {n} ELSE 1..n) :
       Arrived(m) /\ fr' = Got([Rest(fr, m) EXCEPT !.remain = @ - n], Take(fr.wire, m))

\* The rest of a frame stays on the wire; Whole asks for all that fits.
ReadRemain(c) ==
  LET n == Lower(c, fr.remain)
      whole == fr.codec \in {"record", "grpc"}
  IN
  /\ fr.codec \in {"record", "grpc", "mux", "ws"} /\ fr.remain > 0
  /\ \E m \in (IF whole THEN {n} ELSE 1..n) :
       Arrived(m) /\ fr' = Got([Rest(fr, m) EXCEPT !.remain = @ - m], Take(fr.wire, m))

\* Whether a frame that is too long is read in one read of the connection or in
\* a full one; a frame that fits is, except by mux and ws, read in a full one.
ReadFrame(c) ==
  LET at == CASE fr.codec = "ws" -> 0 [] fr.codec = "mux" -> 3 [] OTHER -> 1
      n == Payload(at)
      fits == Lower(c, n)
      part == fr.codec \in {"mux", "ws"} \/ (fr.codec = "record" /\ n > c)
  IN
  /\ fr.codec \in {"record", "grpc", "mux", "ws"} /\ fr.remain = 0
  /\ fr.codec = "mux" => Arrived(3) /\ fr.wire[3].n = 1
  /\ \/ OutOfStep(at)
     \/ /\ Headed(at)
        /\ \E m \in (IF part /\ n > 0 THEN 1..fits ELSE {fits}) :
             /\ Arrived(at + 2 + m)
             /\ fr' = Got([Rest(fr, at + 2 + m) EXCEPT !.remain = n - m, !.fresh = FALSE],
                          SubSeq(fr.wire, at + 3, at + 2 + m))

\* status and option are read in one read, which may bring the first alone: the
\* option is then that of the frame before, and the header out of step.
MuxSkips ==
  /\ fr.codec = "mux" /\ fr.remain = 0
  /\ \/ Arrived(3) /\ fr.wire[3].n = 0 /\ fr.wire[3].k = "option" /\ fr' = Rest(fr, 3)
     \/ Arrived(2) /\ fr' = [fr EXCEPT !.err = "garbage", !.odd = TRUE]

\* Read into a buffer of its own, and behind what was left; only whole packets
\* are decoded, so that a read may return nothing.
Whole(t) == Len(t) >= 3 /\ Len(t) >= 3 + t[1].n
Unpacked(s) ==
  LET P[n \in 0..Len(s)] ==                     \* the packets in the last n tokens
        LET t == Skip(s, Len(s) - n) IN
        IF ~Whole(t) THEN [data |-> <<>>, rest |-> t]
        ELSE LET more == P[n - 3 - t[1].n] IN
             [data |-> SubSeq(t, 4, 3 + t[1].n) \o more.data, rest |-> more.rest]
  IN P[Len(s)]

\* buf is decoded \o underDecoded; remain tells how much is decoded.
SsrRead(c) ==
  /\ fr.codec = "ssr"
  /\ \/ /\ fr.remain > 0
        /\ LET n == Lower(c, fr.remain) IN
           fr' = Got([fr EXCEPT !.buf = Skip(@, n), !.remain = @ - n], Take(fr.buf, n))
     \/ /\ fr.remain = 0
        /\ \E m \in 1..Len(fr.wire) :
             LET u == Unpacked(fr.buf \o Take(fr.wire, m))
                 n == Lower(c, Len(u.data))
             IN fr' = Got([Rest(fr, m) EXCEPT !.buf = Skip(u.data, n) \o u.rest, !.remain = Len(u.data) - n],
                          Take(u.data, n))

\* The response of a peer ends somewhere: what came with it is kept.  A reader
\* that looks at one read only fails if the end is not in it.
HttpRead(c) ==
  /\ fr.codec \in {"response", "peek"} /\ fr.fresh
  /\ \E m \in 1..Len(fr.wire) :
       IF m < 2
       THEN fr.codec = "peek" /\ fr' = [fr EXCEPT !.err = "eof", !.odd = TRUE]
       ELSE LET s == SubSeq(fr.wire, 3, m)
                n == Lower(c, Len(s))
            IN fr' = Got([Rest(fr, m) EXCEPT !.fresh = FALSE, !.buf = Skip(s, n)], Take(s, n))

PlainRead(c) ==
  LET at == IF fr.codec = "iv" /\ fr.fresh THEN 1 ELSE 0 IN
  /\ fr.codec = "iv" \/ (fr.codec \in {"response", "peek"} /\ ~fr.fresh /\ fr.buf = <<>>)
  /\ \E m \in 1..c :
       /\ Arrived(at + m)
       /\ fr' = Got([Rest(fr, at + m) EXCEPT !.fresh = FALSE], SubSeq(fr.wire, at + 1, at + m))

ReadStream(c) ==
  /\ fr.codec \in StreamCodecs /\ fr.err = Nil
  /\ \/ ReadKept(c) /\ (fr.codec = "snell" => ~fr.fresh)
     \/ ReadChunk(c) \/ ReadSnell(c) \/ ReadRemain(c) \/ ReadFrame(c)
     \/ MuxSkips \/ SsrRead(c) \/ HttpRead(c) \/ PlainRead(c)

-----------------------------------------------------------------------------
(* Packets on a stream *)

Framed(n) ==
  CASE fr.codec = "trojan" -> <<[k |-> "addr", n |-> Len(fr.packets) + 1]>> \o Size(n) \o <<Mark("crlf")>>
    [] fr.codec = "snell udp" -> Size(n + 1) \o <<[k |-> "addr", n |-> Len(fr.packets) + 1]>>
    [] OTHER -> Size(n)

WritePacket(n) ==
  /\ fr.codec \in {"trojan", "snell udp"} /\ fr.writes < MaxWrites
  /\ fr' = [fr EXCEPT !.wire = @ \o Framed(n) \o Bytes(n), !.packets = Append(@, fr.written + n),
                      !.written = @ + n, !.writes = @ + 1]

\* The packets of VLESS have no lock, and two writes each: another writer may
\* come between them.
VlessSize(n) ==
  /\ fr.codec = "vless" /\ fr.writes < MaxWrites /\ Len(fr.half) < 2
  /\ fr' = [fr EXCEPT !.wire = @ \o Framed(n), !.half = Append(@, Bytes(n)), !.written = @ + n,
                      !.packets = Append(@, fr.written + n), !.writes = @ + 1, !.odd = @ \/ fr.half # <<>>]
VlessPayload ==
  /\ fr.codec = "vless"
  /\ \E i \in DOMAIN fr.half :
       fr' = [fr EXCEPT !.wire = @ \o fr.half[i], !.half = Take(@, i - 1) \o Skip(@, i)]

ReadMore(c) ==
  /\ fr.codec \in {"trojan", "vless"} /\ fr.remain > 0
  /\ \E m \in 1..Lower(c, fr.remain) :
       /\ Arrived(m)
       /\ fr' = Got([Rest(fr, m) EXCEPT !.remain = @ - m],
                    (IF fr.codec = "trojan" THEN <<[k |-> "addr", n |-> fr.rAddr]>> ELSE <<>>) \o Take(fr.wire, m))

ReadTrojan(c) ==
  LET n == Payload(1)  m == Lower(c, n) IN
  /\ fr.codec = "trojan" /\ fr.remain = 0
  /\ Headed(1) /\ Arrived(4 + m)
  /\ fr' = Got([Rest(fr, 4 + m) EXCEPT !.remain = n - m, !.rAddr = fr.wire[1].n],
               <<fr.wire[1]>> \o SubSeq(fr.wire, 5, 4 + m))

\* The length is read in one read, and half of it may come alone.
ReadVless(c) ==
  LET n == Payload(0)  m == Lower(c, n) IN
  /\ fr.codec = "vless" /\ fr.remain = 0
  /\ \/ Arrived(1) /\ fr' = [fr EXCEPT !.err = "garbage", !.odd = TRUE]
     \/ OutOfStep(0)
     \/ Headed(0) /\ Arrived(2 + m)
        /\ fr' = Got([Rest(fr, 2 + m) EXCEPT !.remain = n - m], SubSeq(fr.wire, 3, 2 + m))

\* One chunk is one packet, and what does not fit is dropped.
ReadSnellPacket(c) ==
  LET n == Payload(0) IN
  /\ fr.codec = "snell udp" /\ Headed(0) /\ Arrived(2 + n)
  /\ fr' = Got(Rest(fr, 2 + n), SubSeq(fr.wire, 3, 3 + Lower(c, n - 1)))

ReadPacket(c) ==
  /\ fr.codec \in PacketCodecs /\ fr.err = Nil
  /\ ReadMore(c) \/ ReadTrojan(c) \/ ReadVless(c) \/ ReadSnellPacket(c)

-----------------------------------------------------------------------------
(* XTLS Vision: padded frames inside a TLS connection, which both sides may *)
(* leave after a frame that says so.  Here wire is a sequence of TLS        *)
(* records, [tls |-> tokens], and of bytes outside TLS, [raw |-> a byte].   *)

Vision == fr.vision

\* What is written: the hello of a client or a server, data of an inner TLS
\* connection, or something else.  FilterTLS looks at a number of packets.
Contents == {"empty", "client hello", "server hello", "data", "other"}
FilterTLS(v, content, tls13) ==
  IF v.left = 0 THEN v
  ELSE CASE content = "client hello" -> [v EXCEPT !.left = @ - 1, !.isTLS = TRUE]
         [] content = "server hello" -> [v EXCEPT !.left = 0, !.isTLS = TRUE, !.xtls = @ \/ tls13]
         [] OTHER -> [v EXCEPT !.left = @ - 1]

Padded(command, uuid, data, padding) ==
  (IF uuid THEN <<Mark("uuid")>> ELSE <<>>)
  \o <<[k |-> command, n |-> Len(data)], [k |-> "lengths", n |-> padding]>> \o data
  \o (IF padding = 0 THEN <<>> ELSE <<Mark("padding")>>)
Record(s) == <<[tls |-> s]>>
Sent(v, s) == IF v.direct THEN [i \in DOMAIN s |-> [raw |-> s[i]]] ELSE Record(s)

\* What the frame that is about to be written is to say.
Command(v, content) ==
  CASE ~v.isTLS -> [v |-> [v EXCEPT !.padding = FALSE, !.left = 0], say |-> "end", direct |-> FALSE]
    [] v.isTLS /\ (content = "data" \/ v.left = 0) ->
         [v |-> [v EXCEPT !.padding = FALSE], say |-> IF v.xtls THEN "direct" ELSE "end", direct |-> v.xtls]
    [] OTHER -> [v |-> v, say |-> "continue", direct |-> FALSE]

\* The first write goes out with the identity of the user; the connection must
\* be one of TLS 1.3.
VisionFirst(n, content, tls13, outer13) ==
  LET v == IF n = 0 THEN Vision ELSE FilterTLS(Vision, content, tls13) IN
  /\ Vision.handshake
  /\ fr' = [fr EXCEPT !.vision = [v EXCEPT !.handshake = FALSE],
                      !.wire = @ \o Record(Padded("continue", TRUE, Bytes(n), IF v.isTLS THEN 1 ELSE 0)),
                      !.written = @ + n, !.writes = @ + 1,
                      !.err = IF outer13 THEN @ ELSE "not TLS 1.3"]

\* A buffer that leaves no room for the header is cut in two, and what is said
\* with the first part decides how the second goes.  After "end" it is padded
\* once more, though the peer reads what it is as it comes.
VisionPadded(n, content, tls13) ==
  LET big == n = MaxPiece + 1
      one == Command(FilterTLS(Vision, content, tls13), content)
      first == IF big THEN Take(Bytes(n), MaxPiece) ELSE Bytes(n)
      second == Skip(Bytes(n), Len(first))
      v1 == [one.v EXCEPT !.direct = one.direct]
      two == LET v == FilterTLS(v1, content, FALSE)
                 c == IF content = "data" \/ v.left = 0
                      THEN [v |-> [v EXCEPT !.padding = FALSE], say |-> IF v.xtls THEN "direct" ELSE "end", direct |-> v.xtls]
                      ELSE [v |-> v, say |-> "continue", direct |-> FALSE]
             IN [v |-> [c.v EXCEPT !.direct = c.direct], toks |-> Record(Padded(c.say, FALSE, second, 1))]
      wire1 == fr.wire \o Record(Padded(one.say, FALSE, first, IF one.v.isTLS THEN 1 ELSE 0))
  IN
  /\ ~Vision.handshake /\ Vision.padding
  /\ fr' = IF ~big THEN [fr EXCEPT !.vision = v1, !.wire = wire1, !.written = @ + n, !.writes = @ + 1]
           ELSE IF v1.direct \/ ~v1.isTLS
           THEN [fr EXCEPT !.vision = v1, !.wire = wire1 \o Sent(v1, second), !.written = @ + n, !.writes = @ + 1]
           ELSE [fr EXCEPT !.vision = two.v, !.wire = wire1 \o two.toks, !.written = @ + n, !.writes = @ + 1,
                           !.odd = @ \/ one.say = "end"]

VisionPlain(n) ==
  /\ ~Vision.handshake /\ ~Vision.padding
  /\ fr' = [fr EXCEPT !.wire = @ \o Sent(Vision, Bytes(n)), !.written = @ + n, !.writes = @ + 1]

VisionWrite ==
  /\ fr.codec = "vision" /\ fr.writes < MaxWrites /\ fr.err = Nil
  /\ \E n \in Sizes \cup {0}, content \in Contents, tls13 \in BOOLEAN :
       /\ n = 0 <=> content = "empty"
       /\ tls13 => content = "server hello"
       /\ \/ \E outer13 \in BOOLEAN : VisionFirst(n, content, tls13, outer13)
          \/ n > 0 /\ VisionPadded(n, content, tls13)
          \/ n > 0 /\ content = "other" /\ VisionPlain(n)

\* The other direction goes by the same connection and through the same filter.
VisionHears ==
  /\ fr.codec = "vision" /\ ~Vision.handshake /\ Vision.left > 0
  /\ \E tls13 \in BOOLEAN : fr' = [fr EXCEPT !.vision = FilterTLS(@, "server hello", tls13)]

\* The reader of the peer.  input is what TLS has decrypted; the records, and
\* bytes behind them, that it has taken from the network stay in wire, from where
\* rawInput gives them back.
VisionTokens == Vision.input \o (IF fr.wire # <<>> /\ "tls" \in DOMAIN fr.wire[1] THEN fr.wire[1].tls ELSE <<>>)
Taken(n) ==
  IF n <= Len(Vision.input) THEN [fr EXCEPT !.vision.input = Skip(@, n)]
  ELSE [fr EXCEPT !.vision.input = Skip(VisionTokens, n), !.wire = Tail(@)]

VisionHeader ==
  LET s == VisionTokens
      at == IF Vision.uuid THEN 1 ELSE 0
  IN
  /\ Vision.process /\ Vision.content = 0 /\ ~Vision.pad /\ Vision.last = "continue"
  /\ Len(s) >= at + 2
  /\ fr' = IF s[at + 2].k # "lengths" THEN [fr EXCEPT !.err = "garbage"]
           ELSE [Taken(at + 2) EXCEPT !.vision.uuid = FALSE, !.vision.last = s[at + 1].k,
                                      !.vision.content = s[at + 1].n, !.vision.pad = s[at + 2].n > 0]
VisionContent(c) ==
  LET s == IF Vision.input # <<>> THEN Vision.input ELSE VisionTokens IN
  /\ Vision.content > 0
  /\ \E m \in 1..Lower(c, Vision.content) :
       /\ m <= Len(s)
       /\ fr' = Got([Taken(m) EXCEPT !.vision.content = @ - m], Take(s, m))
VisionPadding ==
  /\ Vision.content = 0 /\ Vision.pad /\ VisionTokens # <<>>
  /\ fr' = [Taken(1) EXCEPT !.vision.pad = FALSE]
VisionEnds ==
  /\ Vision.process /\ Vision.content = 0 /\ ~Vision.pad /\ Vision.last = "end"
  /\ fr' = [fr EXCEPT !.vision.process = FALSE]
\* Leaving TLS: first what it has decrypted, then what it has only read, and
\* then the connection itself.
VisionDirect(c) ==
  LET n == Lower(c, Len(Vision.input)) IN
  /\ Vision.process /\ Vision.content = 0 /\ ~Vision.pad /\ Vision.last = "direct"
  /\ fr' = IF n > 0 THEN Got([fr EXCEPT !.vision.input = Skip(@, n)], Take(Vision.input, n))
           ELSE [fr EXCEPT !.vision.process = FALSE, !.vision.raw = TRUE]
\* After "end" the connection is read through TLS, after "direct" without it.
VisionThrough(c) ==
  LET s == IF Vision.input # <<>> THEN Vision.input ELSE VisionTokens IN
  /\ ~Vision.process /\ ~Vision.raw
  /\ \/ \E m \in 1..c : m <= Len(s) /\ fr' = Got(Taken(m), Take(s, m))
     \/ s = <<>> /\ fr.wire # <<>> /\ Breaks("garbage")
VisionRaw(c) ==
  /\ Vision.raw /\ fr.wire # <<>>
  /\ IF "tls" \in DOMAIN fr.wire[1] THEN Breaks("garbage")
     ELSE \E m \in 1..Lower(c, Len(fr.wire)) :
            /\ \A i \in 1..m : "raw" \in DOMAIN fr.wire[i]
            /\ fr' = Got(Rest(fr, m), [i \in 1..m |-> fr.wire[i].raw])

VisionRead(c) ==
  /\ fr.codec = "vision" /\ fr.err = Nil
  /\ VisionHeader \/ VisionContent(c) \/ VisionPadding \/ VisionEnds \/ VisionDirect(c)
     \/ VisionThrough(c) \/ VisionRaw(c)

Next ==
  \/ \E n \in Sizes : Write(n) \/ WritePacket(n) \/ VlessSize(n)
  \/ KeepsAlive \/ Reuses \/ VlessPayload \/ VisionWrite \/ VisionHears
  \/ \E c \in Bufs : ReadStream(c) \/ ReadPacket(c) \/ VisionRead(c)

-----------------------------------------------------------------------------
(* A handshake while a writer, "w", and a reader, "r", use the connection;  *)
(* for "request" both write.  What is written are numbers again.            *)

Handshakes == {"ticket", "random head", "early", "request"}
Sides == {"w", "r"}

HsInit ==
  \E kind \in Handshakes :
  hs = [kind |-> kind, status |-> "new",
        held |-> <<>>,                             \* sendBuf, buf
        wire |-> <<>>, written |-> 0,
        at |-> [p \in Sides |-> "idle"], has |-> [p \in Sides |-> <<>>],
        got |-> FALSE,                             \* rawTransRecv
        conn |-> "none", closed |-> FALSE,
        odd |-> FALSE]

HsStep(p, from, f) ==
  /\ hs.at[p] = from
  /\ hs' = [f EXCEPT !.odd = @ \/ (f.at["w"] # "idle" /\ f.at["r"] # "idle")]

\* A write begins, and sees the status.
HsWrite(p) ==
  /\ hs.written < MaxWrites /\ ~hs.closed
  /\ p = "r" => hs.kind = "request"
  /\ LET n == hs.written + 1
         to == CASE hs.kind = "early" -> IF hs.conn = "none" THEN "dial" ELSE "send"
                 [] hs.status = "done" -> "send"
                 [] hs.kind = "random head" -> "hold"
                 [] hs.kind = "request" -> IF hs.status = "new" THEN "ask" ELSE "send"
                 [] OTHER -> IF hs.status = "new" THEN "greet" ELSE "hold"
     IN HsStep(p, "idle", [hs EXCEPT !.at[p] = to, !.has[p] = <<Byte(n)>>, !.written = n,
                                     !.status = IF to = "ask" THEN "done" ELSE @])

HsSend(p) ==
  HsStep(p, "send", [hs EXCEPT !.at[p] = "idle", !.wire = @ \o hs.has[p], !.has[p] = <<>>])
\* The request is sent with what is written first; who comes second does not
\* wait for that.
HsRequest(p) ==
  HsStep(p, "ask", [hs EXCEPT !.at[p] = "idle", !.wire = @ \o <<Mark("request")>> \o hs.has[p], !.has[p] = <<>>])
TicketGreets ==
  HsStep("w", "greet", [hs EXCEPT !.at["w"] = "idle", !.status = "hello", !.held = @ \o hs.has["w"],
                                  !.has["w"] = <<>>, !.wire = @ \o <<Mark("hello")>>])
TicketHolds ==
  hs.kind = "ticket"
  /\ HsStep("w", "hold", [hs EXCEPT !.at["w"] = "idle", !.held = @ \o hs.has["w"], !.has["w"] = <<>>])
\* The reader has the answer: it takes what is held, changes the status, and
\* writes the end of the handshake with it.
TicketTakes ==
  /\ hs.kind = "ticket" /\ hs.status = "hello"
  /\ HsStep("r", "idle", [hs EXCEPT !.at["r"] = "taken", !.has["r"] = hs.held, !.held = <<>>])
TicketEnds == HsStep("r", "taken", [hs EXCEPT !.at["r"] = "send", !.status = "done"])

\* Writer and reader call the same function, which holds, and sends what is held
\* once the head has been answered.
HeadHolds ==
  hs.kind = "random head"
  /\ HsStep("w", "hold", [hs EXCEPT !.at["w"] = IF hs.status = "new" THEN "idle" ELSE "check",
                                    !.held = @ \o hs.has["w"], !.has["w"] = <<>>,
                                    !.status = IF hs.status = "new" THEN "hello" ELSE @,
                                    !.wire = IF hs.status = "new" THEN @ \o <<Mark("hello")>> ELSE @])
HeadAnswered ==
  /\ hs.kind = "random head" /\ hs.status = "hello" /\ ~hs.got
  /\ HsStep("r", "idle", [hs EXCEPT !.at["r"] = "check", !.got = TRUE])
HeadChecks(p) ==
  HsStep(p, "check", IF hs.got THEN [hs EXCEPT !.at[p] = "clear", !.wire = @ \o hs.held]
                               ELSE [hs EXCEPT !.at[p] = "idle"])
HeadClears(p) ==
  HsStep(p, "clear", [hs EXCEPT !.at[p] = "idle", !.held = <<>>, !.status = "done"])

\* Early data: the first write dials with as much of it as fits; it may fail, and
\* the reader, which waits for it, is told.
EarlyDials ==
  \E ok \in BOOLEAN :
  HsStep("w", "dial", IF ok THEN [hs EXCEPT !.at["w"] = "idle", !.conn = "open", !.status = "done",
                                            !.wire = @ \o hs.has["w"], !.has["w"] = <<>>]
                            ELSE [hs EXCEPT !.at["w"] = "idle", !.closed = TRUE, !.has["w"] = <<>>,
                                            !.written = @ - 1])
EarlyReads ==
  /\ hs.kind = "early" /\ hs.at["r"] = "idle" /\ ~hs.closed
  /\ hs' = [hs EXCEPT !.at["r"] = IF hs.conn = "none" THEN "waits" ELSE "idle"]
EarlyWakes ==
  /\ hs.at["r"] = "waits" /\ (hs.closed \/ hs.conn # "none")
  /\ hs' = [hs EXCEPT !.at["r"] = "idle"]
\* Closing closes the connection, if there is one already.
EarlyCloses ==
  /\ hs.kind = "early" /\ ~hs.closed
  /\ hs' = [hs EXCEPT !.closed = TRUE, !.conn = IF @ = "open" THEN "closed" ELSE @,
                      !.odd = @ \/ hs.at["w"] = "dial"]

HsNext ==
  \/ \E p \in Sides : HsWrite(p) \/ HsSend(p) \/ HsRequest(p) \/ HeadChecks(p) \/ HeadClears(p)
  \/ TicketGreets \/ TicketHolds \/ TicketTakes \/ TicketEnds \/ HeadHolds \/ HeadAnswered
  \/ EarlyDials \/ EarlyReads \/ EarlyWakes \/ EarlyCloses

-----------------------------------------------------------------------------
(* Packets with a deadline: a read that has to be given up goes on behind  *)
(* the back of its reader, and its result waits for the next one.           *)

PdInit ==
  pd = [next |-> 1, chan |-> "free",            \* free, piping, or what was read
        deadline |-> "zero", inRead |-> FALSE, disablePipe |-> FALSE,
        reader |-> "idle", got |-> <<>>, sets |-> 0, odd |-> FALSE]

PdCached == pd.chan \notin {"free", "piping"}
PdReadFrom ==
  /\ pd.reader = "idle"
  /\ pd' = CASE pd.chan = "piping" -> [pd EXCEPT !.reader = "waits"]
             [] PdCached -> [pd EXCEPT !.chan = "free", !.got = Append(@, pd.chan)]
             [] pd.chan = "free" /\ pd.deadline = "past" -> pd       \* times out at once
             [] pd.disablePipe -> [pd EXCEPT !.reader = "plain"]
             [] pd.deadline = "zero" -> [pd EXCEPT !.reader = "decided"]
             [] OTHER -> [pd EXCEPT !.chan = "piping", !.reader = "waits"]
\* No deadline was set, but it may be before this is made known.
PdInRead == pd.reader = "decided" /\ pd' = [pd EXCEPT !.reader = "plain", !.inRead = TRUE]
PdPlain ==
  /\ pd.reader = "plain" /\ pd.next <= MaxWrites
  /\ pd' = [pd EXCEPT !.reader = "idle", !.inRead = FALSE, !.next = @ + 1, !.got = Append(@, ToString(pd.next))]
PdPiped ==
  /\ pd.chan = "piping" /\ pd.next <= MaxWrites
  /\ pd' = [pd EXCEPT !.chan = ToString(pd.next), !.next = @ + 1]
PdTakes ==
  /\ pd.reader = "waits" /\ PdCached
  /\ pd' = [pd EXCEPT !.chan = "free", !.got = Append(@, pd.chan), !.reader = "idle"]
\* The reader gives up: at the deadline of the pipe, or at that of the connection
\* below.
PdTimesOut ==
  /\ pd.deadline = "past"
  /\ pd.reader = "waits" \/ (pd.reader = "plain" /\ pd.disablePipe)
  /\ pd' = [pd EXCEPT !.reader = "idle", !.inRead = FALSE]
PdExpires == pd.deadline = "future" /\ pd' = [pd EXCEPT !.deadline = "past"]
PdSetReadDeadline(t) ==
  /\ pd.sets < MaxWrites
  /\ pd' = [pd EXCEPT !.deadline = t, !.sets = @ + 1,
                      !.disablePipe = @ \/ pd.inRead,
                      !.odd = @ \/ (pd.reader = "decided")]

PdNext ==
  \/ PdReadFrom \/ PdInRead \/ PdPlain \/ PdPiped \/ PdTakes \/ PdTimesOut \/ PdExpires
  \/ \E t \in {"zero", "future"} : PdSetReadDeadline(t)

-----------------------------------------------------------------------------
(* Properties *)

Flat(f) ==
  IF f.codec # "vision" THEN f.buf \o f.wire
  ELSE f.vision.input \o Joined([i \in DOMAIN f.wire |->
         IF "tls" \in DOMAIN f.wire[i] THEN f.wire[i].tls ELSE <<f.wire[i].raw>>])
UpTo(n) == [i \in 1..n |-> Byte(i)]

\* Whatever a stream is cut into, every byte that was written is read, or still
\* to be read, once and in its order, and no byte of a header is taken for one;
\* and nothing fails, unless one of these happened: a status or the end of a
\* head came in two reads; the connection was used again before all of its
\* first stream was read; Vision padded what goes after its "end".
StreamKept ==
  fr.codec \notin PacketCodecs /\ ~fr.odd =>
    /\ fr.err \in {Nil, "not TLS 1.3"}
    /\ fr.err = Nil => fr.read \o Data(Flat(fr)) = UpTo(fr.written)

\* A read returns bytes of one packet only, and with the address of that packet,
\* unless half of a length came alone or two writers were at it.
PacketsKept ==
  fr.codec \in PacketCodecs /\ ~fr.odd =>
    /\ fr.err = Nil
    /\ \A i \in DOMAIN fr.read :
         LET bytes == Data(fr.read[i]) IN
         bytes # <<>> => \E p \in DOMAIN fr.packets :
           /\ \A j \in DOMAIN bytes : bytes[j].n <= fr.packets[p] /\ (p > 1 => bytes[j].n > fr.packets[p - 1])
           /\ \A j \in 1..(Len(bytes) - 1) : bytes[j + 1].n = bytes[j].n + 1
           /\ fr.read[i][1].k = "addr" => fr.read[i][1].n = p

\* What is written during a handshake goes out once, in order and behind the
\* head, if no write met the end of the handshake or another write.
HandshakeKeepsAll ==
  LET out == hs.wire \o hs.has["r"] \o hs.held \o hs.has["w"] IN
  ~hs.odd =>
    /\ hs.at["r"] # "clear" => Data(out) = UpTo(hs.written)
    /\ hs.kind # "early" /\ hs.wire # <<>> => hs.wire[1].k # "data"

\* A reader that waits for a first write that has ended is woken, and a
\* connection that was dialled before it was closed is closed.
EarlyEnds ==
  /\ hs.closed /\ ~hs.odd => hs.conn # "open"
  /\ hs.at["r"] = "waits" /\ hs.written > 0 /\ hs.at["w"] = "idle" => hs.closed \/ hs.conn # "none"

\* A packet that is read after its reader gave up is not lost, nor read twice or
\* out of order; and no reader stays behind its deadline, if that was not set
\* between its look at the deadline and its read.
DeadlineKeepsPackets ==
  /\ pd.got \o (IF PdCached THEN <<pd.chan>> ELSE <<>>) = [i \in 1..(pd.next - 1) |-> ToString(i)]
  /\ ~pd.odd /\ pd.reader = "plain" /\ pd.deadline # "zero" => pd.disablePipe
=============================================================================
