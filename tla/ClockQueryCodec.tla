--------------------------- MODULE ClockQueryCodec ---------------------------
(***************************************************************************)
(* The generated protobuf codec of QueryClockContractsResponse, the reply  *)
(* of the clock module's ClockContracts query (x/clock/types/query.pb.go): *)
(* one repeated string field, ContractAddresses = 1.                       *)
(*                                                                         *)
(* Marshal sizes the buffer with Size, then fills it from the end          *)
(* (MarshalToSizedBuffer, encodeVarintQuery).  Unmarshal walks the bytes,  *)
(* reading varint tags and lengths, appending each field-1 string and      *)
(* skipping unknown fields with skipQuery.  Every check of the generated   *)
(* code is kept, in its order.  Integers keep their width: uint64 and int  *)
(* are IntWidth bits wide and int32 is Int32Width bits wide, scaled down   *)
(* from 64 and 32 so that overflow, sign flips and wrap-around are reached *)
(* by short inputs.  A Go slice or index out of range is a panic.          *)
(*                                                                         *)
(* A byte string is a sequence of naturals in 0..255; Go index j is        *)
(* position j + 1 of the sequence.                                         *)
(***************************************************************************)
EXTENDS Integers, Sequences, SequencesExt

CONSTANTS
    IntWidth,     \* the width of uint64 and int (64 in the code)
    Int32Width,   \* the width of int32 (32 in the code)
    Addresses,    \* the contract addresses a response may carry
    MaxAddrs,     \* the most addresses in one response
    Alphabet,     \* the bytes of the decoder's arbitrary inputs
    MaxInput,     \* the longest arbitrary input
    GasValues     \* the ContractGasLimit values a params response may carry

ASSUME CodecAssumption ==
    /\ IntWidth \in 8..30
    /\ Int32Width \in 2..IntWidth
    /\ Addresses \subseteq Seq(0..255)
    /\ MaxAddrs \in Nat
    /\ Alphabet \subseteq 0..255
    /\ MaxInput \in Nat
    /\ GasValues \subseteq 0..(2^IntWidth - 1)

Modulus == 2^IntWidth

\* int(u) of a uint64, and an int result wrapped to the width.
ToSigned(u) == IF u >= 2^(IntWidth - 1) THEN u - Modulus ELSE u
Wrap(x) == ToSigned(x % Modulus)

\* int32(u): the low Int32Width bits, read as two's complement.
ToInt32(u) == LET v == u % 2^Int32Width
              IN IF v >= 2^(Int32Width - 1) THEN v - 2^Int32Width ELSE v

(***************************************************************************)
(* The varint loop shared by Unmarshal and skipQuery, from index i:        *)
(* `if shift >= 64` overflow, `if iNdEx >= l` EOF, read b, accumulate      *)
(* `(b & 0x7F) << shift` in the width (the bits below shift are disjoint   *)
(* from it, so | is +), stop at b < 0x80.                                  *)
(***************************************************************************)
RECURSIVE ReadVarint(_, _, _, _)
ReadVarint(d, i, shift, acc) ==
    IF shift >= IntWidth THEN [st |-> "ErrIntOverflow"]
    ELSE IF i >= Len(d) THEN [st |-> "ErrUnexpectedEOF"]
    ELSE LET b    == d[i + 1]
             acc2 == acc + (((b % 128) * 2^shift) % Modulus)
         IN IF b < 128 THEN [st |-> "ok", val |-> acc2, idx |-> i + 1]
                       ELSE ReadVarint(d, i + 1, shift + 7, acc2)

\* dAtA[lo:hi], a panic when the bounds are out of range.
GoSlice(d, lo, hi) ==
    IF 0 <= lo /\ lo <= hi /\ hi <= Len(d)
    THEN [st |-> "ok", bytes |-> SubSeq(d, lo + 1, hi)]
    ELSE [st |-> "panic"]

(***************************************************************************)
(* skipQuery(dAtA): the length of the first field of dAtA, groups          *)
(* included.  `after` is the common tail of each case: the negative-index  *)
(* check, then return at depth 0 or loop while iNdEx < l.                  *)
(***************************************************************************)
RECURSIVE SkipLoop(_, _, _)
SkipLoop(d, i, depth) ==
    LET after(j, dp) ==
            IF j < 0 THEN [st |-> "ErrInvalidLength"]
            ELSE IF dp = 0 THEN [st |-> "ok", n |-> j]
            ELSE SkipLoop(d, j, dp)
        t  == ReadVarint(d, i, 0, 0)
        wt == t.val % 8
        v  == ReadVarint(d, t.idx, 0, 0)
    IN  IF ~(i < Len(d)) THEN [st |-> "ErrUnexpectedEOF"]
        ELSE IF t.st # "ok" THEN t
        ELSE CASE wt = 0 -> IF v.st # "ok" THEN v ELSE after(v.idx, depth)
               [] wt = 1 -> after(Wrap(t.idx + 8), depth)
               [] wt = 2 -> IF v.st # "ok" THEN v
                            ELSE IF ToSigned(v.val) < 0
                                 THEN [st |-> "ErrInvalidLength"]
                            ELSE after(Wrap(v.idx + ToSigned(v.val)), depth)
               [] wt = 3 -> after(t.idx, depth + 1)
               [] wt = 4 -> IF depth = 0
                            THEN [st |-> "ErrUnexpectedEndOfGroup"]
                            ELSE after(t.idx, depth - 1)
               [] wt = 5 -> after(Wrap(t.idx + 4), depth)
               [] OTHER  -> [st |-> "ErrIllegalWireType"]

\* Mutant: skipQuery starting at index 1, past the tag's first byte.
SkipQueryFromOne(d) == SkipLoop(d, 1, 0)

SkipQuery(d) == SkipLoop(d, 0, 0)

(***************************************************************************)
(* Mutant: the `postIndex > l` check dropped.                              *)
(***************************************************************************)
StringFieldNoEOFCheck(d, j) ==
    LET s    == ReadVarint(d, j, 0, 0)
        post == Wrap(s.idx + ToSigned(s.val))
    IN  IF s.st # "ok" THEN s
        ELSE IF ToSigned(s.val) < 0 \/ post < 0 THEN [st |-> "ErrInvalidLength"]
        ELSE LET sl == GoSlice(d, s.idx, post)
             IN IF sl.st # "ok" THEN sl
                ELSE [st |-> "ok", str |-> sl.bytes, idx |-> post]

(***************************************************************************)
(* The `case 1` branch of Unmarshal after the wire-type check, from index  *)
(* j: the length varint, its int conversion and sign check, postIndex      *)
(* with its wrap and bound checks, then string(dAtA[iNdEx:postIndex]).     *)
(***************************************************************************)
StringField(d, j) ==
    LET s    == ReadVarint(d, j, 0, 0)
        post == Wrap(s.idx + ToSigned(s.val))
    IN  IF s.st # "ok" THEN s
        ELSE IF ToSigned(s.val) < 0 \/ post < 0 THEN [st |-> "ErrInvalidLength"]
        ELSE IF post > Len(d) THEN [st |-> "ErrUnexpectedEOF"]
        ELSE LET sl == GoSlice(d, s.idx, post)
             IN IF sl.st # "ok" THEN sl
                ELSE [st |-> "ok", str |-> sl.bytes, idx |-> post]

(***************************************************************************)
(* The field loop of Unmarshal from index i with the addresses read so     *)
(* far: tag varint, end-group and illegal-tag checks, field 1 or skip, and *)
(* after the loop the final `iNdEx > l` check.                             *)
(***************************************************************************)
RECURSIVE UnmarshalLoop(_, _, _)
UnmarshalLoop(d, i, out) ==
    LET t        == ReadVarint(d, i, 0, 0)
        fieldNum == ToInt32(t.val \div 8)
        wireType == t.val % 8
        f        == StringField(d, t.idx)
        k        == SkipQuery(SubSeq(d, i + 1, Len(d)))
    IN  IF ~(i < Len(d))
        THEN IF i > Len(d) THEN [st |-> "ErrUnexpectedEOF"]
                           ELSE [st |-> "ok", msg |-> out]
        ELSE IF t.st # "ok" THEN t
        ELSE IF wireType = 4 THEN [st |-> "ErrEndGroupNonGroup"]
        ELSE IF fieldNum <= 0 THEN [st |-> "ErrIllegalTag"]
        ELSE IF fieldNum = 1
             THEN IF wireType # 2 THEN [st |-> "ErrWrongWireType"]
                  ELSE IF f.st # "ok" THEN f
                  ELSE UnmarshalLoop(d, f.idx, Append(out, f.str))
        ELSE IF k.st # "ok" THEN k
        ELSE IF k.n < 0 \/ Wrap(i + k.n) < 0 THEN [st |-> "ErrInvalidLength"]
        ELSE IF Wrap(i + k.n) > Len(d) THEN [st |-> "ErrUnexpectedEOF"]
        ELSE UnmarshalLoop(d, Wrap(i + k.n), out)

Unmarshal(d) == UnmarshalLoop(d, 0, <<>>)

(***************************************************************************)
(* QueryClockContracts.Unmarshal, the request of the query, which has no   *)
(* fields (QueryParamsRequest.Unmarshal is the same code): the same tag    *)
(* checks, then every field is skipped with skipQuery.                     *)
(***************************************************************************)
RECURSIVE UnmarshalEmptyLoop(_, _)
UnmarshalEmptyLoop(d, i) ==
    LET t == ReadVarint(d, i, 0, 0)
        k == SkipQuery(SubSeq(d, i + 1, Len(d)))
    IN  IF ~(i < Len(d))
        THEN IF i > Len(d) THEN [st |-> "ErrUnexpectedEOF"] ELSE [st |-> "ok"]
        ELSE IF t.st # "ok" THEN t
        ELSE IF t.val % 8 = 4 THEN [st |-> "ErrEndGroupNonGroup"]
        ELSE IF ToInt32(t.val \div 8) <= 0 THEN [st |-> "ErrIllegalTag"]
        ELSE IF k.st # "ok" THEN k
        ELSE IF k.n < 0 \/ Wrap(i + k.n) < 0 THEN [st |-> "ErrInvalidLength"]
        ELSE IF Wrap(i + k.n) > Len(d) THEN [st |-> "ErrUnexpectedEOF"]
        ELSE UnmarshalEmptyLoop(d, Wrap(i + k.n))

UnmarshalEmpty(d) == UnmarshalEmptyLoop(d, 0)

(***************************************************************************)
(* Marshal side.  math_bits.Len64 is the bit length; sovQuery is the       *)
(* number of varint bytes of x.                                            *)
(***************************************************************************)
BitLen64[x \in Nat] == IF x = 0 THEN 0 ELSE 1 + BitLen64[x \div 2]

\* x | 1
OrOne(x) == IF x % 2 = 0 THEN x + 1 ELSE x

\* Mutant: sovQuery without the `| 1`, so that sovQuery(0) = 0.
SovQueryNoOr(x) == (BitLen64[x] + 6) \div 7

SovQuery(x) == (BitLen64[OrOne(x)] + 6) \div 7

\* The bytes the loop of encodeVarintQuery writes for v, first to last.
RECURSIVE VarintBytes(_)
VarintBytes(v) ==
    IF v >= 128 THEN <<(v % 128) + 128>> \o VarintBytes(v \div 128)
                ELSE <<v>>

\* Size(): 1 + l + sovQuery(l) for each address.
Size(addrs) ==
    LET n[k \in 0..Len(addrs)] ==
            IF k = 0 THEN 0
            ELSE n[k - 1] + 1 + Len(addrs[k]) + SovQuery(Len(addrs[k]))
    IN  n[Len(addrs)]

\* Writing bs at Go index lo of buf; a write past either end panics.
Put(buf, lo, bs) ==
    IF lo < 0 \/ lo + Len(bs) > Len(buf) THEN [st |-> "panic"]
    ELSE [st  |-> "ok",
          buf |-> [k \in 1..Len(buf) |->
                      IF k - lo \in 1..Len(bs) THEN bs[k - lo] ELSE buf[k]]]

\* encodeVarintQuery(dAtA, offset, v): step back sovQuery(v), write forward.
EncodeVarintQuery(buf, offset, v) ==
    LET base == offset - SovQuery(v)
        w    == Put(buf, base, VarintBytes(v))
    IN  IF w.st # "ok" THEN w ELSE [st |-> "ok", buf |-> w.buf, i |-> base]

(***************************************************************************)
(* The loop of MarshalToSizedBuffer over the addresses from the last one   *)
(* down: i -= len(s), copy(dAtA[i:], s), the length varint before it, then *)
(* i-- and the tag byte 0xa.  copy writes min(len) bytes, and dAtA[i:]     *)
(* panics for i < 0.                                                       *)
(***************************************************************************)
RECURSIVE Fill(_, _, _)
Fill(addrs, k, r) ==
    LET a  == addrs[k]
        i1 == r.i - Len(a)
        cp == Put(r.buf, i1, SubSeq(a, 1, IF Len(a) <= Len(r.buf) - i1
                                          THEN Len(a) ELSE Len(r.buf) - i1))
        e  == EncodeVarintQuery(cp.buf, i1, Len(a))
        tg == Put(e.buf, e.i - 1, <<10>>)
    IN  IF k = 0 \/ r.st # "ok" THEN r
        ELSE IF i1 < 0 \/ cp.st # "ok" THEN [st |-> "panic"]
        ELSE IF e.st # "ok" THEN e
        ELSE IF tg.st # "ok" THEN tg
        ELSE Fill(addrs, k - 1, [st |-> "ok", buf |-> tg.buf, i |-> e.i - 1])

\* Marshal(): make([]byte, Size()), fill it, return dAtA[:len(dAtA) - i].
Marshal(addrs) ==
    LET size == Size(addrs)
        r    == Fill(addrs, Len(addrs),
                     [st |-> "ok", buf |-> [k \in 1..size |-> 0], i |-> size])
    IN  IF r.st # "ok" THEN [st |-> "panic"]
        ELSE [st |-> "ok", bytes |-> SubSeq(r.buf, 1, size - r.i)]

(***************************************************************************)
(* QueryParamsResponse: one optional message field, Params = 1.  Params    *)
(* (clock.pb.go, generated, not under src/) has one field,                 *)
(* ContractGasLimit uint64 = 1; its codec is the same generated pattern    *)
(* and is modelled from the spec: a varint field omitted when zero, read   *)
(* back by a loop that skips unknown fields.  A response is a record:      *)
(* present = FALSE for m.Params == nil.                                    *)
(***************************************************************************)
NoParams == [present |-> FALSE, gas |-> 0]
WithParams(g) == [present |-> TRUE, gas |-> g]

\* Params.Size and Params.MarshalToSizedBuffer (spec-modelled).
ParamsSize(g) == IF g = 0 THEN 0 ELSE 1 + SovQuery(g)
ParamsBytes(g) == IF g = 0 THEN <<>> ELSE <<8>> \o VarintBytes(g)

\* Params.Unmarshal (spec-modelled) into a Params whose gas limit is gas:
\* a field-1 varint overwrites it, other fields are skipped.
RECURSIVE ParamsLoop(_, _, _)
ParamsLoop(d, i, gas) ==
    LET t == ReadVarint(d, i, 0, 0)
        v == ReadVarint(d, t.idx, 0, 0)
        k == SkipQuery(SubSeq(d, i + 1, Len(d)))
    IN  IF ~(i < Len(d))
        THEN IF i > Len(d) THEN [st |-> "ErrUnexpectedEOF"]
                           ELSE [st |-> "ok", gas |-> gas]
        ELSE IF t.st # "ok" THEN t
        ELSE IF t.val % 8 = 4 THEN [st |-> "ErrEndGroupNonGroup"]
        ELSE IF ToInt32(t.val \div 8) <= 0 THEN [st |-> "ErrIllegalTag"]
        ELSE IF ToInt32(t.val \div 8) = 1
             THEN IF t.val % 8 # 0 THEN [st |-> "ErrWrongWireType"]
                  ELSE IF v.st # "ok" THEN v
                  ELSE ParamsLoop(d, v.idx, v.val)
        ELSE IF k.st # "ok" THEN k
        ELSE IF k.n < 0 \/ Wrap(i + k.n) < 0 THEN [st |-> "ErrInvalidLength"]
        ELSE IF Wrap(i + k.n) > Len(d) THEN [st |-> "ErrUnexpectedEOF"]
        ELSE ParamsLoop(d, Wrap(i + k.n), gas)

\* Mutant: Size counts the tag and the params but not the length varint.
ParamsResponseSizeNoSov(p) ==
    IF p.present THEN 1 + ParamsSize(p.gas) ELSE 0

\* QueryParamsResponse.Size: 1 + l + sovQuery(l) when Params is set.
ParamsResponseSize(p) ==
    IF p.present THEN 1 + ParamsSize(p.gas) + SovQuery(ParamsSize(p.gas))
    ELSE 0

(***************************************************************************)
(* QueryParamsResponse.Marshal: a buffer of Size() bytes; when Params is   *)
(* set, Params.MarshalToSizedBuffer(dAtA[:i]) writes at the end, i drops   *)
(* by its size, the size varint and the tag 0xa go before it; dAtA[:n]     *)
(* with n = len(dAtA) - i.                                                 *)
(***************************************************************************)
ParamsResponseMarshal(p) ==
    LET size == ParamsResponseSize(p)
        buf  == [k \in 1..size |-> 0]
        pb   == ParamsBytes(p.gas)
        w    == Put(buf, size - Len(pb), pb)
        e    == EncodeVarintQuery(w.buf, size - Len(pb), Len(pb))
        tg   == Put(e.buf, e.i - 1, <<10>>)
    IN  IF ~p.present THEN [st |-> "ok", bytes |-> <<>>]
        ELSE IF w.st # "ok" \/ e.st # "ok" \/ tg.st # "ok" THEN [st |-> "panic"]
        ELSE [st |-> "ok", bytes |-> SubSeq(tg.buf, 1, size - (e.i - 1))]

(***************************************************************************)
(* QueryParamsResponse.Unmarshal from index i with the Params read so far: *)
(* the tag checks; field 1 must be length-delimited, its msglen and        *)
(* postIndex are checked as a string's are (StringField), m.Params is      *)
(* allocated if nil and Params.Unmarshal of dAtA[iNdEx:postIndex] merges   *)
(* into it; other fields are skipped with skipQuery.                       *)
(***************************************************************************)
RECURSIVE ParamsResponseLoop(_, _, _)
ParamsResponseLoop(d, i, p) ==
    LET t        == ReadVarint(d, i, 0, 0)
        fieldNum == ToInt32(t.val \div 8)
        wireType == t.val % 8
        f        == StringField(d, t.idx)
        q        == ParamsLoop(f.str, 0, p.gas)
        k        == SkipQuery(SubSeq(d, i + 1, Len(d)))
    IN  IF ~(i < Len(d))
        THEN IF i > Len(d) THEN [st |-> "ErrUnexpectedEOF"]
                           ELSE [st |-> "ok", msg |-> p]
        ELSE IF t.st # "ok" THEN t
        ELSE IF wireType = 4 THEN [st |-> "ErrEndGroupNonGroup"]
        ELSE IF fieldNum <= 0 THEN [st |-> "ErrIllegalTag"]
        ELSE IF fieldNum = 1
             THEN IF wireType # 2 THEN [st |-> "ErrWrongWireType"]
                  ELSE IF f.st # "ok" THEN f
                  ELSE IF q.st # "ok" THEN q
                  ELSE ParamsResponseLoop(d, f.idx, WithParams(q.gas))
        ELSE IF k.st # "ok" THEN k
        ELSE IF k.n < 0 \/ Wrap(i + k.n) < 0 THEN [st |-> "ErrInvalidLength"]
        ELSE IF Wrap(i + k.n) > Len(d) THEN [st |-> "ErrUnexpectedEOF"]
        ELSE ParamsResponseLoop(d, Wrap(i + k.n), p)

UnmarshalParamsResponse(d) == ParamsResponseLoop(d, 0, NoParams)

(***************************************************************************)
(* A query round: either a node marshals a response (of ClockContracts or  *)
(* of Params) and the client unmarshals the bytes, or the client is handed *)
(* arbitrary bytes (a faulty or hostile peer) and unmarshals them as each  *)
(* of the messages.                                                        *)
(***************************************************************************)
Msgs == SeqOf(Addresses, MaxAddrs)
Inputs == SeqOf(Alphabet, MaxInput)
ParamsMsgs == {NoParams} \cup {WithParams(g) : g \in GasValues}
Pending == [st |-> "pending"]

\* origin: "server" when wire is a marshalled QueryClockContractsResponse,
\* "paramsServer" when it is a marshalled QueryParamsResponse (psent), "peer"
\* when it is arbitrary bytes (then sent is empty and psent NoParams).
\* presult: the result of decoding wire as a QueryParamsResponse.
\* reqResult: the result of decoding the same bytes as a QueryClockContracts
\* request, a message with no fields.
VARIABLES origin, sent, psent, wire, result, presult, phase, reqResult
vars == <<origin, sent, psent, wire, result, presult, phase, reqResult>>

Init ==
    /\ result = Pending
    /\ presult = Pending
    /\ reqResult = Pending
    /\ \/ /\ origin = "server" /\ sent \in Msgs /\ psent = NoParams
          /\ wire = <<>> /\ phase = "marshal"
       \/ /\ origin = "paramsServer" /\ sent = <<>> /\ psent \in ParamsMsgs
          /\ wire = <<>> /\ phase = "marshal"
       \/ /\ origin = "peer" /\ sent = <<>> /\ psent = NoParams
          /\ wire \in Inputs /\ phase = "unmarshal"

\* The bytes a Marshal returned, or the round's end on its panic.
Sent(r) == IF r.st = "ok" THEN wire' = r.bytes /\ phase' = "unmarshal"
                          ELSE wire' = wire /\ phase' = "panicked"

\* The server's Marshal of the response; a panic ends the round.
MarshalStep ==
    /\ phase = "marshal"
    /\ origin = "server"
    /\ Sent(Marshal(sent))
    /\ UNCHANGED <<origin, sent, psent, result, presult, reqResult>>

\* The server's Marshal of a params response.
ParamsMarshalStep ==
    /\ phase = "marshal"
    /\ origin = "paramsServer"
    /\ Sent(ParamsResponseMarshal(psent))
    /\ UNCHANGED <<origin, sent, psent, result, presult, reqResult>>

\* The client's Unmarshal of the bytes it received.
UnmarshalStep ==
    /\ phase = "unmarshal"
    /\ origin # "paramsServer"
    /\ result' = Unmarshal(wire)
    /\ phase' = "done"
    /\ UNCHANGED <<origin, sent, psent, wire, presult, reqResult>>

\* The client's Unmarshal of the bytes as a QueryParamsResponse.
ParamsUnmarshalStep ==
    /\ phase \in {"unmarshal", "done"}
    /\ origin # "server"
    /\ presult = Pending
    /\ presult' = UnmarshalParamsResponse(wire)
    /\ UNCHANGED <<origin, sent, psent, wire, result, phase, reqResult>>

\* The same bytes decoded as a request by a server that knows none of
\* their fields.
UnmarshalRequestStep ==
    /\ phase \in {"unmarshal", "done"}
    /\ reqResult = Pending
    /\ reqResult' = UnmarshalEmpty(wire)
    /\ UNCHANGED <<origin, sent, psent, wire, result, presult, phase>>

Next ==
    \/ MarshalStep
    \/ ParamsMarshalStep
    \/ UnmarshalStep
    \/ ParamsUnmarshalStep
    \/ UnmarshalRequestStep

Spec == Init /\ [][Next]_vars

-----------------------------------------------------------------------------
(* The type invariant. *)
TypeOK ==
    /\ origin \in {"server", "paramsServer", "peer"}
    /\ sent \in Msgs
    /\ psent \in ParamsMsgs
    /\ wire \in Seq(0..255)
    /\ phase \in {"marshal", "unmarshal", "panicked", "done"}
    /\ reqResult.st \in {"pending", "ok", "panic", "ErrIntOverflow",
                         "ErrUnexpectedEOF", "ErrInvalidLength",
                         "ErrEndGroupNonGroup", "ErrIllegalTag",
                         "ErrUnexpectedEndOfGroup", "ErrIllegalWireType"}
    /\ result.st \in {"pending", "ok", "panic", "ErrIntOverflow",
                      "ErrUnexpectedEOF", "ErrInvalidLength",
                      "ErrEndGroupNonGroup", "ErrIllegalTag",
                      "ErrWrongWireType", "ErrUnexpectedEndOfGroup",
                      "ErrIllegalWireType"}
    /\ presult.st \in {"pending", "ok", "panic", "ErrIntOverflow",
                       "ErrUnexpectedEOF", "ErrInvalidLength",
                       "ErrEndGroupNonGroup", "ErrIllegalTag",
                       "ErrWrongWireType", "ErrUnexpectedEndOfGroup",
                       "ErrIllegalWireType"}

(* Round trip: Marshal of every response never panics, writes exactly      *)
(* Size() bytes (the buffer is sized by Size and filled from its end, so    *)
(* Size and MarshalToSizedBuffer must agree on every varint length), and    *)
(* Unmarshal of those bytes gives back the same list of addresses.          *)
RoundTrip ==
    origin = "server" =>
        /\ phase # "panicked"
        /\ phase \in {"unmarshal", "done"} => Len(wire) = Size(sent)
        /\ phase = "done" => result = [st |-> "ok", msg |-> sent]

(* Unmarshal of any byte string, however malformed, returns a result or an *)
(* error and never panics: every index and slice of the decoder is guarded  *)
(* by the EOF, overflow, sign and wrap checks before it is used.            *)
UnmarshalNeverPanics ==
    /\ phase = "done" => result.st # "panic"
    /\ reqResult.st # "panic"
    /\ presult.st # "panic"

(* Round trip of the params response: Marshal never panics and writes      *)
(* exactly Size() bytes, for a nil Params (no bytes), a Params whose gas   *)
(* limit is 0 (an empty nested message) and limits whose varint takes one  *)
(* or two bytes; Unmarshal gives back the same Params, nil or set.         *)
ParamsRoundTrip ==
    origin = "paramsServer" =>
        /\ phase # "panicked"
        /\ phase = "unmarshal" => Len(wire) = ParamsResponseSize(psent)
        /\ presult # Pending => presult = [st |-> "ok", msg |-> psent]

(* Unknown fields are skipped: a message that knows none of the fields of  *)
(* a well-formed encoding (here the request type reading a response)       *)
(* accepts it.  skipQuery must measure each field, tag and length varints  *)
(* included, exactly as the encoder wrote it.                               *)
UnknownFieldsSkipped ==
    origin # "peer" /\ reqResult # Pending => reqResult = [st |-> "ok"]

=============================================================================
