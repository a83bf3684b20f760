----------------------------- MODULE KafkaCodec -----------------------------
(* The codec of the Elixir Kafka interceptor: the basic types of the Kafka  *)
(* protocol, the headers of requests and responses, and the metadata        *)
(* messages of the API versions 0 to 12, as the parsers read them and as    *)
(* the formatters write them.  A binary is a sequence of bytes.  The        *)
(* machine formats a message, cuts it somewhere and parses what is left.    *)
EXTENDS Integers, Sequences, SequencesExt, FiniteSets

CONSTANTS
    Versions,       \* API versions that are tried
    Shapes,         \* kinds of values that fill a message
    Cuts            \* a message keeps all but so many of its last bytes

VARIABLES msg, bin, result

vars == <<msg, bin, result>>

Nil == <<"nil">>
Bin(s) == <<"bin", s>>
List(s) == <<"list", s>>
Ok(value, rest) == <<"ok", value, rest>>
Error == <<"error">>
Untagged == <<"parse_array">>   \* an error tuple without the tag :error
Raise == <<"raise">>            \* a clause error of case or with
IsOk(r) == r[1] = "ok"

\* Types; a struct is a list of fields with their types.
Boolean == <<"boolean">>
Int16 == <<"int16">>
Int32 == <<"int32">>
String == <<"string">>
NullableString == <<"nullable_string">>
CompactString == <<"compact_string">>
CompactNullableString == <<"compact_nullable_string">>
Uuid == <<"uuid">>
TaggedFields == <<"tagged_fields">>
Array(t) == <<"array", t>>
NullableArray(t) == <<"nullable_array", t>>
CompactArray(t) == <<"compact_array", t>>
Struct(fields) == <<"struct", fields>>

----------------------------------------------------------------------------
(* Formatting.                                                              *)

IntBytes(n, w) == [i \in 1..w |-> (n \div 256^(w - i)) % 256]

RECURSIVE FormatUnsignedVarint(_)
\* Seven bits a byte, the low ones first, and a flag on all but the last.
FormatUnsignedVarint(n) ==
    IF n < 128 THEN <<n>> ELSE <<128 + (n % 128)>> \o FormatUnsignedVarint(n \div 128)

FormatFields(f) ==
    FlattenSeq([i \in 1..Cardinality(DOMAIN f) |->
        LET tag == SetToSortSeq(DOMAIN f, <)[i]
        IN  FormatUnsignedVarint(tag) \o FormatUnsignedVarint(Len(f[tag])) \o f[tag]])

RECURSIVE FormatType(_, _)
\* One clause for every type; a value that the type refuses is an error.
FormatType(t, x) ==
    CASE t[1] = "boolean" -> IF x THEN <<1>> ELSE <<0>>
      [] t[1] = "int16" -> IntBytes(x, 2)
      [] t[1] = "int32" -> IntBytes(x, 4)
      [] t[1] = "uuid" -> x
      [] t[1] \in {"string", "nullable_string"} ->
            IF x = Nil THEN IntBytes(-1, 2) ELSE IntBytes(Len(x[2]), 2) \o x[2]
      [] t[1] \in {"compact_string", "compact_nullable_string"} ->
            IF x = Nil THEN FormatUnsignedVarint(0)
            ELSE FormatUnsignedVarint(Len(x[2]) + 1) \o x[2]
      [] t[1] \in {"array", "nullable_array"} ->
            IF x = Nil THEN IntBytes(-1, 4)
            ELSE IntBytes(Len(x[2]), 4) \o
                 FlattenSeq([i \in 1..Len(x[2]) |-> FormatType(t[2], x[2][i])])
      [] t[1] = "compact_array" ->
            IF x = Nil THEN FormatUnsignedVarint(0)
            ELSE FormatUnsignedVarint(Len(x[2]) + 1) \o
                 FlattenSeq([i \in 1..Len(x[2]) |-> FormatType(t[2], x[2][i])])
      [] t[1] = "tagged_fields" -> FormatUnsignedVarint(Cardinality(DOMAIN x)) \o FormatFields(x)
      [] t[1] = "struct" ->
            FlattenSeq([i \in 1..Len(t[2]) |-> FormatType(t[2][i][2], x[t[2][i][1]])])

----------------------------------------------------------------------------
(* Parsing.                                                                 *)

Rest(data, n) == SubSeq(data, n + 1, Len(data))

\* A signed big endian number.
ParseInt(data, w) ==
    IF Len(data) < w THEN Error
    ELSE LET high == IF data[1] >= 128 THEN data[1] - 256 ELSE data[1]
             value[i \in 1..w] == IF i = 1 THEN high ELSE value[i - 1] * 256 + data[i]
         IN  Ok(value[w], Rest(data, w))

RECURSIVE ParseUnsignedVarint(_, _)
ParseUnsignedVarint(data, bytesRead) ==
    CASE data = << >> -> Error
      [] data # << >> /\ data[1] >= 128 /\ bytesRead >= 4 -> Error
      [] data # << >> /\ data[1] >= 128 /\ bytesRead < 4 ->
            LET r == ParseUnsignedVarint(Tail(data), bytesRead + 1)
            IN  IF IsOk(r) THEN Ok(r[2] * 128 + data[1] - 128, r[3]) ELSE r
      [] OTHER -> Ok(data[1], Tail(data))

ParseNullableStringOfSize(size, data) ==
    CASE size = -1 -> Ok(Nil, data)
      [] size >= 0 -> IF Len(data) < size THEN Error
                      ELSE Ok(Bin(SubSeq(data, 1, size)), Rest(data, size))
      [] OTHER -> Error

\* A tag, a size and so many bytes; the tags must ascend.
ParseField(data, prev) ==
    LET tag == ParseUnsignedVarint(data, 0)
        size == IF IsOk(tag) THEN ParseUnsignedVarint(tag[3], 0) ELSE Error
    IN  IF ~IsOk(size) \/ ~(tag[2] > prev) \/ Len(size[3]) < size[2] THEN Error
        ELSE Ok(<<tag[2], SubSeq(size[3], 1, size[2])>>, Rest(size[3], size[2]))

RECURSIVE ParseFields(_, _, _, _)
ParseFields(count, data, prev, acc) ==
    IF count = 0 THEN Ok(acc, data)
    ELSE LET r == ParseField(data, prev)
         IN  IF ~IsOk(r) THEN Error
             ELSE ParseFields(count - 1, r[3], r[2][1], (r[2][1] :> r[2][2]) @@ acc)

RECURSIVE ParseType(_, _), ParseArrayElements(_, _, _, _), ParseStruct(_, _, _)

ParseArrayElements(size, t, data, acc) ==
    IF size = 0 THEN Ok(List(acc), data)
    ELSE LET r == ParseType(t, data)
         IN  IF IsOk(r) THEN ParseArrayElements(size - 1, t, r[3], Append(acc, r[2])) ELSE r

ParseNullableArrayOfSize(size, t, data) ==
    IF size < -1 THEN Error
    ELSE IF size = -1 THEN Ok(Nil, data)
    ELSE ParseArrayElements(size, t, data, << >>)

\* A chain of `with`: the first result that is not :ok is the result.
ParseStruct(fields, data, acc) ==
    IF fields = << >> THEN Ok(acc, data)
    ELSE LET r == ParseType(Head(fields)[2], data)
         IN  IF IsOk(r) THEN ParseStruct(Tail(fields), r[3], (Head(fields)[1] :> r[2]) @@ acc) ELSE r

\* {:array, type} reads {:nullable_array, type}.  Its clause for an error
\* returns the reason without the tag :error, and it has no clause for what
\* an array inside returned that way.
ArrayOf(r) ==
    IF IsOk(r) THEN IF r[2] = Nil THEN Error ELSE r
    ELSE IF r = Error THEN Untagged ELSE Raise

CompactArrayOf(r) == IF IsOk(r) \/ r = Error THEN r ELSE Raise

\* The size comes first; a compact one is one more than the size.
ReadString(size, more) ==
    IF IsOk(size) THEN ParseNullableStringOfSize(size[2] - more, size[3]) ELSE Error
NotNil(r) == IF IsOk(r) /\ r[2] = Nil THEN Error ELSE r
ReadArray(size, more, t) ==
    IF IsOk(size) THEN ParseNullableArrayOfSize(size[2] - more, t, size[3]) ELSE Error
ReadFields(count) == IF IsOk(count) THEN ParseFields(count[2], count[3], -1, << >>) ELSE Error

ParseType(t, data) ==
    CASE t[1] = "boolean" -> IF data = << >> THEN Error ELSE Ok(data[1] # 0, Tail(data))
      [] t[1] = "int16" -> ParseInt(data, 2)
      [] t[1] = "int32" -> ParseInt(data, 4)
      [] t[1] = "uuid" -> IF Len(data) < 16 THEN Error ELSE Ok(SubSeq(data, 1, 16), Rest(data, 16))
      [] t[1] = "string" -> NotNil(ReadString(ParseInt(data, 2), 0))
      [] t[1] = "nullable_string" -> ReadString(ParseInt(data, 2), 0)
      [] t[1] = "compact_string" -> NotNil(ReadString(ParseUnsignedVarint(data, 0), 1))
      [] t[1] = "compact_nullable_string" -> ReadString(ParseUnsignedVarint(data, 0), 1)
      [] t[1] = "array" -> ArrayOf(ReadArray(ParseInt(data, 4), 0, t[2]))
      [] t[1] = "nullable_array" -> ReadArray(ParseInt(data, 4), 0, t[2])
      [] t[1] = "compact_array" -> CompactArrayOf(ReadArray(ParseUnsignedVarint(data, 0), 1, t[2]))
      [] t[1] = "tagged_fields" -> ReadFields(ParseUnsignedVarint(data, 0))
      [] t[1] = "struct" -> ParseStruct(t[2], data, << >>)

----------------------------------------------------------------------------
(* The headers and the metadata messages: what is read and what is written  *)
(* in each version of the API.                                              *)

Tags == << <<"tagged_fields", TaggedFields>> >>
Only(b, fields) == IF b THEN fields ELSE << >>

RequestHeaderFields(hv) ==
    << <<"api_key", Int16>>, <<"api_version", Int16>>, <<"correlation_id", Int32>> >>
    \o Only(hv >= 1, << <<"client_id", NullableString>> >>) \o Only(hv = 2, Tags)
ResponseHeaderFields(hv) == << <<"correlation_id", Int32>> >> \o Only(hv = 1, Tags)

ParseRequestTopic(v) ==
    IF v = 9 THEN Struct(<< <<"name", CompactString>> >> \o Tags)
    ELSE Struct(<< <<"topic_id", Uuid>>, <<"name", CompactNullableString>> >> \o Tags)

\* The fields of a request in each version.
ParseRequest(v) ==
    LET create == << <<"allow_auto_topic_creation", Boolean>> >>
        cluster == << <<"include_cluster_authorized_operations", Boolean>> >>
        topic == << <<"include_topic_authorized_operations", Boolean>> >>
        topics(t) == << <<"topics", t>> >>
    IN  CASE v = 0 -> topics(Array(String))
          [] v \in 1..3 -> topics(NullableArray(String))
          [] v \in 4..7 -> topics(NullableArray(String)) \o create
          [] v = 8 -> topics(NullableArray(String)) \o create \o cluster \o topic
          [] v \in 9..10 -> topics(CompactArray(ParseRequestTopic(v))) \o create \o cluster \o topic \o Tags
          [] v \in 11..12 -> topics(CompactArray(ParseRequestTopic(v))) \o create \o topic \o Tags

FormatRequestTopic(v) ==
    IF v = 9 THEN Struct(<< <<"name", CompactString>> >> \o Tags)
    ELSE Struct(<< <<"topic_id", Uuid>>, <<"name", CompactNullableString>> >> \o Tags)

FormatRequest(v) ==
    LET old == << <<"topics", IF v = 0 THEN Array(String) ELSE NullableArray(String)>> >>
        new == << <<"topics", CompactArray(FormatRequestTopic(v))>> >>
        flag(name) == << <<name, Boolean>> >>
    IN  (IF v < 9 THEN old ELSE new)
        \o Only(v >= 4, flag("allow_auto_topic_creation"))
        \o Only(v \in 8..10, flag("include_cluster_authorized_operations"))
        \o Only(v >= 8, flag("include_topic_authorized_operations"))
        \o Only(v >= 9, Tags)

ParseBroker(v) ==
    CASE v = 0 -> Struct(<< <<"node_id", Int32>>, <<"host", String>>, <<"port", Int32>> >>)
      [] v \in 1..8 -> Struct(<< <<"node_id", Int32>>, <<"host", String>>, <<"port", Int32>>,
                                 <<"rack", NullableString>> >>)
      [] v \in 9..12 -> Struct(<< <<"node_id", Int32>>, <<"host", CompactString>>, <<"port", Int32>>,
                                  <<"rack", CompactNullableString>> >> \o Tags)

ParsePartition(v) ==
    LET nodes == IF v < 9 THEN Array(Int32) ELSE CompactArray(Int32)
    IN  Struct(<< <<"error_code", Int16>>, <<"partition_index", Int32>>, <<"leader_id", Int32>> >>
               \o Only(v >= 7, << <<"leader_epoch", Int32>> >>)
               \o << <<"replica_nodes", nodes>>, <<"isr_nodes", nodes>> >>
               \o Only(v >= 5, << <<"offline_replicas", nodes>> >>)
               \o Only(v >= 9, Tags))

ParseTopic(v) ==
    LET parts == IF v < 9 THEN Array(ParsePartition(v)) ELSE CompactArray(ParsePartition(v))
        name == CASE v < 9 -> String [] v \in 9..11 -> CompactString [] OTHER -> CompactNullableString
    IN  Struct(<< <<"error_code", Int16>>, <<"name", name>> >>
               \o Only(v >= 10, << <<"topic_id", Uuid>> >>)
               \o Only(v >= 1, << <<"is_internal", Boolean>> >>)
               \o << <<"partitions", parts>> >>
               \o Only(v >= 8, << <<"topic_authorized_operations", Int32>> >>)
               \o Only(v >= 9, Tags))

ParseResponse(v) ==
    LET of(t) == IF v < 9 THEN Array(t) ELSE CompactArray(t)
    IN  Only(v >= 3, << <<"throttle_time_ms", Int32>> >>)
        \o << <<"brokers", of(ParseBroker(v))>> >>
        \o Only(v >= 2, << <<"cluster_id", IF v < 9 THEN NullableString ELSE CompactNullableString>> >>)
        \o Only(v >= 1, << <<"controller_id", Int32>> >>)
        \o << <<"topics", of(ParseTopic(v))>> >>
        \o Only(v \in 8..10, << <<"cluster_authorized_operations", Int32>> >>)
        \o Only(v >= 9, Tags)

FormatBroker(v) ==
    Struct(<< <<"node_id", Int32>>, <<"host", IF v < 9 THEN String ELSE CompactString>>, <<"port", Int32>> >>
           \o Only(v \in 1..8, << <<"rack", NullableString>> >>)
           \o Only(v >= 9, << <<"rack", CompactNullableString>> >> \o Tags))

FormatPartition(v) ==
    LET head == << <<"error_code", Int16>>, <<"partition_index", Int32>>, <<"leader_id", Int32>> >>
        nodes(t) == << <<"replica_nodes", t>>, <<"isr_nodes", t>> >>
        offline(t) == << <<"offline_replicas", t>> >>
        epoch == << <<"leader_epoch", Int32>> >>
    IN  CASE v \in 0..4 -> Struct(head \o nodes(Array(Int32)))
          [] v \in 5..6 -> Struct(head \o nodes(Array(Int32)) \o offline(Array(Int32)))
          [] v \in 7..8 -> Struct(head \o epoch \o nodes(Array(Int32)) \o offline(Array(Int32)))
          [] v \in 9..12 -> Struct(head \o epoch \o nodes(CompactArray(Int32)) \o offline(CompactArray(Int32)) \o Tags)

FormatTopic(v) ==
    LET code == << <<"error_code", Int16>> >>
        name(t) == << <<"name", t>> >>
        id == << <<"topic_id", Uuid>> >>
        rest(of) == << <<"is_internal", Boolean>>, <<"partitions", of>> >>
        ops == << <<"topic_authorized_operations", Int32>> >>
        old == Array(FormatPartition(v))
        new == CompactArray(FormatPartition(v))
    IN  CASE v = 0 -> Struct(code \o name(String) \o << <<"partitions", old>> >>)
          [] v \in 1..7 -> Struct(code \o name(String) \o rest(old))
          [] v = 8 -> Struct(code \o name(String) \o rest(old) \o ops)
          [] v = 9 -> Struct(code \o name(CompactString) \o rest(new) \o ops \o Tags)
          [] v \in 10..11 -> Struct(code \o name(CompactString) \o id \o rest(new) \o ops \o Tags)
          [] v = 12 -> Struct(code \o name(CompactNullableString) \o id \o rest(new) \o ops \o Tags)

FormatResponse(v) ==
    LET time == << <<"throttle_time_ms", Int32>> >>
        old == << <<"brokers", Array(FormatBroker(v))>> >>
        new == << <<"brokers", CompactArray(FormatBroker(v))>> >>
        cluster(t) == << <<"cluster_id", t>> >>
        controller == << <<"controller_id", Int32>> >>
        oldTopics == << <<"topics", Array(FormatTopic(v))>> >>
        newTopics == << <<"topics", CompactArray(FormatTopic(v))>> >>
        ops == << <<"cluster_authorized_operations", Int32>> >>
    IN  CASE v = 0 -> old \o oldTopics
          [] v = 1 -> old \o controller \o oldTopics
          [] v = 2 -> old \o cluster(NullableString) \o controller \o oldTopics
          [] v \in 3..7 -> time \o old \o cluster(NullableString) \o controller \o oldTopics
          [] v = 8 -> time \o old \o cluster(NullableString) \o controller \o oldTopics \o ops
          [] v \in 9..10 -> time \o new \o cluster(CompactNullableString) \o controller \o newTopics \o ops \o Tags
          [] v \in 11..12 -> time \o new \o cluster(CompactNullableString) \o controller \o newTopics \o Tags

----------------------------------------------------------------------------
(* Whole requests and responses.                                            *)

Metadata == 3

\* Version of the header of a request, and of its response; 0 and 1 for an
\* API that is not known.
RequestHeaderVersion(key, v) ==
    CASE key # Metadata -> <<"unsupported_api">>
      [] key = Metadata /\ v < 9 -> <<"ok", 1>>
      [] key = Metadata /\ v \in 9..12 -> <<"ok", 2>>
      [] OTHER -> Error
ResponseHeaderVersion(key, v) ==
    CASE key # Metadata -> <<"unsupported_api">>
      [] key = Metadata /\ v < 9 -> <<"ok", 0>>
      [] key = Metadata /\ v \in 9..12 -> <<"ok", 1>>
      [] OTHER -> Error

\* The content must use up the data; no clause takes anything else.
WithContent(header, c) ==
    IF IsOk(c) /\ c[3] = << >> THEN Ok([header |-> header, content |-> c[2]], << >>)
    ELSE IF c = Error THEN c ELSE Raise

WithHeader(h, fields) == IF IsOk(h) THEN WithContent(h[2], ParseStruct(fields, h[3], << >>)) ELSE h

\* The fixed part of the header says which version the whole header has.
WithVersion(hv, v, data) ==
    IF IsOk(hv) THEN WithHeader(ParseStruct(RequestHeaderFields(hv[2]), data, << >>), ParseRequest(v)) ELSE hv
WithFixedPart(h0, data) ==
    IF IsOk(h0) THEN WithVersion(RequestHeaderVersion(h0[2].api_key, h0[2].api_version), h0[2].api_version, data)
    ELSE Error
ParseKafkaRequest(data) == WithFixedPart(ParseStruct(RequestHeaderFields(0), data, << >>), data)

\* The result is passed on as it is; the interceptor has clauses for :ok
\* with a header and for :error only.
ForRequest(hv, h, v, id) ==
    IF IsOk(h) /\ hv = 0 /\ h[2].correlation_id # id THEN Error ELSE WithHeader(h, ParseResponse(v))
ParseKafkaResponseForRequest(key, v, id, data) ==
    LET hv == ResponseHeaderVersion(key, v)
    IN  IF IsOk(hv) THEN ForRequest(hv[2], ParseStruct(ResponseHeaderFields(hv[2]), data, << >>), v, id) ELSE hv

----------------------------------------------------------------------------
(* The messages: a shape says how the types are filled.                     *)

Letters(shape) == CASE shape = "long" -> [i \in 1..127 |-> 97]
                    [] shape \in {"nil", "empty"} -> << >>
                    [] OTHER -> <<98, 99>>

RECURSIVE Fill(_, _)
Fill(t, shape) ==
    CASE t[1] = "boolean" -> shape # "empty"
      [] t[1] \in {"int16", "int32"} -> CASE shape = "nil" -> -1 [] shape = "long" -> 300 [] OTHER -> 5
      [] t[1] = "uuid" -> [i \in 1..16 |-> i]
      [] t[1] \in {"string", "compact_string"} -> Bin(Letters(shape))
      [] t[1] \in {"nullable_string", "compact_nullable_string"} ->
            IF shape = "nil" THEN Nil ELSE Bin(Letters(shape))
      [] t[1] \in {"nullable_array", "compact_array"} /\ shape = "nil" -> Nil
      [] t[1] \in {"array", "nullable_array", "compact_array"} /\ shape \in {"nil", "empty"} -> List(<< >>)
      [] t[1] \in {"array", "nullable_array", "compact_array"} /\ shape = "two" ->
            List(<<Fill(t[2], "one"), Fill(t[2], "empty")>>)
      [] t[1] \in {"array", "nullable_array", "compact_array"} -> List(<<Fill(t[2], shape)>>)
      [] t[1] = "tagged_fields" ->
            CASE shape \in {"nil", "empty"} -> << >>
              [] shape = "one" -> (0 :> <<7>>)
              [] OTHER -> (0 :> <<7>>) @@ (128 :> << >>) @@ (3 :> <<8, 8>>)
      [] t[1] = "struct" ->
            [f \in {t[2][i][1] : i \in 1..Len(t[2])} |->
                LET i == CHOOSE j \in 1..Len(t[2]) : t[2][j][1] = f IN Fill(t[2][i][2], shape)]

\* What a message of the kind and version holds, and the types it is
\* written with.
Layout(m) ==
    IF m.kind = "request"
    THEN [header |-> RequestHeaderFields(RequestHeaderVersion(Metadata, m.v)[2]), content |-> FormatRequest(m.v)]
    ELSE [header |-> ResponseHeaderFields(ResponseHeaderVersion(Metadata, m.v)[2]), content |-> FormatResponse(m.v)]

Value(m) ==
    LET h == Fill(Struct(Layout(m).header), m.shape)
        header == IF m.kind = "request" THEN [h EXCEPT !.api_key = Metadata, !.api_version = m.v] ELSE h
    IN  [header |-> header, content |-> Fill(Struct(Layout(m).content), m.shape)]

Init ==
    /\ msg \in [kind : {"request", "response"}, v : Versions, shape : Shapes]
    /\ bin = << >>
    /\ result = <<"none">>

Format ==
    /\ bin = << >>
    /\ bin' = FormatType(Struct(Layout(msg).header), Value(msg).header)
               \o FormatType(Struct(Layout(msg).content), Value(msg).content)
    /\ UNCHANGED <<msg, result>>

\* The data arrives, all of it or cut short.
Parse(cut) ==
    LET data == SubSeq(bin, 1, Len(bin) - cut)
    IN  /\ bin # << >> /\ result[1] = "none" /\ cut < Len(bin)
        /\ result' = IF msg.kind = "request" THEN ParseKafkaRequest(data)
                     ELSE ParseKafkaResponseForRequest(Metadata, msg.v, Value(msg).header.correlation_id, data)
        /\ bin' = data
        /\ UNCHANGED msg

Next == Format \/ \E cut \in Cuts : Parse(cut)

Spec == Init /\ [][Next]_vars

----------------------------------------------------------------------------
Whole == bin = FormatType(Struct(Layout(msg).header), Value(msg).header)
               \o FormatType(Struct(Layout(msg).content), Value(msg).content)

\* Whatever a formatter writes in a version of the API, the parser of that
\* version reads back, field by field, with nothing left over
\* (response/parser.ex and response/formatter.ex, request/parser.ex and
\* request/formatter.ex, and the varints and sizes of the basic types).
RoundTrip == result[1] # "none" /\ Whole => result = Ok(Value(msg), << >>)

\* Data that was cut short is never taken for a message: no strict prefix
\* of a message parses (the sizes of parser.ex are checked).
PrefixRefused == result[1] # "none" /\ IsOk(result) => Whole

\* Data that cannot be parsed in a flexible version gives an error; it never raises a
\* clause error in the parser or in the interceptor that called it.
ErrorsAreTagged == msg.v >= 9 => result[1] # "raise"
=============================================================================
