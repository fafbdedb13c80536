---------------------------- MODULE StringManip ----------------------------
(***************************************************************************)
(* String::StringManip and String::UTF8Handler: the conversions between    *)
(* texts.  A text is a sequence of bytes, a wide text a sequence of code   *)
(* points, and a character is its number.  A conversion that throws        *)
(* InvalidFormatException, or returns false, answers Refused.              *)
(*                                                                         *)
(* The program uses one conversion, on one text at a time: it encodes a    *)
(* source, decodes the outcome, and discards both.                         *)
(***************************************************************************)
EXTENDS Integers, Sequences, SequencesExt

CONSTANTS
    Bytes,        \* the bytes of the sources of the byte codecs
    CodePoints,   \* the code points of the sources of the text codecs
    Escaped,      \* further ones, which csv, xml, json or js may escape
    Characters,   \* the characters of the texts the parsers are given
    MimeCharacters,   \* those of the texts to be decoded in place
    MaxLength,    \* longest source, in bytes or code points; one less for PairCodecs,
                  \* and two more to be decoded in place
    IntegerBits   \* width of the signed integers of int_to_str and str_to_int

VARIABLE text     \* the conversion and the text in hand

\* std::numeric_limits<Integer>
IntegerMax == 2^(IntegerBits - 1) - 1
IntegerMin == -IntegerMax - 1
IntegerDigits10 == CHOOSE d \in 0 .. IntegerBits : IntegerMax \div 10^d \in 1 .. 9

Text(value) == [ok |-> TRUE, value |-> value]
Refused == [ok |-> FALSE, value |-> <<>>]

\* What a C string shows at position i: the terminator follows the text.
At(s, i) == IF i <= Len(s) THEN s[i] ELSE 0

EachOf(Op(_), s) == FlattenSeq([i \in DOMAIN s |-> Op(s[i])])

-----------------------------------------------------------------------------
(* Characters and categories of characters *)

Digits == 48 .. 57
Upper == 65 .. 90
Lower == 97 .. 122
ALPHA_NUM == Digits \union Upper \union Lower
HEX_NUMBER == Digits \union (65 .. 70) \union (97 .. 102)

\* The character owned by CharCategory("..."): a dash between two characters
\* is a range, a leading or a trailing dash is itself.
RECURSIVE CharTable(_, _)
CharTable(str, last) ==
    IF str = <<>> THEN {}
    ELSE IF str[1] = 45 /\ last # 0 /\ Len(str) > 1
         THEN (last .. str[2]) \union CharTable(SubSeq(str, 3, Len(str)), str[2])
         ELSE {str[1]} \union CharTable(Tail(str), str[1])

\* "A-Za-z0-9_*.,-"
MIME == CharTable(<<65, 45, 90, 97, 45, 122, 48, 45, 57, 95, 42, 46, 44, 45>>, 0)
\* "\\\"'/\n\r<>\xE2" and, as the second argument says, '\0'
NON_JS == CharTable(<<92, 34, 39, 47, 10, 13, 60, 62, 226>>, 0) \union {0}
\* "\\\"\n\r\x01-\x1F" and '\0'
NON_JSON == CharTable(<<92, 34, 10, 13, 1, 45, 31>>, 0) \union {0}

HEX_DIGITS(v) == IF v < 10 THEN 48 + v ELSE 55 + v

hex_to_int(ch) == IF ch <= 57 THEN ch - 48 ELSE (ch % 16) + 9

hex_to_char(major, minor) == hex_to_int(major) * 16 + hex_to_int(minor)

to_lower(ch) == IF ch \in Upper THEN ch + 32 ELSE ch

HexByte(b) == <<HEX_DIGITS(b \div 16), HEX_DIGITS(b % 16)>>

-----------------------------------------------------------------------------
(* UTF-8 *)

Trailing(b) == b \div 64 = 2

get_octet_count(b) ==
    CASE b < 128 -> 1
      [] b \in 194 .. 223 -> 2
      [] b \in 224 .. 239 -> 3
      [] b \in 240 .. 247 -> 4
      [] b \in 248 .. 251 -> 5
      [] b \in 252 .. 253 -> 6
      [] OTHER -> 0

\* The code point of the n octets at position i of s.
utf8_char_to_wchar(s, i, n) ==
    IF n = 0 \/ \E k \in 1 .. n - 1 : ~Trailing(At(s, i + k)) THEN Refused
    ELSE Text(FoldLeft(LAMBDA wch, b : wch * 64 + (b % 64),
                       IF n = 1 THEN s[i] % 128 ELSE s[i] % 2^(7 - n),
                       SubSeq(s, i + 1, i + n - 1)))

MutOctets(wch) ==
    CASE wch <= 128 -> 1
      [] wch \in 129 .. 2047 -> 2
      [] wch \in 2048 .. 65535 -> 3
      [] OTHER -> 4

Octets(wch) ==
    CASE wch < 128 -> 1
      [] wch \in 128 .. 2047 -> 2
      [] wch \in 2048 .. 65535 -> 3
      [] wch \in 65536 .. 2^21 - 1 -> 4
      [] wch \in 2^21 .. 2^26 - 1 -> 5
      [] OTHER -> 6

wchar_to_utf8(wch) ==
    LET n == Octets(wch)
        first == IF n = 1 THEN wch ELSE 256 - 2^(8 - n) + wch \div 64^(n - 1)
    IN  <<first>> \o [k \in 1 .. n - 1 |-> 128 + ((wch \div 64^(n - 1 - k)) % 64)]

wchar_to_utf8_char(wch) == IF wch < 2^21 THEN Text(wchar_to_utf8(wch)) ELSE Refused

\* The number of octets of the sequence at position i, 0 when it is refused.
is_correct_utf8_sequence(s, i) ==
    LET b1 == At(s, i)
        b2 == At(s, i + 1)
        second == CASE b1 = 224 -> b2 \in 160 .. 191
                    [] b1 = 237 -> b2 \in 128 .. 159
                    [] b1 = 240 -> b2 \in 144 .. 191
                    [] b1 = 244 -> b2 \in 128 .. 143
                    [] OTHER -> Trailing(b2)
    IN  CASE b1 < 128 -> 1
          [] b1 \in 194 .. 223 /\ Trailing(b2) -> 2
          [] b1 \in 224 .. 239 /\ second /\ Trailing(At(s, i + 2)) -> 3
          [] b1 \in 240 .. 244 /\ second /\ Trailing(At(s, i + 3)) -> 4
          [] OTHER -> 0

\* From inside a sequence back to its first octet: <<octets, distance>>.
distance_to_sequence_beginning(s, i) ==
    LET p == CHOOSE p \in 1 .. i :
                 /\ ~Trailing(s[p])
                 /\ \A k \in p + 1 .. i : Trailing(s[k])
        octets == get_octet_count(s[p])
    IN  IF s[i] < 128 THEN Text(<<1, 0>>)
        ELSE IF \/ \A k \in 1 .. i : Trailing(s[k])
                \/ octets = 0 \/ octets <= i - p
             THEN Refused
             ELSE Text(<<octets, i - p>>)

RECURSIVE ToWide(_, _)
ToWide(src, i) ==
    IF i > Len(src) THEN Text(<<>>)
    ELSE LET length == get_octet_count(src[i])
             wch == utf8_char_to_wchar(src, i, length)
             rest == ToWide(src, i + length)
         IN  IF length = 0 \/ Len(src) - i + 1 < length \/ ~wch.ok \/ ~rest.ok
             THEN Refused
             ELSE Text(<<wch.value>> \o rest.value)

utf8_to_wchar(src) == ToWide(src, 1)

ToUtf8(wide) == EachOf(wchar_to_utf8, wide)

MutUtf8Prefix(src, length, max_octets) ==
    Text(IF max_octets > Len(src) THEN src ELSE SubSeq(src, 1, max_octets))

RECURSIVE Utf8Prefix(_, _, _)
Utf8Prefix(src, length, max_octets) ==
    LET octets == get_octet_count(src[length + 1])
    IN  IF max_octets = 0 \/ length >= Len(src) \/ octets > max_octets
        THEN Text(SubSeq(src, 1, length))
        ELSE IF \/ octets = 0 \/ length + octets > Len(src)
                \/ \E k \in 2 .. octets : ~Trailing(src[length + k])
             THEN Refused
             ELSE Utf8Prefix(src, length + octets, max_octets - octets)

utf8_substr(src, max_octets) == Utf8Prefix(src, 0, max_octets)

-----------------------------------------------------------------------------
(* Base64 *)

\* The letter of six bits in STD_ENCODE and in MOD_ENCODE.
Letter(v, std) ==
    CASE v < 26 -> 65 + v
      [] v \in 26 .. 51 -> 71 + v
      [] v \in 52 .. 61 -> v - 4
      [] v = 62 -> IF std THEN 43 ELSE 45
      [] v = 63 -> IF std THEN 47 ELSE 95

Ending == 64      \* 0100
Blank == 127      \* 0177

DECODE(ch) ==
    CASE ch \in Upper -> ch - 65
      [] ch \in Lower -> ch - 71
      [] ch \in Digits -> ch + 4
      [] ch \in {43, 45} -> 62
      [] ch \in {47, 95} -> 63
      [] ch \in {0, 46, 124} -> Ending
      [] OTHER -> Blank

\* The one or two bytes after the last triple, completed by fill.
MutTailBits(tail, fill) ==
    CASE Len(tail) = 0 -> <<>>
      [] Len(tail) = 1 -> <<tail[1] \div 4, (tail[1] % 4) * 16 + (fill % 16)>>
      [] Len(tail) = 2 -> <<tail[1] \div 4, (tail[1] % 4) * 16 + tail[2] \div 16,
                            ((tail[2] % 16) * 4 + fill) % 64>>

TailBits(tail, fill) ==
    CASE Len(tail) = 0 -> <<>>
      [] Len(tail) = 1 -> <<tail[1] \div 4, (tail[1] % 4) * 16 + (fill % 16)>>
      [] Len(tail) = 2 -> <<tail[1] \div 4, (tail[1] % 4) * 16 + tail[2] \div 16,
                            (tail[2] % 16) * 4 + (fill % 4)>>

SixBits(src, fill) ==
    LET triples == Len(src) \div 3
        triple(i) == LET a == src[3 * i - 2]  b == src[3 * i - 1]  c == src[3 * i]
                     IN  <<a \div 4, (a % 4) * 16 + b \div 16,
                           (b % 16) * 4 + c \div 64, c % 64>>
    IN  FlattenSeq([i \in 1 .. triples |-> triple(i)])
        \o TailBits(SubSeq(src, 3 * triples + 1, Len(src)), fill)

func_encode(src, padding, std, pad, fill) ==
    LET letters == [i \in DOMAIN SixBits(src, fill) |->
                        Letter(SixBits(src, fill)[i], std)]
    IN  letters \o [i \in 1 .. IF padding THEN (-Len(letters)) % 4 ELSE 0 |-> pad]

base64_encode(src, padding) == func_encode(src, padding, TRUE, 61, 0)

base64mod_encode(src, padding, fill) == func_encode(src, padding, FALSE, 46, fill)

base64mod_encoded_size(n, padding) ==
    IF padding THEN ((n + 2) \div 3) * 4
    ELSE (n \div 3) * 4 + (IF n % 3 = 0 THEN 0 ELSE (n % 3) + 1)

base64mod_max_decoded_size(n) == ((n + 3) \div 4) * 3

\* (8 >> n % 3) & 6
base64mod_fill_size(n) == <<0, 4, 2>>[(n % 3) + 1]

SixBitsAt(src, p) == DECODE(At(src, p))

RECURSIVE skip_blanks(_, _)
skip_blanks(src, p) ==
    IF SixBitsAt(src, p) = Blank THEN skip_blanks(src, p + 1) ELSE p

check_padding(src, p) ==
    LET length == Len(src) - p + 1
        pad_size == (1 - p) % 4
    IN  /\ length \in {pad_size, pad_size + 4}
        /\ length <= 6
        /\ \E pad \in {46, 124, 61} : \A i \in p .. Len(src) : src[i] = pad

\* Where the groups end, the bytes of them and the bits left over.
RECURSIVE DecodeGroups(_, _, _)
DecodeGroups(src, p, dst) ==
    LET p1 == skip_blanks(src, p)       six1 == SixBitsAt(src, p1)
        p2 == skip_blanks(src, p1 + 1)  six2 == SixBitsAt(src, p2)
        p3 == skip_blanks(src, p2 + 1)  six3 == SixBitsAt(src, p3)
        p4 == skip_blanks(src, p3 + 1)  six4 == SixBitsAt(src, p4)
        b1 == six1 * 4 + six2 \div 16
        b2 == (six2 % 16) * 16 + six3 \div 4
        b3 == (six3 % 4) * 64 + six4
        ended(q, bytes, left) == [ok |-> TRUE, pos |-> q, dst |-> dst \o bytes, left |-> left]
    IN  IF p > Len(src) THEN ended(p, <<>>, 0)
        ELSE IF six1 = Ending THEN ended(p1, <<>>, 0)
        ELSE IF six2 = Ending THEN [ok |-> FALSE]
        ELSE IF six3 = Ending THEN ended(p3, <<b1>>, six2 % 16)
        ELSE IF six4 = Ending THEN ended(p4, <<b1, b2>>, six3 % 4)
        ELSE DecodeGroups(src, p4 + 1, dst \o <<b1, b2, b3>>)

\* The bytes and, when the caller takes it, the fill.
base64mod_decode(src, padding, take_fill) ==
    LET d == DecodeGroups(src, 1, <<>>)
    IN  IF \/ ~d.ok
           \/ ~take_fill /\ d.left # 0
           \/ (padding \/ d.pos <= Len(src)) /\ ~check_padding(src, d.pos)
        THEN Refused
        ELSE Text(<<d.dst, IF take_fill THEN d.left ELSE 0>>)

-----------------------------------------------------------------------------
(* MIME URL encoding *)

mime_url_encode(src) ==
    EachOf(LAMBDA ch : IF ch \in MIME THEN <<ch>>
                       ELSE IF ch = 32 THEN <<43>>
                       ELSE <<37>> \o HexByte(ch), src)

\* The two characters after position i are a byte in hexadecimal.
HexFollows(s, i) == At(s, i + 1) \in HEX_NUMBER /\ At(s, i + 2) \in HEX_NUMBER

RECURSIVE MimeDecode(_, _, _)
MimeDecode(src, i, strict) ==
    LET continued(ch, next) ==
            LET rest == MimeDecode(src, next, strict)
            IN  IF rest.ok THEN Text(<<ch>> \o rest.value) ELSE Refused
    IN  IF i > Len(src) THEN Text(<<>>)
        ELSE IF src[i] = 43 THEN continued(32, i + 1)
        ELSE IF src[i] # 37 THEN continued(src[i], i + 1)
        ELSE IF HexFollows(src, i)
             THEN continued(hex_to_char(src[i + 1], src[i + 2]), i + 3)
             ELSE IF strict THEN Refused ELSE continued(37, i + 1)

mime_url_decode(src, strict) == MimeDecode(src, 1, strict)

\* The overload that decodes in place: dest writes behind src in one buffer.
MutDecodeInPlace(str, dest, src, size) == MimeDecode(str, 1, FALSE)

RECURSIVE DecodeInPlace(_, _, _, _)
DecodeInPlace(str, dest, src, size) ==
    LET put(ch) == [str EXCEPT ![dest] = ch]
    IN  IF size = 0 THEN Text(SubSeq(str, 1, dest - 1))
        ELSE IF str[src] = 43 THEN DecodeInPlace(put(32), dest + 1, src + 1, size - 1)
        ELSE IF str[src] # 37 THEN DecodeInPlace(put(str[src]), dest + 1, src + 1, size - 1)
        ELSE IF size < 3 \/ ~HexFollows(str, src) THEN Refused
        ELSE DecodeInPlace(put(hex_to_char(str[src + 1], str[src + 2])),
                           dest + 1, src + 3, size - 3)

mime_url_decode_in_place(str) == DecodeInPlace(str, 1, 1, Len(str))

-----------------------------------------------------------------------------
(* Punycode *)

RECURSIVE Damp(_, _)
Damp(delta, k) ==
    IF delta > 455 THEN Damp(delta \div 35, k + 36)
    ELSE k + (36 * delta) \div (delta + 38)

adapt(delta, numpoints, firsttime) ==
    LET d == IF firsttime THEN delta \div 700 ELSE delta \div 2
    IN  Damp(d + d \div numpoints, 0)

Threshold(k, bias) == IF k <= bias THEN 1 ELSE IF k >= bias + 26 THEN 26 ELSE k - bias

PunycodeDigit(v) == IF v < 26 THEN 97 + v ELSE 22 + v

PunycodeValue(ch) ==
    CASE ch \in Digits -> ch - 22
      [] ch \in Upper -> ch - 65
      [] ch \in Lower -> ch - 97
      [] OTHER -> 36

RECURSIVE VariableLength(_, _, _)
VariableLength(q, k, bias) ==
    LET t == Threshold(k, bias)
    IN  IF q < t THEN <<PunycodeDigit(q)>>
        ELSE <<PunycodeDigit(t + ((q - t) % (36 - t)))>>
             \o VariableLength((q - t) \div (36 - t), k + 36, bias)

\* One pass of the encoder over the input, for its least point not yet handled.
RECURSIVE EncodePasses(_, _)
EncodePasses(input, st) ==
    LET least == CHOOSE c \in ToSet(input) :
                     /\ c >= st.not_less_than
                     /\ \A d \in ToSet(input) : d >= st.not_less_than => c <= d
        point(s, c) ==
            IF c < least THEN [s EXCEPT !.delta = @ + 1]
            ELSE IF c > least THEN s
            ELSE [s EXCEPT !.output = @ \o VariableLength(s.delta, 36, s.bias),
                           !.bias = adapt(s.delta, s.handled + 1, s.first),
                           !.handled = @ + 1, !.first = FALSE, !.delta = 0]
        pass == FoldLeft(point,
                    [st EXCEPT !.delta = @ + (least - st.not_less_than) * (st.handled + 1)],
                    input)
    IN  IF st.handled = Len(input) THEN st.output
        ELSE EncodePasses(input, [pass EXCEPT !.delta = @ + 1,
                                              !.not_less_than = least + 1])

punycode_encode(input) ==
    LET plain == [i \in DOMAIN SelectSeq(input, LAMBDA c : c < 128) |->
                      to_lower(SelectSeq(input, LAMBDA c : c < 128)[i])]
    IN  EncodePasses(input,
            [output |-> IF plain = <<>> THEN <<>> ELSE Append(plain, 45),
             handled |-> Len(plain), not_less_than |-> 128,
             delta |-> 0, bias |-> 72, first |-> TRUE])

\* One number of variable length: where it ends and the sum.
RECURSIVE TakeNumber(_, _, _, _, _, _)
TakeNumber(input, in, out, w, k, bias) ==
    LET digit == PunycodeValue(At(input, in))
        t == Threshold(k, bias)
    IN  IF in > Len(input) \/ digit >= 36 THEN [ok |-> FALSE]
        ELSE IF digit < t THEN [ok |-> TRUE, in |-> in + 1, out |-> out + digit * w]
        ELSE TakeNumber(input, in + 1, out + digit * w, w * (36 - t), k + 36, bias)

RECURSIVE DecodePoints(_, _, _, _, _, _)
DecodePoints(input, in, output, decoded, bias, out) ==
    LET number == TakeNumber(input, in, out, 1, 36, bias)
        size == Len(output) + 1
        point == decoded + number.out \div size
        place == number.out % size
    IN  IF in > Len(input) THEN Text(output)
        ELSE IF ~number.ok THEN Refused
        ELSE DecodePoints(input, number.in, InsertAt(output, place + 1, point), point,
                          adapt(number.out - out, size, out = 0), place + 1)

punycode_decode(input) ==
    LET dashes == {i \in DOMAIN input : input[i] = 45}
        in == IF dashes = {} THEN 0 ELSE CHOOSE i \in dashes : \A j \in dashes : j <= i
    IN  IF \E j \in 1 .. in - 1 : input[j] >= 128 THEN Refused
        ELSE DecodePoints(input, in + 1, SubSeq(input, 1, in - 1), 128, 72, 0)

-----------------------------------------------------------------------------
(* CSV, XML, JavaScript and JSON *)

MutCsvEncode(src, separator) ==
    IF {separator, 34} \intersect ToSet(src) = {} THEN src
    ELSE <<34>> \o EachOf(LAMBDA ch : IF ch = 34 THEN <<34, 34>> ELSE <<ch>>, src) \o <<34>>

csv_encode(src, separator) ==
    IF CharTable(<<separator, 34, 10, 13>>, 0) \intersect ToSet(src) = {} THEN src
    ELSE <<34>> \o EachOf(LAMBDA ch : IF ch = 34 THEN <<34, 34>> ELSE <<ch>>, src) \o <<34>>

\* XmlEncode::init: no units are those of a text and of an attribute.
Units(units) == IF units = {} THEN {"XU_TEXT", "XU_ATTRIBUTE"} ELSE units

\* &lt; &gt; &amp; &apos; &quot;
special(ch, units) ==
    CASE ch = 60 -> <<38, 108, 116, 59>>
      [] ch = 62 -> <<38, 103, 116, 59>>
      [] ch = 38 -> <<38, 97, 109, 112, 59>>
      [] ch = 39 /\ "XU_ATTRIBUTE" \in units -> <<38, 97, 112, 111, 115, 59>>
      [] ch = 34 /\ "XU_ATTRIBUTE" \in units -> <<38, 113, 117, 111, 116, 59>>
      [] OTHER -> <<ch>>

RECURSIVE HexNumber(_)
HexNumber(v) ==
    IF v < 16 THEN <<HEX_DIGITS(v)>> ELSE HexNumber(v \div 16) \o <<HEX_DIGITS(v % 16)>>

\* &#x...;
wchar_to_hex(ucs) == <<38, 35, 120>> \o HexNumber(ucs) \o <<59>>

xml_encode_wide(src, units) ==
    EachOf(LAMBDA ch : IF ch \in 32 .. 126 THEN special(ch, Units(units))
                       ELSE IF "XU_PRESERVE_UTF8" \in units THEN wchar_to_utf8(ch)
                       ELSE wchar_to_hex(ch), src)

RECURSIVE XmlEncodeFrom(_, _, _)
XmlEncodeFrom(src, i, units) ==
    LET n == is_correct_utf8_sequence(src, i)
        octets == SubSeq(src, i, i + n - 1)
        rest == XmlEncodeFrom(src, i + n, units)
        coded == IF n = 1 /\ src[i] \in 32 .. 126 THEN special(src[i], units)
                 ELSE IF "XU_PRESERVE_UTF8" \in units THEN octets
                 ELSE wchar_to_hex(utf8_char_to_wchar(src, i, n).value)
    IN  IF At(src, i) = 0 THEN Text(<<>>)
        ELSE IF n = 0 \/ ~rest.ok THEN Refused
        ELSE Text(coded \o rest.value)

xml_encode(src, units) == XmlEncodeFrom(src, 1, Units(units))

\* What a reference &tag; stands for.
CharCode(hex) ==
    LET zeroes == {i \in DOMAIN hex : \A j \in 1 .. i : hex[j] = 48}
        digits == SubSeq(hex, 1 + Len(SelectSeq([i \in DOMAIN hex |-> i],
                                                LAMBDA i : i \in zeroes)), Len(hex))
    IN  IF hex = <<>> THEN Refused
        ELSE IF digits = <<>> THEN Text(<<0>>)
        ELSE IF Len(digits) > 6 \/ \E i \in DOMAIN digits : digits[i] \notin HEX_NUMBER
        THEN Refused
        ELSE wchar_to_utf8_char(FoldLeft(LAMBDA v, ch : v * 16 + hex_to_int(ch), 0, digits))

Reference(tag) ==
    CASE Len(tag) > 1 /\ tag[1] = 35 /\ tag[2] = 120 -> CharCode(SubSeq(tag, 3, Len(tag)))
      [] tag = <<97, 109, 112>> -> Text(<<38>>)
      [] tag = <<97, 112, 111, 115>> -> Text(<<39>>)
      [] tag = <<103, 116>> -> Text(<<62>>)
      [] tag = <<108, 116>> -> Text(<<60>>)
      [] tag = <<113, 117, 111, 116>> -> Text(<<34>>)
      [] OTHER -> Refused

RECURSIVE XmlDecodeFrom(_, _)
XmlDecodeFrom(src, cur) ==
    LET ends == {j \in cur + 1 .. Len(src) : src[j] = 59}
        semicolon == CHOOSE j \in ends : \A k \in ends : j <= k
        found == Reference(SubSeq(src, cur + 1, semicolon - 1))
        joined(part, rest) == IF rest.ok THEN Text(part \o rest.value) ELSE Refused
    IN  IF cur > Len(src) THEN Text(<<>>)
        ELSE IF src[cur] # 38 THEN joined(<<src[cur]>>, XmlDecodeFrom(src, cur + 1))
        ELSE IF ends = {} \/ semicolon = cur + 1 \/ ~found.ok THEN Refused
        ELSE joined(found.value, XmlDecodeFrom(src, semicolon + 1))

xml_decode(src) == XmlDecodeFrom(src, 1)

\* \uXXXX
add_unicode_symbol(u) ==
    <<92, 117>> \o [k \in 1 .. 4 |-> HEX_DIGITS((u \div 16^(4 - k)) % 16)]

RECURSIVE JsUnicodeFrom(_, _)
JsUnicodeFrom(src, i) ==
    LET n == get_octet_count(src[i])
        wch == utf8_char_to_wchar(src, i, n).value
        coded == IF wch < 65536 THEN add_unicode_symbol(wch)
                 ELSE add_unicode_symbol(55232 + wch \div 1024)
                      \o add_unicode_symbol(56320 + (wch % 1024))
        rest(next) == JsUnicodeFrom(src, next)
        joined(part, next) == IF rest(next).ok THEN Text(part \o rest(next).value) ELSE Refused
    IN  IF At(src, i) = 0 THEN Text(<<>>)
        ELSE IF src[i] \in ALPHA_NUM THEN joined(<<src[i]>>, i + 1)
        ELSE IF n = 0 THEN Refused
        ELSE joined(coded, i + n)

js_unicode_encode(src) == JsUnicodeFrom(src, 1)

\* The code unit of the four characters that follow \u at position i, past being
\* what the buffer holds behind the text; negative when one of them is.
UnitAt(src, i, past) ==
    LET digits == [k \in 1 .. 4 |-> hex_to_int(Append(src, past)[i + 1 + k])]
    IN  IF \E k \in 1 .. 4 : digits[k] < 0 THEN -1
        ELSE FoldLeft(LAMBDA v, d : v * 16 + d, 0, digits)

\* JS::add_surrogate and JS::add_wchar, on the part decoded so far
add_surrogate(dest, surrogate, strict) ==
    IF surrogate = 0 THEN Text(dest)
    ELSE IF strict THEN Refused
    ELSE Text(dest \o wchar_to_utf8(surrogate))

MutPaired(last, ch) == (last - 55296) * 1024 + (ch - 56320)

\* ((last_surrogate - 0xD7C0) << 10) | (ch - 0xDC00)
Paired(last, ch) == (last - 55232) * 1024 + (ch - 56320)

add_wchar(dest, ch, strict) ==
    IF ch >= 0 THEN Text(dest \o wchar_to_utf8(ch))
    ELSE IF strict THEN Refused
    ELSE Text(dest)

\* \u and three characters are enough for it to read the fourth.
RECURSIVE JsUnicodeDecodeFrom(_, _, _, _, _, _)
JsUnicodeDecodeFrom(src, i, last, dest, strict, past) ==
    LET symbol == src[i] = 92 /\ Len(src) - i >= 4 /\ src[i + 1] = 117
        ch == UnitAt(src, i, past)
        low == ch \in 56320 .. 57343
        closed == add_surrogate(dest, last, strict)
        step(out, next, surrogate) ==
            IF out.ok THEN JsUnicodeDecodeFrom(src, next, surrogate, out.value, strict, past)
            ELSE Refused
    IN  IF i > Len(src) THEN closed
        ELSE IF ~symbol
        THEN IF (src[i] = 92 /\ strict) \/ ~closed.ok THEN Refused
             ELSE step(Text(Append(closed.value, src[i])), i + 1, 0)
        ELSE IF last # 0 /\ low THEN step(add_wchar(dest, Paired(last, ch), strict), i + 6, 0)
        ELSE IF last # 0
        THEN IF closed.ok THEN step(add_wchar(closed.value, ch, strict), i + 6, 0) ELSE Refused
        ELSE IF ch \in 55040 .. 56319 THEN step(Text(dest), i + 6, ch)
        ELSE IF low THEN step(add_surrogate(dest, ch, strict), i + 6, 0)
        ELSE step(add_wchar(dest, ch, strict), i + 6, 0)

js_unicode_decode(src, strict, past) == JsUnicodeDecodeFrom(src, 1, 0, <<>>, strict, past)

\* \b \t \n \f \r \" \\ and \u00XX
json_escape(src) ==
    EachOf(LAMBDA ch :
               IF ch \notin NON_JSON THEN <<ch>>
               ELSE CASE ch = 8 -> <<92, 98>>
                      [] ch = 9 -> <<92, 116>>
                      [] ch = 10 -> <<92, 110>>
                      [] ch = 12 -> <<92, 102>>
                      [] ch = 13 -> <<92, 114>>
                      [] ch \in {34, 92} -> <<92, ch>>
                      [] OTHER -> add_unicode_symbol(ch), src)

\* \xXX, and the escapes of the two line separators of JavaScript
RECURSIVE JsEncodeFrom(_, _)
JsEncodeFrom(src, i) ==
    IF At(src, i) = 0 THEN <<>>
    ELSE IF src[i] \notin NON_JS THEN <<src[i]>> \o JsEncodeFrom(src, i + 1)
    ELSE IF src[i] # 226 THEN <<92, 120>> \o HexByte(src[i]) \o JsEncodeFrom(src, i + 1)
    ELSE IF At(src, i + 1) = 128 /\ At(src, i + 2) \in {168, 169}
    THEN add_unicode_symbol(8232 + (src[i + 2] - 168)) \o JsEncodeFrom(src, i + 3)
    ELSE <<src[i]>> \o JsEncodeFrom(src, i + 1)

js_encode(src) == JsEncodeFrom(src, 1)

-----------------------------------------------------------------------------
(* Hexadecimal texts, integers, trimming and replacing *)

RECURSIVE SkipZeroes(_)
SkipZeroes(data) == IF data # <<>> /\ data[1] = 0 THEN SkipZeroes(Tail(data)) ELSE data

hex_encode(data, skip_leading_zeroes) ==
    LET kept == SkipZeroes(data)
    IN  IF data = <<>> THEN <<>>
        ELSE IF ~skip_leading_zeroes THEN EachOf(HexByte, data)
        ELSE IF kept = <<>> THEN <<48>>
        ELSE IF kept[1] < 16 THEN <<HEX_DIGITS(kept[1])>> \o EachOf(HexByte, Tail(kept))
        ELSE EachOf(HexByte, kept)

hex_to_buf(data) ==
    [i \in 1 .. Len(data) \div 2 |-> hex_to_char(data[2 * i - 1], data[2 * i])]

hex_decode(src, allow_odd_string) ==
    IF Len(src) % 2 = 0 THEN Text(hex_to_buf(src))
    ELSE IF allow_odd_string THEN Text(<<hex_to_int(src[1])>> \o hex_to_buf(Tail(src)))
    ELSE Refused

RECURSIVE DecimalDigits(_)
DecimalDigits(value) ==
    (IF value < 10 THEN <<>> ELSE DecimalDigits(value \div 10)) \o <<48 + (value % 10)>>

int_to_str(value, size) ==
    IF size < IntegerDigits10 + 3 \/ value < -IntegerMax THEN Refused
    ELSE IF value < 0 THEN Text(<<45>> \o DecimalDigits(-value))
    ELSE Text(DecimalDigits(value))

\* The limit of the last digit, below or above zero.
MutBeyond(value, digit, negative) ==
    LET limit == IntegerMax \div 10 IN IF negative THEN value < -limit ELSE value > limit

Beyond(value, digit, negative) ==
    LET limit == IntegerMax \div 10
    IN  IF negative
        THEN value < -limit \/ (value = -limit /\ digit > -(IntegerMin + limit * 10))
        ELSE value > limit \/ (value = limit /\ digit > IntegerMax - limit * 10)

RECURSIVE TakeDigits(_, _, _, _)
TakeDigits(str, i, value, negative) ==
    LET digit == str[i] - 48
    IN  IF i > Len(str) THEN Text(value)
        ELSE IF str[i] \notin Digits \/ Beyond(value, digit, negative) THEN Refused
        ELSE TakeDigits(str, i + 1, value * 10 + (IF negative THEN -digit ELSE digit), negative)

str_to_int(str) ==
    LET negative == str # <<>> /\ str[1] = 45
        start == IF At(str, 1) \in {43, 45} THEN 2 ELSE 1
    IN  IF start > Len(str) THEN Refused
        ELSE TakeDigits(str, start, 0, negative)

trim(str, trim_set) ==
    LET kept == {i \in DOMAIN str : str[i] \notin trim_set}
        begin == CHOOSE i \in kept : \A j \in kept : i <= j
        end == CHOOSE i \in kept : \A j \in kept : j <= i
    IN  IF kept = {} THEN <<>> ELSE SubSeq(str, begin, end)

RECURSIVE ReplaceFrom(_, _, _, _)
ReplaceFrom(str, last, to_find, to_replace) ==
    LET n == Len(to_find)
        places == {p \in last .. Len(str) - n + 1 : SubSeq(str, p, p + n - 1) = to_find}
        pos == CHOOSE p \in places : \A q \in places : p <= q
    IN  IF places = {} THEN SubSeq(str, last, Len(str))
        ELSE SubSeq(str, last, pos - 1) \o to_replace
             \o ReplaceFrom(str, pos + n, to_find, to_replace)

replace(str, to_find, to_replace) ==
    IF to_find = <<>> THEN str ELSE ReplaceFrom(str, 1, to_find, to_replace)

-----------------------------------------------------------------------------
(* The program: one text there and back at a time *)

ByteCodecs == {"base64", "base64mod", "mime", "hex"}
TextCodecs == {"utf8", "utf8_substr", "punycode", "csv", "xml", "xml_wide",
               "js_unicode", "js_cut", "json", "js"}
EscapeCodecs == {"csv", "xml", "xml_wide", "json", "js"}
Parsers == {"mime_parse", "str_to_int", "trim", "replace"}

\* Two elements next to one another show every case of these conversions: the
\* others form groups of three or keep a state over the elements.
PairCodecs == {"mime", "hex", "utf8_substr", "js_cut"} \union EscapeCodecs

Sources(codec) ==
    LET length == IF codec \in PairCodecs THEN MaxLength - 1 ELSE MaxLength
    IN  IF codec \in ByteCodecs THEN BoundedSeq(Bytes, length)
        ELSE IF codec \in EscapeCodecs THEN BoundedSeq(CodePoints \union Escaped, length)
        ELSE IF codec \in TextCodecs THEN BoundedSeq(CodePoints, length)
        ELSE IF codec = "mime_parse" THEN BoundedSeq(MimeCharacters, MaxLength + 2)
        ELSE IF codec \in Parsers THEN BoundedSeq(Characters, length)
        ELSE IntegerMin .. IntegerMax

\* The arguments beside the source.
Options(codec) ==
    CASE codec \in {"base64", "hex", "js_unicode"} -> BOOLEAN
      [] codec = "base64mod" -> BOOLEAN \X {0, 11}
      [] codec \in {"xml", "xml_wide"} ->
             {{}, {"XU_TEXT"}, {"XU_ATTRIBUTE", "XU_PRESERVE_UTF8"}}
      [] codec = "csv" -> {44, 59, 45}
      [] codec = "utf8_substr" -> 0 .. 5
      [] codec = "js_cut" -> BOOLEAN \X (0 .. 6) \X {0, 65}
      [] codec = "integer" -> {IntegerDigits10 + 2, IntegerDigits10 + 3}
      [] OTHER -> {0}

\* A text that has lost its last characters on the way.
CutShort(coded, lost) == Text(SubSeq(coded.value, 1, Len(coded.value) - lost))

Encoded(codec, option, source) ==
    CASE codec = "base64" -> Text(base64_encode(source, option))
      [] codec = "base64mod" -> Text(base64mod_encode(source, option[1], option[2]))
      [] codec = "mime" -> Text(mime_url_encode(source))
      [] codec = "hex" -> Text(hex_encode(source, option))
      [] codec = "utf8" -> Text(ToUtf8(source))
      [] codec = "utf8_substr" -> utf8_substr(ToUtf8(source), option)
      [] codec = "punycode" -> Text(punycode_encode(source))
      [] codec = "csv" -> Text(csv_encode(ToUtf8(source), option))
      [] codec = "xml" -> xml_encode(ToUtf8(source), option)
      [] codec = "xml_wide" -> Text(xml_encode_wide(source, option))
      [] codec = "js_unicode" -> js_unicode_encode(ToUtf8(source))
      [] codec = "js_cut" -> CutShort(js_unicode_encode(ToUtf8(source)), option[2])
      [] codec = "json" -> Text(json_escape(ToUtf8(source)))
      [] codec = "js" -> Text(js_encode(ToUtf8(source)))
      [] codec = "integer" -> int_to_str(source, option)
      [] codec = "trim" -> Text(trim(source, {32, 43}))
      [] codec = "replace" -> Text(replace(source, <<37, 37>>, <<64>>))
      [] codec \in {"mime_parse", "str_to_int"} -> Text(source)

Decoded(codec, option, coded) ==
    CASE codec = "base64" -> base64mod_decode(coded, option, FALSE)
      [] codec = "base64mod" -> base64mod_decode(coded, option[1], TRUE)
      [] codec = "mime" -> mime_url_decode(coded, TRUE)
      [] codec = "hex" -> hex_decode(coded, option)
      [] codec = "utf8" -> utf8_to_wchar(coded)
      [] codec = "punycode" -> punycode_decode(coded)
      [] codec \in {"xml", "xml_wide"} -> xml_decode(coded)
      [] codec = "js_unicode" -> js_unicode_decode(coded, option, 0)
      [] codec = "js_cut" -> js_unicode_decode(coded, option[1], option[3])
      [] codec \in {"integer", "str_to_int"} -> str_to_int(coded)
      [] codec = "mime_parse" -> mime_url_decode_in_place(coded)
      [] codec = "replace" -> Text(replace(coded, <<64>>, <<37, 37>>))
      [] OTHER -> Text(coded)

Nothing(codec, option) == [step |-> "nothing", codec |-> codec, option |-> option]

Encode(source) ==
    /\ text.step = "nothing"
    /\ text' = [step |-> "encoded", codec |-> text.codec, option |-> text.option,
                source |-> source, coded |-> Encoded(text.codec, text.option, source)]

Decode ==
    /\ text.step = "encoded"
    /\ text' = [step |-> "decoded", codec |-> text.codec, option |-> text.option,
                source |-> text.source, coded |-> text.coded,
                back |-> IF text.coded.ok
                         THEN Decoded(text.codec, text.option, text.coded.value)
                         ELSE Refused]

Discard ==
    /\ text.step = "decoded"
    /\ text' = Nothing(text.codec, text.option)

stringVars == <<text>>

StringInit ==
    \E codec \in ByteCodecs \union TextCodecs \union Parsers \union {"integer"} :
        \E option \in Options(codec) : text = Nothing(codec, option)

StringNext ==
    \/ \E source \in Sources(text.codec) : Encode(source)
    \/ Decode
    \/ Discard

StringSpec == StringInit /\ [][StringNext]_stringVars

-----------------------------------------------------------------------------
(* Readers of the formats the program only writes, from their standards *)

\* A field of a CSV record (RFC 4180) at position i: the field and its end.
RECURSIVE QuotedField(_, _, _)
QuotedField(s, i, field) ==
    IF i > Len(s) THEN <<"unclosed", i>>
    ELSE IF s[i] # 34 THEN QuotedField(s, i + 1, Append(field, s[i]))
    ELSE IF At(s, i + 1) = 34 THEN QuotedField(s, i + 2, Append(field, 34))
    ELSE <<field, i + 1>>

CsvField(s, i, separator) ==
    LET ends == {j \in i .. Len(s) : s[j] \in {separator, 10, 13}}
        end == IF ends = {} THEN Len(s) + 1 ELSE CHOOSE j \in ends : \A k \in ends : j <= k
    IN  IF At(s, i) = 34 THEN QuotedField(s, i + 1, <<>>) ELSE <<SubSeq(s, i, end - 1), end>>

\* The bytes of a string literal, with the escapes and the characters that
\* may not stand in it as they are.
RECURSIVE Unescape(_, _, _)
Unescape(s, i, forbidden) ==
    LET letter == At(s, i + 1)
        single == {<<98, 8>>, <<116, 9>>, <<110, 10>>, <<102, 12>>, <<114, 13>>,
                   <<34, 34>>, <<92, 92>>}
        part == IF s[i] # 92 THEN <<s[i]>>
                ELSE IF letter = 117 THEN wchar_to_utf8(UnitAt(s, i, 0))
                ELSE IF letter = 120 THEN <<hex_to_char(s[i + 2], s[i + 3])>>
                ELSE <<(CHOOSE e \in single : e[1] = letter)[2]>>
        width == IF s[i] # 92 THEN 1 ELSE IF letter = 117 THEN 6
                 ELSE IF letter = 120 THEN 4 ELSE 2
    IN  IF i > Len(s) THEN <<>>
        ELSE IF s[i] \in forbidden THEN <<"forbidden">>
        ELSE part \o Unescape(s, i + width, forbidden)

\* The value of a decimal text of whatever length.
DecimalValue(s) ==
    LET digits == IF At(s, 1) \in {43, 45} THEN Tail(s) ELSE s
        sum == FoldLeft(LAMBDA v, ch : v * 10 + (ch - 48), 0, digits)
    IN  IF digits = <<>> \/ ~(ToSet(digits) \subseteq Digits) THEN Refused
        ELSE Text(IF s[1] = 45 THEN -sum ELSE sum)

-----------------------------------------------------------------------------
(* Properties *)

Base64Exact(t) ==
    LET fill == IF t.codec = "base64" THEN 0 ELSE t.option[2]
        padding == IF t.codec = "base64" THEN t.option ELSE t.option[1]
        size == Len(t.source)
    IN  /\ t.back = Text(<<t.source, fill % 2^base64mod_fill_size(size)>>)
        /\ base64mod_decode(t.coded.value, FALSE, TRUE) = t.back
        /\ Len(t.coded.value) = base64mod_encoded_size(size, padding)
        /\ size <= base64mod_max_decoded_size(Len(t.coded.value))

\* Every octet of the text leads back to the first one of its character.
Utf8Exact(t) ==
    LET s == t.coded.value
        starts == {i \in DOMAIN s : ~Trailing(s[i])}
    IN  /\ t.back = Text(t.source)
        /\ \A i \in starts : is_correct_utf8_sequence(s, i) = get_octet_count(s[i])
        /\ \A i \in starts : \A k \in 0 .. get_octet_count(s[i]) - 1 :
               distance_to_sequence_beginning(s, i + k)
                   = Text(<<get_octet_count(s[i]), k>>)

\* The longest prefix of whole characters that fits.
Utf8SubstrExact(t) ==
    LET prefix(k) == ToUtf8(SubSeq(t.source, 1, k))
        fits == {k \in 0 .. Len(t.source) : Len(prefix(k)) <= t.option}
    IN  \E k \in fits : t.coded = Text(prefix(k)) /\ \A j \in fits : j <= k

CsvExact(t) ==
    LET record == t.coded.value \o <<t.option>> \o csv_encode(<<65>>, t.option)
        first == CsvField(record, 1, t.option)
    IN  /\ first[1] = ToUtf8(t.source)
        /\ CsvField(record, first[2] + 1, t.option)[1] = <<65>>

XmlExact(t) ==
    /\ t.back = Text(ToUtf8(t.source))
    /\ {60, 62} \intersect ToSet(t.coded.value) = {}
    /\ "XU_ATTRIBUTE" \in Units(t.option) => {34, 39} \intersect ToSet(t.coded.value) = {}
    /\ t.coded = xml_encode(ToUtf8(t.source), t.option)

\* Code points U+D700 .. U+D7FF are taken for high surrogates by the decoder.
TakenForSurrogate == 55040 .. 55295

\* Nothing that came whole is lost.
JsCutExact(t) ==
    LET coded(k) == js_unicode_encode(ToUtf8(SubSeq(t.source, 1, k))).value
        whole == {k \in 0 .. Len(t.source) : Len(coded(k)) <= Len(t.coded.value)}
    IN  t.back.ok => \A k \in whole : IsPrefix(ToUtf8(SubSeq(t.source, 1, k)), t.back.value)

HexExact(t) ==
    IF ~t.option THEN t.back = Text(t.source)
    ELSE IF SkipZeroes(t.source) = <<>> /\ t.source # <<>> THEN t.back = Text(<<0>>)
    ELSE t.back = Text(SkipZeroes(t.source))

TrimExact(t) ==
    LET s == t.source  kept == t.coded.value  blank == {32, 43}
    IN  /\ kept # <<>> => kept[1] \notin blank /\ kept[Len(kept)] \notin blank
        /\ \E a \in 0 .. Len(s) :
               /\ kept = SubSeq(s, a + 1, a + Len(kept))
               /\ \A i \in (1 .. a) \union ((a + Len(kept) + 1) .. Len(s)) : s[i] \in blank

IntegerExact(t) ==
    LET exact == IF t.codec = "integer" THEN Text(t.source) ELSE DecimalValue(t.source)
        held == exact.ok /\ exact.value \in IntegerMin .. IntegerMax
        room == t.codec = "integer" => t.option = IntegerDigits10 + 3
        refused == t.codec = "integer" /\ t.source = IntegerMin
    IN  /\ t.back.ok <=> held /\ ~refused /\ room
        /\ t.back.ok => t.back = exact
        /\ t.codec = "integer" => Len(t.coded.value) < t.option

(* A conversion there and back restores the source, whatever the padding,  *)
(* the fill, the units or the separator, and what a standard reader of the *)
(* format makes of the encoded text is the source: the codecs of           *)
(* StringManip.cpp, the octet counting of UTF8Handler.hpp and the integer  *)
(* limits of StringManip.tpp agree with one another.  Excepted are U+D700  *)
(* .. U+D7FF in js_unicode_decode(), which takes them for surrogates, and  *)
(* the least integer, which int_to_str() refuses.  The decoder in place    *)
(* never reads what it has overwritten, a cut never splits a character, a  *)
(* JS text that breaks off loses nothing before the break, and a number    *)
(* fits the least buffer that int_to_str() takes.                          *)
CodecsExact ==
    text.step = "decoded" =>
        CASE text.codec \in {"base64", "base64mod"} -> Base64Exact(text)
          [] text.codec = "mime" ->
                 /\ text.back = Text(text.source)
                 /\ ToSet(text.coded.value) \subseteq MIME \union {37, 43}
          [] text.codec = "mime_parse" ->
                 /\ text.back = mime_url_decode(text.source, TRUE)
                 /\ text.back.ok => text.back = mime_url_decode(text.source, FALSE)
          [] text.codec = "hex" -> HexExact(text)
          [] text.codec = "utf8" -> Utf8Exact(text)
          [] text.codec = "utf8_substr" -> Utf8SubstrExact(text)
          [] text.codec = "punycode" ->
                 /\ text.back = Text([i \in DOMAIN text.source |-> to_lower(text.source[i])])
                 /\ \A ch \in ToSet(text.coded.value) : ch < 128
          [] text.codec = "csv" -> CsvExact(text)
          [] text.codec \in {"xml", "xml_wide"} -> XmlExact(text)
          [] text.codec = "js_unicode" ->
                 TakenForSurrogate \intersect ToSet(text.source) = {} =>
                     text.back = Text(ToUtf8(text.source))
          [] text.codec = "js_cut" ->
                 TakenForSurrogate \intersect ToSet(text.source) = {} => JsCutExact(text)
          [] text.codec = "json" ->
                 Unescape(text.coded.value, 1, (0 .. 31) \union {34}) = ToUtf8(text.source)
          [] text.codec = "js" ->
                 Unescape(text.coded.value, 1, {10, 13, 34, 39, 47, 60, 62})
                     = ToUtf8(text.source)
          [] text.codec = "trim" -> TrimExact(text)
          [] text.codec = "replace" -> text.back = Text(text.source)
          [] text.codec \in {"integer", "str_to_int"} -> IntegerExact(text)
=============================================================================
