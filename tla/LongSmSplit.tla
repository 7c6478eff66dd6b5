---------------------------- MODULE LongSmSplit ----------------------------
(***************************************************************************)
(* How a text becomes short messages: smpp_datacoding_split_long_sm of     *)
(* smpp_datacoding_toolkit.cpp, and the two ways data_encoding_tools.cpp   *)
(* makes the text of every destination a different one.                    *)
(*                                                                         *)
(* A text is a sequence of characters, and a character is known by what    *)
(* the byte loops of the code do with it: Ascii has one byte, Wide has two *)
(* or three and one UCS2 unit, Lost has a unit that is not converted back, *)
(* and Stuck is what the conversion to UCS2 never gets past, a four byte   *)
(* character or bytes that are not UTF-8.  The limits are constants, for   *)
(* the checks need small ones.                                             *)
(***************************************************************************)
EXTENDS Naturals, Sequences, SequencesExt, FiniteSetsExt

CONSTANTS
  Ascii, Wide, Lost, Stuck,   \* the kinds of characters
  MaxSingle7bit,              \* MAX_SINGLE_MSG_SEGMENT_SIZE_7BIT, 160
  MaxMultipart7bit,           \* MAX_MULTIPART_MSG_SEGMENT_SIZE_7BIT, 153
  MaxSingleUcs2,              \* MAX_SINGLE_MSG_SEGMENT_SIZE_UCS2, 70
  MaxMultipartUcs2,           \* MAX_MULTIPART_MSG_SEGMENT_SIZE_UCS2, 67
  MaxSegments,                \* 255: one byte of the header counts them
  InsertedChars,              \* the 80 characters of insert_char_to_string
  Header                      \* what append_header_to_string puts in front

ASSUME LimitsAssumption ==
  /\ {MaxMultipart7bit, MaxMultipartUcs2, MaxSegments} \subseteq Nat \ {0}
  /\ {MaxSingle7bit, MaxSingleUcs2} \subseteq Nat
  /\ MaxMultipart7bit <= MaxSingle7bit
  /\ MaxMultipartUcs2 <= MaxSingleUcs2

Char == Ascii \union Wide \union Lost \union Stuck

\* The table of insert_char_to_string names each of its characters once, and
\* all of them are ASCII.
ASSUME CharsAssumption ==
  /\ InsertedChars \in Seq(Ascii) /\ InsertedChars # << >>
  /\ IsInjective(InsertedChars)
  /\ Header \in Seq(Char)

Holds(text, kind) == \E i \in DOMAIN text : text[i] \in kind

\* smpp_datacoding_is_pure_ascii, for a text that is UTF-8.
IsPureAscii(text) == \A i \in DOMAIN text : text[i] \in Ascii

\* convert_utf8_bytes_to_ucs2 ends: no character holds its pointer.
Converts_Strict(text) == ~Holds(text, Stuck \union Lost)
Converts(text) == ~Holds(text, Stuck)

\* The elements of seq that are in S, in their order.  It is SelectSeq with a
\* set for a test, and a definition that proofs can unfold.
Only(seq, S) ==
  FlattenSeq([i \in DOMAIN seq |-> IF seq[i] \in S THEN <<seq[i]>> ELSE << >>])

\* smpp_datacoding_convert_ucs2_to_utf8.
Ucs2ToUtf8(units) == Only(units, Char \ Lost)

MaxSingle(text) == IF IsPureAscii(text) THEN MaxSingle7bit ELSE MaxSingleUcs2

MaxMultipart(text) ==
  IF IsPureAscii(text) THEN MaxMultipart7bit ELSE MaxMultipartUcs2

\* message_length, cut at the capacity of the header.
Capacity(text) == MaxSegments * MaxMultipart(text)

MessageLength(text) ==
  IF Len(text) \div MaxMultipart(text) > MaxSegments
  THEN Capacity(text) ELSE Len(text)

\* number_of_segments; between one and two segments beyond the capacity it
\* is one too many for its byte.
NumberOfSegments_Whole(text) == MessageLength(text) \div MaxMultipart(text) + 1
NumberOfSegments(text) ==
  LET n == MessageLength(text) IN
  n \div MaxMultipart(text) + (IF n % MaxMultipart(text) > 0 THEN 1 ELSE 0)

Byte(n) == n % (MaxSegments + 1)

(***************************************************************************)
(* The content of segment i.  The last segment of an ASCII text takes all  *)
(* that is left, also what the cut took off; every UCS2 segment but the    *)
(* last is read from the first character of the text.                      *)
(***************************************************************************)
SegmentContent_Longer(text, i) ==
  LET begin == (i - 1) * MaxMultipart(text)
  IN  IF IsPureAscii(text)
      THEN SubSeq(text, begin + 1, Len(text))
      ELSE Ucs2ToUtf8(SubSeq(text, 1, MaxMultipart(text)))
SegmentContent(text, i) ==
  LET begin == (i - 1) * MaxMultipart(text)
      last  == i = NumberOfSegments(text)
  IN  IF IsPureAscii(text)
      THEN SubSeq(text, begin + 1,
                  IF last THEN Len(text) ELSE begin + MaxMultipart(text))
      ELSE Ucs2ToUtf8(IF last
                      THEN SubSeq(text, begin + 1, MessageLength(text))
                      ELSE SubSeq(text, 1, MaxMultipart(text)))

\* smpp_datacoding_split_long_sm, for a text that Converts.
SplitLongSm(text) ==
  IF MessageLength(text) > MaxSingle(text)
  THEN [i \in 1 .. NumberOfSegments(text) |->
          [content |-> SegmentContent(text, i),
           total   |-> Byte(NumberOfSegments(text)),
           index   |-> Byte(i)]]
  ELSE << [content |-> text, total |-> 1, index |-> 1] >>

(***************************************************************************)
(* insert_char_to_string: destination number index (from 0) gets one more  *)
(* character behind the first multi-byte character whose position in the   *)
(* whole text is at least index % len.  It divides by len, the number of   *)
(* multi-byte characters.                                                  *)
(***************************************************************************)
MultiByte(text) == {i \in DOMAIN text : text[i] \notin Ascii}

CanInsert(text) == MultiByte(text) # {}

InsertPlace(text, index) ==
  LET pos == index % Cardinality(MultiByte(text))
  IN  Min({i \in MultiByte(text) : i - 1 >= pos})

InsertedChar_FirstRound(text, index) == InsertedChars[1]
InsertedChar(text, index) ==
  LET round == index \div Cardinality(MultiByte(text))
  IN  InsertedChars[(round % Len(InsertedChars)) + 1]

InsertCharToString(text, index) ==
  InsertAt(text, InsertPlace(text, index) + 1, InsertedChar(text, index))

\* append_header_to_string; the digits of the number are left out.
AppendHeaderToString(text) == Header \o text

=============================================================================
