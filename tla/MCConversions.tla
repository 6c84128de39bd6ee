--------------------------- MODULE MCConversions ---------------------------
(***************************************************************************)
(* Inputs for Conversions, FormatString and DhcpOptions, built one element *)
(* at a time, and what each function must make of them.                    *)
(***************************************************************************)
EXTENDS FormatString, DhcpOptions

CONSTANTS
  Bytes,       \* the bytes addresses and messages are made of; widths of numbers
  Numbers,     \* the numbers given to format_string
  MaxBytes,    \* bound: their length
  MaxOptions   \* bound: options, and padding between them, in one message

ASSUME MCConversionsAssumption ==
  Bytes \subseteq 0 .. 255 /\ Numbers \subseteq Int /\ MaxBytes \in Nat /\ MaxOptions \in Nat

\* Zero, the ends of one and of two words, and some between.
SomeNumbers ==
  {-65535, -40000, -255, -16, -1, 0, 1, 9, 10, 127, 128, 255, 256, 65535}

VARIABLES
  bytes,   \* an address, a message, the width of a number
  items    \* what a server puts into the options field of a message

vars == <<bytes, items>>

Pad0 == <<0>>
Items == {Pad0, AddOption(SubnetMask, <<255, 255, 255, 0>>), AddOption(SubnetMask, <<255, 0, 0, 0>>),
          AddOption(LeaseTime, <<0, 0, 14, 16>>), AddOption(MessageType, <<5>>),
          AddOption(ServerIdentifier, <<10, 0, 53, 255>>), AddOption(12, <<>>), AddOption(15, <<1, 4>>)}

Init == bytes = <<>> /\ items = <<>>

AddByte ==
  /\ items = <<>> /\ Len(bytes) < MaxBytes
  /\ \E b \in Bytes : bytes' = Append(bytes, b)
  /\ UNCHANGED items

\* The first item is an option: see PaddingFirst.
AddItem ==
  /\ bytes = <<>> /\ Len(items) < MaxOptions
  /\ \E item \in IF items = <<>> THEN Items \ {Pad0} ELSE Items : items' = Append(items, item)
  /\ UNCHANGED bytes

Next == AddByte \/ AddItem

Spec == Init /\ [][Next]_vars

\* What there is to convert; padding never comes first.
TypeOK ==
  /\ bytes \in Seq(Bytes) /\ Len(bytes) =< MaxBytes
  /\ items \in Seq(Items) /\ Len(items) =< MaxOptions
  /\ items # <<>> => items[1] # Pad0

-----------------------------------------------------------------------------

\* An address survives the way through text: string_to_ip reads what
\* ip_to_string writes, string_to_mac what mac_to_string does in either case.
AddressesReadBack ==
  /\ Len(bytes) = 4 => StringToIp(IpToString(bytes)) = bytes
  /\ Len(bytes) = 6 => \A lowercase \in BOOLEAN :
                         StringToMac(MacToString(bytes, lowercase)) = bytes

\* A receiver that follows RFC 1071 accepts every checksum the stack sends: the
\* words of what is covered add up to a multiple of 2^16 - 1, however many
\* carries there were and whether or not the length is odd.
TotalOf(message) ==
  LET total[n \in 0 .. Len(message)] ==
        IF n = 0 THEN 0
        ELSE total[n - 1] + message[n] * IF n % 2 = 1 THEN 256 ELSE 1
  IN  total[Len(message)]

Verifies(message) == TotalOf(message) % (65535) = 0

Us == <<192, 168, 255, 7>>

ChecksumsVerify ==
  /\ Len(bytes) = 4 => Verifies(IpHeaderFor(1024, 17, Us, bytes))
  /\ Verifies(PseudoHeader(Us, <<255, 255, 255, 255>>, Len(bytes) + 8)
                \o UdpDatagram(65535, 67, bytes, Us, <<255, 255, 255, 255>>))
  /\ Verifies(PingReply(<<8, 0, 1, 2, 255, 254>> \o bytes))

\* A number is as wide as its directive asks, or as wide as it needs to be, cut
\* off at the end of the buffer; without the padding it reads back as the
\* number, or as the word it is in if it is written without a sign; a width from
\* the arguments is as good as one in the format; and what stands before and
\* after it, with the arguments it takes, is not disturbed.
Conversion(letter, base, signed) == [letter |-> letter, base |-> base, signed |-> signed]

\* 's', 'h', 'H', 'b' and 'u', each alone or with 'l', and with none of the
\* marks or with '<', '0' or '+'.
NumberConversions ==
  {Conversion(115, 10, TRUE), Conversion(104, 16, FALSE), Conversion(72, 16, FALSE),
   Conversion(98, 2, FALSE), Conversion(117, 10, FALSE)}

Directives ==
  {[marks |-> marks, conversion |-> IF big THEN <<c.letter, LONG>> ELSE <<c.letter>>,
    base |-> c.base, signed |-> c.signed, modulus |-> IF big THEN WordModulus * WordModulus ELSE WordModulus] :
     marks \in {<<>>, <<60>>, <<48>>, <<43>>}, c \in NumberConversions, big \in BOOLEAN}

InBraces(marks, width, conversion) == <<OPEN>> \o marks \o width \o conversion \o <<CLOSE>>

\* Blanks, signs and zeros in front are skipped, blanks behind too.
ReadNumber(text, base) ==
  LET first == CHOOSE k \in 1 .. Len(text) + 1 :
                 /\ \A j \in 1 .. k - 1 : text[j] \in {32, 43, 45, ZERO}
                 /\ k =< Len(text) => text[k] \notin {32, 43, 45, ZERO}
      behind == CHOOSE k \in first .. Len(text) + 1 :
                 /\ \A j \in k .. Len(text) : text[j] = 32
                 /\ k > first => text[k - 1] # 32
      number[n \in 0 .. behind - first] ==
        IF n = 0 THEN 0 ELSE number[n - 1] * base + CharToHex(text[first + n - 1])
      magnitude == number[behind - first]
  IN  IF \E k \in 1 .. Len(text) : text[k] = 45 THEN -magnitude ELSE magnitude

\* A buffer with room for any of the texts below.
Room == WordModulus * WordModulus + 300

Fits(number, d) == -d.modulus < number /\ number < d.modulus

NumbersReadBack ==
  Len(bytes) = 1 =>
    \A d \in Directives : \A number \in {n \in Numbers : Fits(n, d)} :
      LET width     == bytes[1]
          directive == InBraces(d.marks, Reverse(FragmentDigits(width)), d.conversion)
          text      == FormatString(directive, <<number>>, Room)
          short     == FormatString(directive, <<number>>, 4)
          natural   == FormatString(InBraces(d.marks, <<>>, d.conversion), <<number>>, Room)
      IN  /\ ReadNumber(text, d.base) = IF d.signed THEN number ELSE number % d.modulus
          /\ Len(text) = IF width > Len(natural) THEN width ELSE Len(natural)
          /\ short = SubSeq(text, 1, IF Len(text) < 4 THEN Len(text) ELSE 4)
          /\ FormatString(InBraces(<<UNDERSCORE>> \o d.marks, <<>>, d.conversion),
                          <<width, number>>, Room) = text
          /\ FormatString(InBraces(<<>>, <<>>, <<116>>) \o directive \o <<DOT>> \o InBraces(<<>>, <<>>, <<99>>),
                          <<Null, number, COLON>>, Room) = Nullptr \o text \o <<DOT, COLON>>

\* What a server put into a message is what dhcp_read finds: the last option of
\* each type it knows, whatever stands between them; and a message that was
\* cut off anywhere is refused.
LastOf(type) ==
  LET k == SelectLastInSeq(items, LAMBDA item : item[1] = type)
  IN  SubSeq(items[k], 3, Len(items[k]))

Field == FlattenSeq(items) \o FinalizeOptions

OptionsRead ==
  items # <<>> =>
    /\ DhcpRead(Field) =
         [ok |-> TRUE,
          options |-> [type \in {item[1] : item \in Range(items)} \cap DOMAIN Length |-> LastOf(type)]]
    /\ \A k \in 1 .. Len(Field) - 1 : ~DhcpRead(SubSeq(Field, 1, k)).ok

-----------------------------------------------------------------------------
(* Expectations the code does not meet. *)

\* Options may be preceded by padding too.  dhcp_read takes it for an option.
PaddingFirst == DhcpRead(Pad0 \o Field).ok

\* A message without any option is refused, whatever lies behind it.
EmptyRefused == ~DhcpRead(<<>>).ok

\* A UDP checksum that comes out as zero is sent as ones; zero means there is
\* none (RFC 768).
ChecksumIsSent ==
  SubSeq(UdpDatagram(69, 68, bytes, Us, <<10, 0, 0, 1>>), 7, 8) # <<0, 0>>

\* A negative number padded with zeros starts with its sign.
SignFirst == WriteNumber(-5, 4, {"SIGNED", "ZERO_PAD"}, <<>>, 4)[1] = 45

\* A text is as wide as it was asked to be: {_t} takes a positive width from the
\* arguments and does not use it.
TextsPadded == Len(FormatString(InBraces(<<UNDERSCORE>>, <<>>, <<116>>), <<9, <<DOT>>>>, 300)) = 9

\* memory_move writes the destination, and nothing else.
MovesExactly ==
  \A source, dest, size \in 1 .. Len(bytes) :
    source + size =< Len(bytes) /\ dest + size =< Len(bytes) =>
      MemoryMove(bytes, source, dest, size) =
        [i \in DOMAIN bytes |-> IF i \in dest .. dest + size - 1
                                THEN bytes[source + i - dest] ELSE bytes[i]]

\* A fragment is refused: bit 13 says that more of them follow (RFC 791).
FragmentsRefused == ~VerifyIpHeader(4, {13}, 5, 100)
==============================================================================
