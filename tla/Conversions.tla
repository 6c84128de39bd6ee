---------------------------- MODULE Conversions ----------------------------
(***************************************************************************)
(* The pure functions of the stack: addresses as text (ip.c, mac.c), the   *)
(* checksums and the headers they protect (ip.c, udp.c, icmp.c), numbers   *)
(* as text (utilities.c), copying (utilities.h).                           *)
(*                                                                         *)
(* A text is a sequence of character codes without the final zero, an IP   *)
(* or MAC address the sequence of its bytes.  Loops are recursive          *)
(* functions or folds.                                                     *)
(***************************************************************************)
EXTENDS Integers, SequencesExt

CONSTANT WordModulus   \* 2^32: a number that is not big is cut to a u32

ASSUME ConversionsAssumption == WordModulus \in Nat \ {0}

ZERO == 48   \* '0'
DOT == 46    \* '.'
COLON == 58  \* ':'

IsDigit(c) == c \in ZERO .. ZERO + 9

-----------------------------------------------------------------------------
(* ip.c: addresses as text. *)

\* A turn of the loop that takes the digits of a byte, the last first.
TakeDigit(turn) ==
  IF turn.left = 0 THEN turn
  ELSE [left |-> turn.left \div 10, digits |-> Append(turn.digits, (turn.left % 10) + ZERO)]

\* The buffer has room for three.
TwoDigits(fragment) ==   \* mutant: the buffer is taken to be full too early
  IF fragment = 0 THEN <<ZERO>>
  ELSE TakeDigit(TakeDigit([left |-> fragment, digits |-> <<>>])).digits

FragmentDigits(fragment) ==
  IF fragment = 0 THEN <<ZERO>>
  ELSE TakeDigit(TakeDigit(TakeDigit([left |-> fragment, digits |-> <<>>]))).digits

IpToString(ip) ==
  FlattenSeq([i \in 1 .. 4 |-> Reverse(FragmentDigits(ip[i])) \o IF i # 4 THEN <<DOT>> ELSE <<>>])

\* The first position from `at` on that has no digit.
AfterDigits(text, at) ==
  CHOOSE k \in at .. Len(text) + 1 :
    /\ \A j \in at .. k - 1 : IsDigit(text[j])
    /\ k =< Len(text) => ~IsDigit(text[k])

\* The digits before `end` as a number; it is a u8.
NumberBetween(text, at, end) ==
  LET number[k \in at .. end] ==
        IF k = at THEN 0 ELSE (number[k - 1] * 10 + text[k - 1] - ZERO) % 256
  IN  number[end]

StringToIp(text) ==
  LET start[i \in 1 .. 4] ==
        IF i = 1 THEN 1
        ELSE LET k == AfterDigits(text, start[i - 1])
             IN  IF k =< Len(text) /\ text[k] = DOT THEN k + 1 ELSE k
  IN  [i \in 1 .. 4 |-> NumberBetween(text, start[i], AfterDigits(text, start[i]))]

-----------------------------------------------------------------------------
(* mac.c: addresses as text. *)

\* c | 1 << 5
Lowercase(c) == IF (c \div 32) % 2 = 1 THEN c ELSE c + 32

CharToHex(c) ==
  IF IsDigit(c) THEN c - ZERO
  ELSE IF Lowercase(c) \in 97 .. 102 THEN Lowercase(c) - 97 + 10 ELSE 0

\* The bytes that get a value; the rest of the address stays as it is.
StringToMac(text) ==
  LET start[i \in 1 .. 7] ==
        IF i = 1 THEN 1
        ELSE LET k == start[i - 1] + 2
             IN  IF k =< Len(text) /\ text[k] = COLON THEN k + 1 ELSE k
      count == CHOOSE n \in 0 .. 6 : /\ n < 6 => start[n + 1] + 1 > Len(text)
                                     /\ \A i \in 1 .. n : start[i] + 1 =< Len(text)
  IN  [i \in 1 .. count |-> CharToHex(text[start[i] + 1]) + 16 * CharToHex(text[start[i]])]

\* The hex_table of mac_to_string and of write_number, in either case.
HexDigit(n, lowercase) ==
  IF n < 10 THEN ZERO + n ELSE (IF lowercase THEN 97 ELSE 65) + n - 10

MacToString(mac, lowercase) ==
  FlattenSeq([i \in 1 .. 6 |->
    <<HexDigit(mac[i] \div 16, lowercase), HexDigit(mac[i] % 16, lowercase)>>
      \o IF i # 6 THEN <<COLON>> ELSE <<>>])

-----------------------------------------------------------------------------
(* Checksums: the loops of compute_ip_checksum, compute_udp_checksum and    *)
(* compute_icmp_checksum are the same.                                      *)


WriteBe16(value) == <<value \div 256, value % 256>>

\* The sum of the 16-bit words; an odd byte is the high byte of a word.
SumLowByte(bytes) ==   \* mutant: the odd byte is added as the low one
  LET sum[i \in 1 .. Len(bytes) + 1] ==
        IF i > Len(bytes) THEN 0
        ELSE IF i = Len(bytes) THEN bytes[i]
        ELSE bytes[i] * 256 + bytes[i + 1] + sum[i + 2]
  IN  sum[1]

SumOfWords(bytes) ==
  LET sum[i \in 1 .. Len(bytes) + 1] ==
        IF i > Len(bytes) THEN 0
        ELSE IF i = Len(bytes) THEN bytes[i] * 256
        ELSE bytes[i] * 256 + bytes[i + 1] + sum[i + 2]
  IN  sum[1]

\* The carries are added until none is left; the result is complemented.
Carry(sum) == sum \div 65536
Carried(sum) == (sum % 65536) + Carry(sum)

Checksum(sum) ==
  LET folded[s \in Nat] == IF Carry(s) = 0 THEN s ELSE folded[Carried(s)]
  IN  65535 - folded[sum]

\* A message whose checksum field, at `at`, was written as zero.
Sealed(message, at, checksum) ==
  SubSeq(message, 1, at - 1) \o WriteBe16(checksum) \o SubSeq(message, at + 2, Len(message))

\* ip_send: the header for a packet of `length` bytes, its header included.
IpHeaderFor(length, protocol, our_ip, ip) ==
  LET header == <<69, 0>> \o WriteBe16(length) \o WriteBe16(0) \o WriteBe16(2 ^ 14)
                  \o <<255, protocol>> \o WriteBe16(0) \o our_ip \o ip
  IN  Sealed(header, 11, Checksum(SumOfWords(header)))

\* udp_send_zero_copy: header and payload.  The pseudo header is not sent.
PseudoHeader(our_ip, ip, length) == our_ip \o ip \o <<0, 17>> \o WriteBe16(length)

UdpDatagram(source_port, dest_port, payload, our_ip, ip) ==
  LET length   == Len(payload) + 8
      datagram == WriteBe16(source_port) \o WriteBe16(dest_port) \o WriteBe16(length)
                    \o WriteBe16(0) \o payload
  IN  Sealed(datagram, 7, Checksum(SumOfWords(our_ip) + SumOfWords(ip) + 17 + length
                                     + SumOfWords(datagram)))

\* handle_icmp: the reply to a ping, in the buffer of the request.
PingReply(request) ==
  LET reply == <<0, 0, 0, 0>> \o SubSeq(request, 5, Len(request))
  IN  Sealed(reply, 3, Checksum(SumOfWords(reply)))

\* verify_ip_header: `flags` is the set of bits of fragment_offset.
MoreFragments == 15   \* IP_FLAG_MORE_FRAGMENTS

VerifyIpHeader(version, flags, header_length, packet_size) ==
  version = 4 /\ MoreFragments \notin flags /\ 4 * header_length < packet_size

-----------------------------------------------------------------------------
(* utilities.c: numbers as text.  The flags are the set of those given.     *)

Base(flags) == IF "HEX" \in flags THEN 16 ELSE IF "BINARY" \in flags THEN 2 ELSE 10

\* number_buffer, the last digit first.  The loop stops when nothing is left.
DigitsOf(number, base, lowercase) ==
  LET left[k \in 0 .. number + 1] == IF k = 0 THEN number ELSE left[k - 1] \div base
      length == CHOOSE k \in 1 .. number + 1 : left[k] = 0 /\ \A j \in 1 .. k - 1 : left[j] # 0
  IN  [k \in 1 .. length |-> HexDigit(left[k - 1] % base, lowercase)]

\* The sign character as a text, empty if there is none.
Minus(value, flags) == "SIGNED" \in flags /\ "NO_SIGN" \notin flags /\ value < 0

SignOf(value, flags) ==
  IF "SIGNED" \notin flags /\ "ALWAYS_SIGN" \in flags THEN <<43>>
  ELSE IF Minus(value, flags) THEN <<45>> ELSE <<>>

PadUnsigned(width, sign, digits) ==   \* mutant: the sign is not counted
  IF width > Len(digits) THEN width - Len(digits) ELSE 0

Pad(width, sign, digits) ==
  LET length == Len(sign) + Len(digits) IN IF width > length THEN width - length ELSE 0

\* write_char, for each character of a text: none is written once the buffer is
\* full.
WriteText(buffer, text, size) ==
  LET all == buffer \o text IN IF Len(all) > size THEN SubSeq(all, 1, size) ELSE all

NumberText(value, width, flags) ==
  LET modulus == IF "BIG_NUMBER" \in flags THEN WordModulus * WordModulus ELSE WordModulus
      digits  == DigitsOf((IF Minus(value, flags) THEN -value ELSE value) % modulus,
                          Base(flags), "UPPERCASE" \notin flags)
      sign    == SignOf(value, flags)
      padding == [i \in 1 .. Pad(width, sign, digits) |->
                    IF "ZERO_PAD" \in flags THEN ZERO ELSE 32]
  IN  IF "LEFT_JUSTIFY" \in flags THEN sign \o Reverse(digits) \o padding
                                  ELSE padding \o sign \o Reverse(digits)

WriteNumber(value, width, flags, buffer, size) ==
  WriteText(buffer, NumberText(value, width, flags), size)

-----------------------------------------------------------------------------
(* utilities.h: memory_move within `memory`, positions counted from 1.      *)

\* Towards higher addresses the loop runs down from `size`, not size - 1.
MemoryMove(memory, source, dest, size) ==
  LET copy(m, i) == [m EXCEPT ![dest + i] = m[source + i]]
      order == IF dest = source THEN <<>>
               ELSE IF dest > source THEN [k \in 1 .. size + 1 |-> size + 1 - k]
               ELSE [k \in 1 .. size |-> k - 1]
  IN  FoldLeft(copy, memory, order)
==============================================================================
