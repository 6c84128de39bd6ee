---------------------------- MODULE FormatString ----------------------------
(***************************************************************************)
(* format_string of src/utilities.c: a format with directives in braces,   *)
(*   { marks width conversion l }                                          *)
(* is written to a buffer of limited size.  Arguments are numbers and      *)
(* texts; a null text is Null, which is no text.  A directive that is      *)
(* opened has a conversion: the code does not stop at the end of a format  *)
(* that breaks off after `{`.                                              *)
(***************************************************************************)
EXTENDS Conversions

OPEN == 123        \* '{'
CLOSE == 125       \* '}'
UNDERSCORE == 95   \* '_'
LONG == 108        \* 'l'

Null == <<0>>
Nullptr == <<110, 117, 108, 108, 112, 116, 114>>

\* '0', '<', '+' and ' '.
FlagOf == [mark \in {48, 60, 43, 32} |->
             CASE mark = 48 -> "ZERO_PAD" [] mark = 60 -> "LEFT_JUSTIFY"
               [] mark = 43 -> "ALWAYS_SIGN" [] mark = 32 -> "NO_SIGN"]

\* 's', 'h', 'H', 'b' and 'u'.
NumberFlags == [conversion \in {115, 104, 72, 98, 117} |->
                  CASE conversion = 115 -> {"SIGNED"} [] conversion = 104 -> {"HEX"}
                    [] conversion = 72 -> {"HEX", "UPPERCASE"} [] conversion = 98 -> {"BINARY"}
                    [] conversion = 117 -> {}]

\* The first position from `at` on that is not a mark.
AfterMarks(string, at) ==
  CHOOSE k \in at .. Len(string) + 1 :
    /\ \A j \in at .. k - 1 : string[j] \in DOMAIN FlagOf \cup {UNDERSCORE}
    /\ k =< Len(string) => string[k] \notin DOMAIN FlagOf \cup {UNDERSCORE}

\* The width that the digits up to `end` make of the one given before.
WidthBetween(string, at, end, given) ==
  LET width[k \in at .. end] ==
        IF k = at THEN given ELSE 10 * width[k - 1] + string[k - 1] - ZERO
  IN  width[end]

\* What follows a `{`.  Each underscore takes a width from the arguments, and
\* digits go on from there; a negative width is one that aligns to the left.
\* `used` arguments were taken before.
Directive(string, at, arguments, used) ==
  LET end    == AfterMarks(string, at)
      marks  == {string[k] : k \in at .. end - 1} \ {UNDERSCORE}
      taken  == used + Cardinality({k \in at .. end - 1 : string[k] = UNDERSCORE})
      last   == arguments[taken]
      given  == IF taken = used THEN 0 ELSE IF last < 0 THEN -last ELSE last
      digits == AfterDigits(string, end)
      big    == digits < Len(string) /\ string[digits + 1] = LONG
      close  == IF big THEN digits + 2 ELSE digits + 1
  IN  [conversion |-> string[digits],
       used       |-> taken,
       width      |-> WidthBetween(string, end, digits, given),
       flags      |-> {FlagOf[m] : m \in marks}
                        \cup (IF \E i \in used + 1 .. taken : arguments[i] < 0
                              THEN {"SIZE_GIVEN", "LEFT_JUSTIFY"} ELSE {})
                        \cup (IF digits > end THEN {"SIZE_GIVEN"} ELSE {})
                        \cup (IF big THEN {"BIG_NUMBER"} ELSE {}),
       next       |-> IF close =< Len(string) /\ string[close] = CLOSE THEN close + 1 ELSE close]

\* '{t}': a given width pads a short text and cuts a long one.
TextOf(argument, width, flags) ==
  LET text    == IF argument = Null THEN Nullptr ELSE argument
      sized   == "SIZE_GIVEN" \in flags
      length  == IF sized /\ width < Len(text) THEN width ELSE Len(text)
      padding == [i \in 1 .. IF sized THEN width - length ELSE 0 |->
                    IF "ZERO_PAD" \in flags THEN ZERO ELSE 32]
  IN  IF "LEFT_JUSTIFY" \in flags THEN SubSeq(text, 1, length) \o padding
                                  ELSE padding \o SubSeq(text, 1, length)

\* A directive converts the next argument, or none.
Takes(d) == d.conversion \in DOMAIN NumberFlags \cup {116, 99}

Convert(d, argument, buffer, size) ==
  LET unsigned == d.conversion = 117 /\ "BIG_NUMBER" \notin d.flags
  IN  CASE d.conversion = 116 -> WriteText(buffer, TextOf(argument, d.width, d.flags), size)
        [] d.conversion = 99  -> WriteText(buffer, <<argument>>, size)
        [] d.conversion \in DOMAIN NumberFlags ->
             WriteNumber(IF unsigned THEN argument % WordModulus ELSE argument, d.width,
                         d.flags \cup NumberFlags[d.conversion], buffer, size)
        [] d.conversion = OPEN -> WriteText(buffer, <<OPEN>>, size)
        [] OTHER -> buffer

AfterDirective(d, arguments, buffer, size) ==
  [at     |-> d.next,
   used   |-> IF Takes(d) THEN d.used + 1 ELSE d.used,
   buffer |-> Convert(d, arguments[d.used + 1], buffer, size)]

\* A turn of the loop takes one character of the format, or one directive.
Turn(string, arguments, turn, size) ==
  IF turn.at > Len(string) THEN turn
  ELSE IF string[turn.at] # OPEN
  THEN [turn EXCEPT !.at = @ + 1, !.buffer = WriteText(@, <<string[turn.at]>>, size)]
  ELSE AfterDirective(Directive(string, turn.at + 1, arguments, turn.used), arguments,
                      turn.buffer, size)

\* There are no more turns than characters.
FormatString(string, arguments, size) ==
  LET turns[k \in 0 .. Len(string)] ==
        IF k = 0 THEN [at |-> 1, used |-> 0, buffer |-> <<>>]
        ELSE Turn(string, arguments, turns[k - 1], size)
  IN  turns[Len(string)].buffer
==============================================================================
