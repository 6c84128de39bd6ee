---------------------------- MODULE DhcpOptions ----------------------------
(***************************************************************************)
(* The options of a DHCP message as bytes: how src/dhcp.c writes them and  *)
(* how dhcp_read walks through them.  Dhcp takes the result for granted: a *)
(* message there is the set of its options.                                *)
(***************************************************************************)
EXTENDS Integers, SequencesExt

CONSTANT
  Behind   \* the byte behind the message: whatever the buffer held there before

ASSUME DhcpOptionsAssumption == Behind \in 0 .. 255

SubnetMask == 1         \* DHCP_OPTION_SUBNET_MASK, and so on
LeaseTime == 51
MessageType == 53
ServerIdentifier == 54
End == 255

\* The length dhcp_read demands of the options it knows.
Length == [type \in {SubnetMask, LeaseTime, MessageType, ServerIdentifier} |->
             IF type = MessageType THEN 1 ELSE 4]

\* add_message_type_option and its like, and finalize_options.
AddOption(type, value) == <<type, Len(value)>> \o value
FinalizeOptions == <<End>>

\* Where the padding that starts at `at` ends: at another byte or the end.
UnpaddedNot(bytes, at) == at   \* mutant: padding is not skipped

Unpadded(bytes, at) ==
  CHOOSE k \in at .. Len(bytes) + 1 : /\ \A j \in at .. k - 1 : bytes[j] = 0
                                      /\ k =< Len(bytes) => bytes[k] # 0

\* A turn of the loop of dhcp_read.  `length` in the code is what is left of the
\* message at `at`.  The loop looks for the end before it looks at the length: in
\* front of an empty field, at the byte behind the message.
ReadOption(bytes, turn) ==
  LET left == Len(bytes) - turn.at + 1
      type == IF left = 0 THEN Behind ELSE bytes[turn.at]
      size == bytes[turn.at + 1]
      next == Unpadded(bytes, turn.at + 2 + size)
  IN  IF turn.state # "READING" THEN turn
      ELSE IF type = End THEN [turn EXCEPT !.state = "ACCEPTED"]
      ELSE IF left < 2 \/ size > left - 2 \/ (type \in DOMAIN Length /\ size # Length[type])
      THEN [turn EXCEPT !.state = "REFUSED"]
      ELSE [state   |-> IF next = Len(bytes) + 1 THEN "REFUSED" ELSE "READING",
            at      |-> next,
            options |-> [t \in DOMAIN turn.options \cup ({type} \cap DOMAIN Length) |->
                           IF t = type THEN SubSeq(bytes, turn.at + 2, turn.at + 1 + size)
                           ELSE turn.options[t]]]

\* Whether the message is accepted, and the options that were recorded, the
\* last of each type.  There are no more turns than bytes, and one at the end.
DhcpRead(bytes) ==
  LET turns[k \in 0 .. Len(bytes) + 1] ==
        IF k = 0 THEN [state |-> "READING", at |-> 1, options |-> <<>>]
        ELSE ReadOption(bytes, turns[k - 1])
      last == turns[Len(bytes) + 1]
  IN  [ok |-> last.state = "ACCEPTED", options |-> last.options]
==============================================================================
