-------------------------------- MODULE Telnet --------------------------------
(***************************************************************************)
(* The Telnet layer of main/tcp_bridge.c: how the protocol of a client is   *)
(* recognised, the parser that takes commands out of the bytes it sends, one *)
(* byte at a time, and the escaping of the bytes it is sent.                 *)
(***************************************************************************)
EXTENDS Integers, Sequences

CONSTANT SubnegMax  \* RFC2217_SUBNEG_MAX

ASSUME TelnetAssumption == SubnegMax \in Nat

SE == 240
SB == 250
WILL == 251
WONT == 252
DO == 253
DONT == 254
IAC == 255

SGA == 3
COM_PORT_OPTION == 44

Negotiations == {WILL, WONT, DO, DONT}

\* rfc2217_parser_t; subneg_len is the length of subneg.
NewParser == [state |-> "data", negotiate_cmd |-> 0, subneg |-> <<>>]

\* A subnegotiation keeps its first SubnegMax bytes.
Collected(subneg, byte) == IF Len(subneg) < SubnegMax THEN Append(subneg, byte) ELSE subneg

\* The parser after one more byte ...
Step(parser, byte) ==
    CASE parser.state = "data" ->
            IF byte = IAC THEN [parser EXCEPT !.state = "iac"] ELSE parser
      [] parser.state = "iac" /\ byte \in Negotiations ->
            [parser EXCEPT !.state = "negotiate", !.negotiate_cmd = byte]
      [] parser.state = "iac" /\ byte = SB ->
            [parser EXCEPT !.state = "sb", !.subneg = <<>>]
      [] parser.state = "sb" /\ byte = IAC ->
            [parser EXCEPT !.state = "sb_iac"]
      [] (parser.state = "sb" /\ byte # IAC) \/ (parser.state = "sb_iac" /\ byte = IAC) ->
            [parser EXCEPT !.state = "sb", !.subneg = Collected(@, byte)]
      [] parser.state = "sb_iac" /\ byte # IAC ->
            [parser EXCEPT !.state = "data", !.subneg = <<>>]
      [] OTHER -> [parser EXCEPT !.state = "data"]

\* ... the byte for the USB device in it, if it is one ...
Serial(parser, byte) ==
    IF \/ parser.state = "data" /\ byte # IAC
       \/ parser.state = "iac" /\ byte = IAC
    THEN <<byte>> ELSE <<>>

\* ... and the command it completes, if it does.
Commands(parser, byte) ==
    IF parser.state = "negotiate"
    THEN <<[kind |-> "option", frame |-> <<parser.negotiate_cmd, byte>>]>>
    ELSE IF parser.state = "sb_iac" /\ byte = SE
    THEN <<[kind |-> "subneg", frame |-> parser.subneg]>>
    ELSE <<>>

\* send_rfc2217_data: a 255 is sent twice.
Escape(data) ==
    LET doubled[n \in 0..Len(data)] ==
            IF n = 0 THEN <<>>
            ELSE doubled[n - 1] \o IF data[n] = IAC THEN <<IAC, IAC>> ELSE <<data[n]>>
    IN  doubled[Len(data)]

\* Mistake: only the data are escaped, not the values in a command.
UnescapedFrame(command, value) ==
    <<IAC, SB, COM_PORT_OPTION, command>> \o value \o <<IAC, SE>>

\* send_rfc2217_subneg; the values it is given always fit its frame.
SubnegFrame(command, value) ==
    <<IAC, SB, COM_PORT_OPTION, command>> \o Escape(value) \o <<IAC, SE>>

\* Mistake: a first byte of 255 is taken to tell.
DetectOnOneByte(probe) ==
    CASE Len(probe) = 0 -> "auto"
      [] Len(probe) = 1 -> "raw"
      [] OTHER -> IF probe[1] = IAC /\ probe[2] \in Negotiations \cup {SB} THEN "rfc2217" ELSE "raw"

\* Raw or RFC2217, once the first bytes tell; "auto" until then.
detect_client_mode(probe) ==
    CASE Len(probe) = 0 -> "auto"
      [] Len(probe) > 0 /\ probe[1] # IAC -> "raw"
      [] Len(probe) = 1 /\ probe[1] = IAC -> "auto"
      [] OTHER ->
            IF probe[2] \notin Negotiations \cup {SB} THEN "raw"
            ELSE IF Len(probe) >= 3 THEN "rfc2217" ELSE "auto"
=============================================================================
