----------------------------- MODULE MCTcpBridge -----------------------------
(* TcpBridge on small buffers, with clients that send every kind of command. *)
EXTENDS TcpBridge

SettingsScript == <<IAC, SB, COM_PORT_OPTION, SET_DATASIZE, 7, IAC, SE, 71>>
PurgeScript == <<IAC, SB, COM_PORT_OPTION, PURGE_DATA, PURGE_BOTH, IAC, SE, 72>>
\* An escaped 255 in a command, which is longer than is kept, and in the data.
EscapeScript == <<IAC, SB, 3, IAC, IAC, 4, 5, 6, IAC, SE, 73, IAC, IAC>>
OptionScript == <<IAC, WILL, SGA, 74, IAC, DO, 99, IAC, SB, 3, IAC, SB>>
RawScript == <<IAC, 75, IAC, 76>>

\* The parser and the commands; two clients in turn and the bytes for them; a purge while
\* bytes wait; two devices in turn and the bytes for them.
MCWorlds ==
    {[scripts |-> <<{SettingsScript, PurgeScript, EscapeScript, OptionScript, RawScript}>>,
      frames |-> <<>>, devices |-> 1, usb |-> 0],
     [scripts |-> <<{<<>>}, {<<81>>}>>, frames |-> <<>>, devices |-> 1, usb |-> 3],
     [scripts |-> <<{PurgeScript}>>, frames |-> <<>>, devices |-> 1, usb |-> 2],
     [scripts |-> <<{<<71, 72>>}>>, frames |-> <<<<91, 92>>>>, devices |-> 2, usb |-> 0]}
MCSignature == <<69, IAC, 70>>


\* Every text of up to four bytes the parser tells apart.
Bytes == {1, SE, SB, WILL, IAC}
MCTexts == UNION {[1..n -> Bytes] : n \in 0..4}

\* Requests of a client: numbers at the ends of what a field holds, and outside it.
MCRequests ==
    {<<COM_PORT_OPTION, SET_BAUDRATE>> \o v :
        v \in {<<0, 0, 0, 0>>, <<0, 0, 0, 1>>, <<0, 0, 4, 176>>, <<0, 1, 194, 0>>, <<127, 255, 255, 255>>}}
    \cup {<<COM_PORT_OPTION, c, v>> : c \in 2..5, v \in 0..17}

MCLines ==
    [valid : BOOLEAN, baud : {9600}, data_bits : {7}, parity_type : {2}, char_format : {1},
     dtr : {FALSE}, rts : {FALSE}]
=============================================================================
