------------------------------- MODULE Rfc2217 -------------------------------
(***************************************************************************)
(* The commands of RFC 2217, handle_rfc2217_subneg of main/tcp_bridge.c:    *)
(* what a subnegotiation asks of the serial side and how it is answered.    *)
(* Their numbers are the ones of the code; values are sequences of bytes.   *)
(***************************************************************************)
EXTENDS Telnet

CONSTANTS BaudDefault,  \* CONFIG_BRIDGE_CDC_BAUD
          Signature     \* the text that names the bridge, as bytes

ASSUME LineAssumption ==  \* Kconfig.projbuild
    BaudDefault \in Nat /\ 2400 <= BaudDefault /\ BaudDefault <= 3000000

SIGNATURE == 0
SET_BAUDRATE == 1
SET_DATASIZE == 2
SET_PARITY == 3
SET_STOPSIZE == 4
SET_CONTROL == 5
NOTIFY_LINESTATE == 6
NOTIFY_MODEMSTATE == 7
FLOW_SUSPEND == 8
FLOW_RESUME == 9
SET_LINE_MASK == 10
SET_MODEM_MASK == 11
PURGE_DATA == 12

\* Values of SET_CONTROL: the ones asked for and the ones answered.
Flow == 0..3
NO_FLOW == 1
Break == 4..6
BREAK_OFF == 6
REQ_DTR == 7
DTR_ON == 8
DTR_OFF == 9
REQ_RTS == 10
RTS_ON == 11
RTS_OFF == 12
FlowIn == 13..16
NO_FLOW_IN == 14

PURGE_RX == 1
PURGE_TX == 2
PURGE_BOTH == 3

\* A frame that is looked at: the option and a command, then the value.
IsComPort(frame) == Len(frame) >= 2 /\ frame[1] = COM_PORT_OPTION

Is(frame, command, value_len) ==
    IsComPort(frame) /\ frame[2] = command /\ Len(frame) - 2 >= value_len

Value(frame) == SubSeq(frame, 3, Len(frame))

BaudOf(value) == ((value[1] * 256 + value[2]) * 256 + value[3]) * 256 + value[4]
BaudBytes(baud) ==
    <<(baud \div 16777216) % 256, (baud \div 65536) % 256, (baud \div 256) % 256, baud % 256>>

\* current_serial_state: what the bridge remembers of the line, the defaults when
\* no device is there.
current_serial_state(remembered) ==
    IF remembered.valid THEN remembered
    ELSE [valid |-> FALSE, baud |-> BaudDefault, data_bits |-> 8, parity_type |-> 0,
          char_format |-> 0, dtr |-> TRUE, rts |-> TRUE]

\* What the bridge can remember of a line: usb_cdc_bridge_set_line_coding sets nothing
\* else.  A rate has 32 bits.
Rates == {rate \in Nat : rate \div 16777216 < 256}

LineStates ==
    [valid : BOOLEAN, baud : Rates \ {0},
     data_bits : 5..8, parity_type : 0..4, char_format : 0..2, dtr : BOOLEAN, rts : BOOLEAN]

\* Stop bits: 1, 2 and 3 on the wire stand for 1, 2 and 1.5; CDC numbers them 0, 2, 1.
cdc_from_rfc_stop == <<0, 2, 1>>

\* Mistake: the number is sent as CDC counts it.
StopFromCdcShifted(char_format) == char_format + 1

rfc_stop_from_cdc(char_format) ==
    IF char_format = 2 THEN 2 ELSE IF char_format = 1 THEN 3 ELSE 1

\* The requests about the line, as long as their value is.
IsRequest(frame) ==
    /\ frame \in Seq(0..255) /\ Len(frame) > 2 /\ frame[1] = COM_PORT_OPTION
    /\ \/ frame[2] = SET_BAUDRATE /\ Len(frame) = 6
       \/ frame[2] \in {SET_DATASIZE, SET_PARITY, SET_STOPSIZE, SET_CONTROL} /\ Len(frame) = 3

\* Frames that set the line coding, and the ones that set DTR or RTS.
AsksLine(frame) ==
    \/ Is(frame, SET_BAUDRATE, 4) /\ BaudOf(Value(frame)) # 0
    \/ Is(frame, SET_DATASIZE, 1) /\ frame[3] \in 5..8
    \/ Is(frame, SET_PARITY, 1) /\ frame[3] \in 1..5
    \/ Is(frame, SET_STOPSIZE, 1) /\ frame[3] \in 1..3

AsksControl(frame) ==
    Is(frame, SET_CONTROL, 1) /\ frame[3] \in {DTR_ON, DTR_OFF, RTS_ON, RTS_OFF}

\* The state such a frame asks for, given the one read before.
Requested(frame, state) ==
    CASE Is(frame, SET_BAUDRATE, 4) -> [state EXCEPT !.baud = BaudOf(Value(frame))]
      [] Is(frame, SET_DATASIZE, 1) -> [state EXCEPT !.data_bits = frame[3]]
      [] Is(frame, SET_PARITY, 1)   -> [state EXCEPT !.parity_type = frame[3] - 1]
      [] Is(frame, SET_STOPSIZE, 1) -> [state EXCEPT !.char_format = cdc_from_rfc_stop[frame[3]]]
      [] AsksControl(frame) /\ frame[3] \in {DTR_ON, DTR_OFF} ->
            [state EXCEPT !.dtr = (frame[3] = DTR_ON)]
      [] OTHER -> [state EXCEPT !.rts = (frame[3] = RTS_ON)]

PurgesRx(frame) == Is(frame, PURGE_DATA, 1) /\ frame[3] \in {PURGE_RX, PURGE_BOTH}
PurgesTx(frame) == Is(frame, PURGE_DATA, 1) /\ frame[3] \in {PURGE_TX, PURGE_BOTH}

\* The value answered to SET_CONTROL.
ControlAnswer(requested, state) ==
    CASE requested \in Flow   -> NO_FLOW
      [] requested \in Break  -> BREAK_OFF
      [] requested \in {REQ_DTR, DTR_ON, DTR_OFF} -> IF state.dtr THEN DTR_ON ELSE DTR_OFF
      [] requested \in {REQ_RTS, RTS_ON, RTS_OFF} -> IF state.rts THEN RTS_ON ELSE RTS_OFF
      [] requested \in FlowIn -> NO_FLOW_IN
      [] OTHER -> requested

\* The value a frame is answered with, the line being as in state: at most one.
AnswerValues(frame, state) ==
    CASE Is(frame, SIGNATURE, 0)         -> {Signature}
      [] Is(frame, SET_BAUDRATE, 4)      -> {BaudBytes(state.baud)}
      [] Is(frame, SET_DATASIZE, 1)      -> {<<state.data_bits>>}
      [] Is(frame, SET_PARITY, 1)        -> {<<state.parity_type + 1>>}
      [] Is(frame, SET_STOPSIZE, 1)      -> {<<rfc_stop_from_cdc(state.char_format)>>}
      [] Is(frame, SET_CONTROL, 1)       -> {<<ControlAnswer(frame[3], state)>>}
      [] \/ Is(frame, NOTIFY_LINESTATE, 0)
         \/ Is(frame, NOTIFY_MODEMSTATE, 0) -> {<<0>>}
      [] \/ Is(frame, SET_LINE_MASK, 1)
         \/ Is(frame, SET_MODEM_MASK, 1)
         \/ Is(frame, PURGE_DATA, 1)     -> {<<frame[3]>>}
      [] \/ Is(frame, FLOW_SUSPEND, 0)
         \/ Is(frame, FLOW_RESUME, 0)    -> {<<>>}
      [] OTHER -> {}
=============================================================================
