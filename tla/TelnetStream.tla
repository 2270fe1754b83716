----------------------------- MODULE TelnetStream -----------------------------
(***************************************************************************)
(* What a whole stream of bytes says, read twice: by the parser of          *)
(* main/tcp_bridge.c, one byte after the other, and off the stream as it     *)
(* stands there, command by command, as Telnet (RFC 854, 855) has it.  The   *)
(* second is the reference for the first, and for how a client is taken.     *)
(***************************************************************************)
EXTENDS Rfc2217

\* rfc2217_process_input for one byte more: the parser, the bytes for the USB device and the
\* commands so far ...
NothingParsed == [parser |-> NewParser, serial |-> <<>>, commands |-> <<>>]

WithByte(before, byte) ==
    [parser   |-> Step(before.parser, byte),
     serial   |-> before.serial \o Serial(before.parser, byte),
     commands |-> before.commands \o Commands(before.parser, byte)]

\* ... and for all bytes of a text.
Parsed(text) ==
    LET upto[n \in 0..Len(text)] ==
            IF n = 0 THEN NothingParsed ELSE WithByte(upto[n - 1], text[n])
    IN  upto[Len(text)]

-----------------------------------------------------------------------------
(* The reference.                                                           *)

\* A subnegotiation whose inside starts at i ends at e: the first byte after an odd number
\* of 255s, for pairs of them stand for themselves.
EndsAt(s, i, e) ==
    s[e] # IAC /\ \E k \in i .. e - 1 :
        /\ \A j \in k .. e - 1 : s[j] = IAC
        /\ k = i \/ s[k - 1] # IAC
        /\ (e - k) % 2 = 1

\* Where that is, if it has come.
FrameEnds(s, i) ==
    {e \in i + 1 .. Len(s) : EndsAt(s, i, e) /\ \A d \in i + 1 .. e - 1 : ~EndsAt(s, i, d)}

\* Where what starts at i ends: a byte, a pair of 255s, an option, a subnegotiation or any
\* other command.  Nowhere as long as it is incomplete.
ItemEnds(s, i) ==
    IF s[i] # IAC THEN {i}
    ELSE IF i = Len(s) THEN {}
    ELSE IF s[i + 1] \in Negotiations THEN {i + 2} \cap 1..Len(s)
    ELSE IF s[i + 1] = SB THEN FrameEnds(s, i + 2)
    ELSE {i + 1}

\* The items of s one after the other, each with what it is worth.
Joined(s, worth) ==
    LET from[i \in 1 .. Len(s) + 1] ==
            IF i > Len(s) THEN <<>>
            ELSE IF ItemEnds(s, i) = {} THEN <<>>
            ELSE worth[i] \o from[(CHOOSE e \in ItemEnds(s, i) : TRUE) + 1]
    IN  from[1]

\* The data in s.
DataIn(s) ==
    Joined(s, [i \in 1..Len(s) |->
        IF s[i] # IAC THEN <<s[i]>>
        ELSE IF i < Len(s) /\ s[i + 1] = IAC THEN <<IAC>>
        ELSE <<>>])

\* The first n of the elements of s, or all.
FirstOf(s, n) == IF Len(s) <= n THEN s ELSE SubSeq(s, 1, n)

\* The commands in s: options, and subnegotiations that end with SE.  The data inside of
\* those are kept as far as there is room.
CommandsIn(s) ==
    Joined(s, [i \in 1..Len(s) |->
        IF s[i] # IAC \/ i = Len(s) THEN <<>>
        ELSE IF s[i + 1] \in Negotiations /\ i + 2 <= Len(s)
        THEN <<[kind |-> "option", frame |-> <<s[i + 1], s[i + 2]>>]>>
        ELSE IF s[i + 1] = SB /\ \E e \in FrameEnds(s, i + 2) : s[e] = SE
        THEN LET inside == SubSeq(s, i + 2, (CHOOSE e \in FrameEnds(s, i + 2) : TRUE) - 2)
             IN  <<[kind |-> "subneg", frame |-> FirstOf(DataIn(inside), SubnegMax)]>>
        ELSE <<>>])

\* A client speaks RFC 2217 if it opens with a negotiation or a command; what opens one
\* leaves it undecided until a third byte is there.
Opens(s) == s[1] = IAC /\ (Len(s) > 1 => s[2] \in Negotiations \cup {SB})
SpeaksRfc2217(s) == Len(s) >= 3 /\ Opens(s)
Undecided(s) == Len(s) < 3 /\ (s # <<>> => Opens(s))
=============================================================================
