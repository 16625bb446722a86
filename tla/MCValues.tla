------------------------------ MODULE MCValues ------------------------------
(* The values that cross the wire, for TLC: a stream of frames, a calendar and an amount,  *)
(* one of them in a behaviour.                                                             *)
EXTENDS Decoder, Instant, Money

VARIABLE subject

valuesVars == <<subject, decoderVars, today, moneyVars>>

(* A frame is a JSON value that is one digit, digits, or a string of one two-byte          *)
(* character; a lone byte of that character is no text.                                    *)
Characters == {<<"1">>, <<"quote">>, <<"lead", "cont">>}

SomeUtf8 == {FlattenSeq(s) : s \in UNION {[1 .. n -> Characters] : n \in 0 .. 4}}

SomeJson ==
  {s \in SomeUtf8 \ {<<>>} :
     \/ ToSet(s) = {"1"}
     \/ Len(s) > 1 /\ {i \in DOMAIN s : s[i] = "quote"} = {1, Len(s)}}

(* From the first day the validator accepts over a whole era and the seams at both of its  *)
(* ends, and from the epoch.                                                               *)
SomeOrigins == {<<-719528, <<0, 1, 1>>>>, <<0, <<1970, 1, 1>>>>, <<10950, <<1999, 12, 25>>>>}
SomeFinals == {-719528 + 146097 + 90, 3650, 12500}
SomeDays == 10950 .. 12500

SomeTimes == {0, 61, 1439, 1500}
SomeFractions == {<<>>, <<5>>, <<2, 5>>, <<0, 0>>, <<2, 5, 0, 0>>, <<2, 5, 0, 1>>, <<0, 0, 1>>}
Offset(sign, hour, minute) == [sign |-> sign, hour |-> hour, minute |-> minute]
SomeOffsets == {Utc, Offset(-1, 0, 0), Offset(1, 5, 30), Offset(-1, 8, 0), Offset(1, 23, 59),
                Offset(-1, 23, 59)}

SomeOperands == {<<"0">>, <<"1">>, <<"0", ".", "1">>, <<"9", "9">>, <<"-", "9">>,
                 <<"1", ".", "9", "0">>, <<"-", "0", ".", "0", "9">>}
SomeTexts == UNION {[1 .. n -> {"0", "1", "9", "-", ".", "e", "x"}] : n \in 1 .. 4}
             \union SomeOperands
             \union {<<"-", "0", ".", "0", "0">>, <<"0", ".", "0", "0", "0">>,
                     <<"1", "1", "1", ".", "0", "0">>, <<"0", ".", "0", "0", "0", "x">>}

ValuesInit ==
  /\ subject \in {"stream", "calendar", "amount"}
  /\ DecoderInit /\ MoneyInit
  /\ IF subject = "calendar" THEN CountInit ELSE today = [number |-> 0, date |-> <<1970, 1, 1>>]

ValuesNext ==
  /\ UNCHANGED subject
  /\ \/ subject = "stream" /\ DecoderNext /\ UNCHANGED <<today, moneyVars>>
     \/ subject = "calendar" /\ NextDay /\ UNCHANGED <<decoderVars, moneyVars>>
     \/ subject = "amount" /\ MoneyNext /\ UNCHANGED <<decoderVars, today>>

ValuesSpec == ValuesInit /\ [][ValuesNext]_valuesVars
=============================================================================
