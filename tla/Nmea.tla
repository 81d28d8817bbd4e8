-------------------------------- MODULE Nmea --------------------------------
(***************************************************************************)
(* The NMEA side of the GPS HAL (gps_marvell_sirf.c): the tokenizer, the   *)
(* number conversions, the nmea_reader_update_* functions and              *)
(* nmea_reader_parse, as operators on a sentence and on the NmeaReader.    *)
(*                                                                         *)
(* A sentence is a sequence of one-character strings.  Of the reader the   *)
(* model keeps what the control depends on: pos and in, the date           *)
(* (utc_year, utc_mon, utc_day as one record), the flags of the fix, the   *)
(* date its timestamp was built from, the satellite count and list, the    *)
(* used-in-fix mask and sv_status_changed.  Coordinates, altitude, speed   *)
(* and bearing are numbers nothing tests, and are left out; strtod is      *)
(* kept only where its value is tested (an accuracy of 99.99).             *)
(***************************************************************************)
EXTENDS Integers, Sequences, SequencesExt

CONSTANTS
    MAX_NMEA_TOKENS,    \* tokens the tokenizer keeps (32)
    Today               \* the date of the system clock, [year, mon, day]

NUL    == "NUL"         \* the byte behind the dummy token of line 111
Digits == <<"0", "1", "2", "3", "4", "5", "6", "7", "8", "9">>
\* The characters of the model's alphabet that do not compare above '0'.
UpToZero == {NUL, "$", "*", ",", "-", ".", "0", "\r", "\n"}

GPS_LOCATION_HAS_LAT_LONG == "LAT_LONG"
GPS_LOCATION_HAS_ALTITUDE == "ALTITUDE"
GPS_LOCATION_HAS_SPEED    == "SPEED"
GPS_LOCATION_HAS_BEARING  == "BEARING"
GPS_LOCATION_HAS_ACCURACY == "ACCURACY"

NoDate == [year |-> -1, mon |-> -1, day |-> -1]

-----------------------------------------------------------------------------
(* The tokenizer.                                                          *)

\* Lines 68-82: what is left of the sentence between p and end once the
\* optional '$', the newline with its '\r' and the checksum are dropped.
Body(s) ==
    LET a == IF s # <<>> /\ Head(s) = "$" THEN Tail(s) ELSE s
        b == IF a # <<>> /\ Last(a) = "\n" THEN Front(a) ELSE a
        c == IF b # a /\ b # <<>> /\ Last(b) = "\r" THEN Front(b) ELSE b
    IN  IF Len(c) >= 3 /\ c[Len(c) - 2] = "*" THEN SubSeq(c, 1, Len(c) - 3) ELSE c

\* memchr(p, ',', end - p): the index of the first comma, or end.
Comma(p) ==
    LET q == SelectInSeq(p, LAMBDA ch : ch = ",") IN IF q = 0 THEN Len(p) + 1 ELSE q

\* The loop (mutant): an empty token is not kept.
RECURSIVE SplitSkippingEmpty(_, _)
SplitSkippingEmpty(p, tokens) ==
    IF p = <<>> THEN tokens
    ELSE LET q == Comma(p)
         IN  SplitSkippingEmpty(IF q < Len(p) THEN SubSeq(p, q + 1, Len(p)) ELSE <<>>,
                                IF Len(tokens) < MAX_NMEA_TOKENS /\ q > 1
                                THEN Append(tokens, SubSeq(p, 1, q - 1)) ELSE tokens)

\* Lines 84-101: the loop, from p with the tokens kept so far.
RECURSIVE SplitFrom(_, _)
SplitFrom(p, tokens) ==
    IF p = <<>> THEN tokens
    ELSE LET q == Comma(p)
         IN  SplitFrom(IF q < Len(p) THEN SubSeq(p, q + 1, Len(p)) ELSE <<>>,
                       IF Len(tokens) < MAX_NMEA_TOKENS
                       THEN Append(tokens, SubSeq(p, 1, q - 1)) ELSE tokens)

nmea_tokenizer_init(s) == SplitFrom(Body(s), <<>>)

\* The token of an index (from 0); the dummy, empty, out of range.
nmea_tokenizer_get(t, index) ==
    IF index < 0 \/ index >= Len(t) THEN <<>> ELSE t[index + 1]

\* tok.p[0].  The dummy token points at a NUL; an empty token of the
\* sentence points at the comma that ends it (the tokenizer keeps no empty
\* token at the end of the body).
FirstChar(t, index) ==
    LET tok == nmea_tokenizer_get(t, index)
    IN  CASE index >= Len(t) -> NUL
          [] tok = <<>>      -> ","
          [] OTHER           -> tok[1]

IsDigit(ch) == \E d \in DOMAIN Digits : Digits[d] = ch
DigitOf(ch) == (CHOOSE d \in DOMAIN Digits : Digits[d] = ch) - 1

\* -1 for the empty text and for one that holds anything but digits.
str2int(text) ==
    IF text = <<>> \/ \E k \in DOMAIN text : ~IsDigit(text[k]) THEN -1
    ELSE FoldLeft(LAMBDA result, ch : result * 10 + DigitOf(ch), 0, text)

\* The token read from tok.p to tok.end + 4: on into the separator that
\* follows every token, a comma, the '*' of the checksum, the newline or
\* the NUL that fills the buffer.
PastEnd(tok) == tok \o <<",">>

-----------------------------------------------------------------------------
(* The reader and the functions that update it.  Their return values are   *)
(* dropped by every caller but nmea_reader_update_date, so each is the     *)
(* reader it leaves.                                                       *)

nmea_reader_init ==
    [pos |-> 0, in |-> <<>>, utc |-> NoDate,
     fix |-> [flags |-> {}, timestamp |-> NoDate],
     sv_status |-> [num_svs |-> 0, sv_list |-> <<>>, used_in_fix_mask |-> {}],
     sv_status_changed |-> 0]

\* Without a date the system clock's is taken; the timestamp is built from
\* the date the reader then has.
nmea_reader_update_time(r, tok) ==
    IF Len(tok) < 6 THEN r
    ELSE LET utc == IF r.utc.year < 0 THEN Today ELSE r.utc
         IN  [r EXCEPT !.utc = utc, !.fix.timestamp = utc]

nmea_reader_update_cdate(r, tok_d, tok_m, tok_y) ==
    IF Len(tok_d) < 2 \/ Len(tok_m) < 2 \/ Len(tok_y) < 4 THEN r
    ELSE [r EXCEPT !.utc = [day  |-> str2int(SubSeq(tok_d, 1, 2)),
                            mon  |-> str2int(SubSeq(tok_m, 1, 2)),
                            year |-> str2int(PastEnd(tok_y))]]

\* (day|mon|year) < 0 is the test of three signs; 2000 was added to the
\* year before it.
nmea_reader_update_date(r, date, time) ==
    LET day  == str2int(SubSeq(date, 1, 2))
        mon  == str2int(SubSeq(date, 3, 4))
        year == str2int(SubSeq(date, 5, 6)) + 2000
    IN  IF Len(date) # 6 \/ day < 0 \/ mon < 0 \/ year < 0 THEN r
        ELSE nmea_reader_update_time(
                 [r EXCEPT !.utc = [year |-> year, mon |-> mon, day |-> day]], time)

Flagged(r, flag) == [r EXCEPT !.fix.flags = @ \union {flag}]

nmea_reader_update_latlong(r, latitude, longitude) ==
    IF Len(latitude) < 6 \/ Len(longitude) < 6 THEN r
    ELSE Flagged(r, GPS_LOCATION_HAS_LAT_LONG)

nmea_reader_update_altitude(r, altitude) ==
    IF altitude = <<>> THEN r ELSE Flagged(r, GPS_LOCATION_HAS_ALTITUDE)

\* strtod of the token compared with 99.99, which the receiver sends for
\* "no value".
nmea_reader_update_accuracy(r, accuracy) ==
    IF accuracy = <<>> \/ accuracy = <<"9", "9", ".", "9", "9">> THEN r
    ELSE Flagged(r, GPS_LOCATION_HAS_ACCURACY)

nmea_reader_update_bearing(r, bearing) ==
    IF bearing = <<>> THEN r ELSE Flagged(r, GPS_LOCATION_HAS_BEARING)

nmea_reader_update_speed(r, speed) ==
    IF speed = <<>> THEN r ELSE Flagged(r, GPS_LOCATION_HAS_SPEED)

-----------------------------------------------------------------------------
(* nmea_reader_parse: one operator for each sentence it knows.             *)

Tok(t, index) == nmea_tokenizer_get(t, index)

ParseGGA(r, t) ==
    IF FirstChar(t, 6) \in UpToZero THEN r
    ELSE nmea_reader_update_altitude(
             nmea_reader_update_latlong(
                 nmea_reader_update_time(r, Tok(t, 1)), Tok(t, 2), Tok(t, 4)),
             Tok(t, 9))

ParseGLL(r, t) ==
    IF FirstChar(t, 6) # "A" THEN r
    ELSE nmea_reader_update_latlong(
             nmea_reader_update_time(r, Tok(t, 5)), Tok(t, 1), Tok(t, 3))

\* The mask is kept as the set of shift counts 32 - prn of line 536.
ParseGSA(r, t) ==
    LET prns == {str2int(Tok(t, i)) : i \in 3..14} \ {-1, 0}
        r1   == nmea_reader_update_accuracy(r, Tok(t, 15))
    IN  IF FirstChar(t, 2) \in {NUL, "1"} THEN r
        ELSE [r1 EXCEPT !.sv_status.used_in_fix_mask = {32 - prn : prn \in prns},
                        !.sv_status_changed = IF prns = {} THEN @ ELSE 1]

\* GSV (mutant): four satellites of every sentence, however many are held.
ParseGSVAlwaysFour(r, t) ==
    LET held  == IF str2int(Tok(t, 2)) = 1 THEN <<>> ELSE r.sv_status.sv_list
        added == [i \in 1..4 |-> str2int(Tok(t, (i - 1) * 4 + 4))]
    IN  IF str2int(Tok(t, 3)) <= 0 THEN r
        ELSE [r EXCEPT !.sv_status.num_svs = Len(held) + 4,
                       !.sv_status.sv_list = held \o added]

\* The first sentence of a cycle empties the list; each sentence adds up to
\* four satellites while fewer than noSatellites are held; the last
\* sentence marks the status as changed.  Nothing compares num_svs with
\* the length of sv_list.
ParseGSV(r, t) ==
    LET noSatellites   == str2int(Tok(t, 3))
        totalSentences == str2int(Tok(t, 1))
        sentence       == str2int(Tok(t, 2))
        curr           == IF sentence = 1 THEN 0 ELSE r.sv_status.num_svs
        held           == IF sentence = 1 THEN <<>> ELSE r.sv_status.sv_list
        more           == IF noSatellites - curr < 4 THEN noSatellites - curr ELSE 4
        added          == [i \in 1..more |-> str2int(Tok(t, (i - 1) * 4 + 4))]
    IN  IF noSatellites <= 0 THEN r
        ELSE [r EXCEPT !.sv_status.num_svs = curr + Len(added),
                       !.sv_status.sv_list = held \o added,
                       !.sv_status_changed = CASE sentence = totalSentences -> 1
                                               [] sentence = 1              -> 0
                                               [] OTHER                     -> @]

ParseRMC(r, t) ==
    IF FirstChar(t, 2) # "A" THEN r
    ELSE nmea_reader_update_speed(
             nmea_reader_update_bearing(
                 nmea_reader_update_latlong(
                     nmea_reader_update_date(r, Tok(t, 9), Tok(t, 1)),
                     Tok(t, 3), Tok(t, 5)),
                 Tok(t, 8)),
             Tok(t, 7))

ParseVTG(r, t) ==
    IF FirstChar(t, 9) \in {NUL, "N"} THEN r
    ELSE nmea_reader_update_speed(nmea_reader_update_bearing(r, Tok(t, 1)), Tok(t, 5))

ParseZDA(r, t) ==
    LET dated == IF FirstChar(t, 4) = NUL THEN r
                 ELSE nmea_reader_update_cdate(r, Tok(t, 2), Tok(t, 3), Tok(t, 4))
    IN  IF FirstChar(t, 1) = NUL THEN dated
        ELSE nmea_reader_update_time(dated, Tok(t, 1))

\* The three letters behind the talker id of token 0.
SentenceId(t) == SubSeq(Tok(t, 0), 3, 5)

nmea_reader_parse(r) ==
    LET t == nmea_tokenizer_init(SubSeq(r.in, 1, r.pos))
    IN  CASE r.pos < 9 \/ Len(Tok(t, 0)) < 5  -> r
          [] SentenceId(t) = <<"G", "G", "A">> -> ParseGGA(r, t)
          [] SentenceId(t) = <<"G", "L", "L">> -> ParseGLL(r, t)
          [] SentenceId(t) = <<"G", "S", "A">> -> ParseGSA(r, t)
          [] SentenceId(t) = <<"G", "S", "V">> -> ParseGSV(r, t)
          [] SentenceId(t) = <<"R", "M", "C">> -> ParseRMC(r, t)
          [] SentenceId(t) = <<"V", "T", "G">> -> ParseVTG(r, t)
          [] SentenceId(t) = <<"Z", "D", "A">> -> ParseZDA(r, t)
          [] OTHER                             -> r

=============================================================================
