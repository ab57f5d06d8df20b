--------------------------------- MODULE Times ---------------------------------
(*****************************************************************************)
(* The typecodes of dates, times and durations (ZSI/TCtimes.py): what each   *)
(* makes of a text and which text it writes for a value.                     *)
(*                                                                           *)
(* A text is a record of the fields the lexical patterns name, None where    *)
(* the text has none; kind is the lexical form.  A value is the tuple of     *)
(* _dict_to_tuple with names for its places.  Minutes count from the first   *)
(* of March of the year 0.                                                   *)
(*****************************************************************************)
EXTENDS Integers, FiniteSets, Results

(* A definition Mut... is the one that follows it with a fault seeded in; no *)
(* specification uses it, a property is checked to reject it.                *)

CONSTANTS
  None,             \* a field that is absent
  StdOffset,        \* minutes east of UTC of the local zone
  DstOffset,        \* the same during summer time
  DstStart, DstEnd  \* the minutes on the local clock at which it begins and ends

ASSUME TimesAssumption ==
  /\ {StdOffset, DstOffset} \subseteq -840..840
  /\ DstStart \in Nat /\ DstEnd \in Nat /\ StdOffset <= DstOffset

Fixing == {"dateTime", "time"}                     \* fix_timezone
Fields(kind) ==                                    \* the groups of lex_pattern
  CASE kind = "dateTime"   -> {"Y", "M", "D", "h", "m", "s"}
    [] kind = "date"       -> {"Y", "M", "D"}
    [] kind = "gYearMonth" -> {"Y", "M"}
    [] kind = "gYear"      -> {"Y"}
    [] kind = "gMonthDay"  -> {"M", "D"}
    [] kind = "gDay"       -> {"D"}
    [] kind = "gMonth"     -> {"M"}
    [] kind = "time"       -> {"h", "m", "s"}
    [] kind = "duration"   -> {"Y", "M", "D", "h", "m", "s"}

Places == {"Y", "M", "D", "h", "m", "s"}

-------------------------------------------------------------------------------
(* External: the calendar of datetime and the zone of the C library.         *)

FloorDays(y, m) == LET z == IF m <= 2 THEN y - 1 ELSE y
                   IN 365 * z + z \div 4 - z \div 100 + z \div 400
                        + (153 * ((m + 9) % 12) + 2) \div 5
Minute(v) == 1440 * (FloorDays(v.Y, v.M) + v.D - 1) + 60 * v.h + v.m

Leap(y) == y % 4 = 0 /\ (y % 100 # 0 \/ y % 400 = 0)
DaysOf(y, m) == CASE m = 2 -> IF Leap(y) THEN 29 ELSE 28
                  [] m \in {4, 6, 9, 11} -> 30
                  [] OTHER -> 31
Valid(v) == /\ v.M \in 1..12 /\ v.D \in 1..DaysOf(v.Y, v.M)
            /\ v.h \in 0..23 /\ v.m \in 0..59 /\ v.s \in 0..59

\* The date and time at a minute, for minutes within two days of v.
Clock(v, minute) ==
  LET days == minute \div 1440
      month == CHOOSE mo \in (v.Y - 1 .. v.Y + 1) \X (1..12) :
                 days - FloorDays(mo[1], mo[2]) \in 0 .. DaysOf(mo[1], mo[2]) - 1
  IN [v EXCEPT !.Y = month[1], !.M = month[2], !.D = days - FloorDays(month[1], month[2]) + 1,
               !.h = (minute % 1440) \div 60, !.m = minute % 60]

\* _localtimezone: __is_dst asks mktime about a wall clock time.
IsDst(wall) == DstStart <= wall /\ wall < DstEnd
LocalToUtc(wall) == wall - (IF IsDst(wall) THEN DstOffset ELSE StdOffset)
UtcToLocal(utc) ==                                     \* tzinfo.fromutc
  LET off   == utc + (IF IsDst(utc) THEN DstOffset ELSE StdOffset)
      delta == off - (IF IsDst(utc) THEN DstOffset - StdOffset ELSE 0)
  IN delta + (IF IsDst(delta) THEN DstOffset - StdOffset ELSE 0)

UTC == [neg |-> FALSE, h |-> 0, m |-> 0]               \* Z

-------------------------------------------------------------------------------
(* Reading.                                                                  *)

\* _tz_to_tzinfo: -00:30 has no negative hour, so its minutes stay positive.
MutMinutesEast(tz) == 60 * (IF tz.neg THEN -tz.h ELSE tz.h) + tz.m
MinutesEast(tz) ==
  LET h == IF tz.neg THEN -tz.h ELSE tz.h
  IN 60 * h + (IF h < 0 THEN -tz.m ELSE tz.m)

FixNoneFields(v) ==
  [v EXCEPT !.Y = IF @ = None THEN 2 ELSE @, !.M = IF @ = None THEN 1 ELSE @,
            !.D = IF @ = None THEN 1 ELSE @]

\* _fix_timezone: the same instant on a clock that then shows minute.
FixTimezone(v, minute) ==
  LET full == FixNoneFields(v)
      there == Clock(full, minute)
  IN IF full.Y < 2 \/ full.Y > 9998 THEN v
     ELSE [p \in DOMAIN v |-> IF p \in Places /\ v[p] = None THEN None ELSE there[p]]

\* _dict_to_tuple: the sign reaches every field but the seconds.
DictToTuple(t) ==
  LET signed(x) == IF x # None /\ t.neg THEN -x ELSE x
      time(x)   == IF x = None THEN 0 ELSE x
  IN [Y |-> signed(t.Y), M |-> signed(t.M), D |-> signed(t.D),
      h |-> signed(time(t.h)), m |-> signed(time(t.m)), s |-> time(t.s), ms |-> time(t.ms)]


ReadDuration(t) ==
  IF t.kind # "duration" \/ (t.T /\ t.h = None /\ t.m = None /\ t.s = None)
  THEN Raise("EvaluateException")
  ELSE Ok(DictToTuple(t))

\* Gregorian.text_to_data: a text of another form matches no pattern.
ReadGregorian(kind, t, v) ==
  LET here == Minute(FixNoneFields(v))
      utc  == IF t.tz = None THEN LocalToUtc(here) ELSE here - MinutesEast(t.tz)
      fixed == IF kind \in Fixing THEN FixTimezone(v, UtcToLocal(utc)) ELSE v
  IN IF t.kind # kind THEN Raise("EvaluateException")
     ELSE IF kind \in Fixing /\ FixNoneFields(v).Y \in 2..9998 /\ ~Valid(FixNoneFields(v))
          THEN Raise("ValueError")
     ELSE Ok(FixNoneFields(fixed))

ReadTime(kind, t) == IF kind = "duration" THEN ReadDuration(t) ELSE ReadGregorian(kind, t, DictToTuple(t))

-------------------------------------------------------------------------------
(* Writing.                                                                  *)

AbsValue(v) == IF \E p \in Places : v[p] < 0
               THEN [p \in DOMAIN v |-> IF v[p] < 0 THEN -v[p] ELSE v[p]]
               ELSE v

\* get_formatted_content of a Gregorian drops the sign it has found.
FormatGregorian(kind, a) ==
  LET of(p) == IF p \in Fields(kind) THEN a[p] ELSE None
  IN IF kind \in Fixing /\ a.ms > 999 THEN Raise("ValueError")
     ELSE Ok([kind |-> kind, neg |-> FALSE, T |-> FALSE,
              Y |-> of("Y"), M |-> of("M"), D |-> of("D"), h |-> of("h"), m |-> of("m"),
              s |-> of("s"), ms |-> IF kind \in Fixing /\ a.ms # 0 THEN a.ms ELSE None,
              tz |-> IF kind \in Fixing THEN UTC ELSE None])
WriteGregorian(kind, v) ==
  LET utc == IF kind \in Fixing THEN FixTimezone(v, LocalToUtc(Minute(FixNoneFields(v)))) ELSE v
  IN IF \E p \in Places : v[p] = None THEN Raise("TypeError")
     ELSE IF kind \in Fixing /\ v.Y \in 2..9998 /\ ~Valid(v) THEN Raise("ValueError")
     ELSE FormatGregorian(kind, AbsValue(utc))

\* Duration.get_formatted_content writes no milliseconds.
WriteDuration(v) ==
  LET a == AbsValue(v)
  IN IF \E p \in Places : v[p] = None THEN Raise("TypeError")
     ELSE Ok([kind |-> "duration", neg |-> \E p \in Places : v[p] < 0, T |-> TRUE,
              Y |-> a.Y, M |-> a.M, D |-> a.D, h |-> a.h, m |-> a.m, s |-> a.s,
              ms |-> None, tz |-> None])

WriteTime(kind, v) == IF kind = "duration" THEN WriteDuration(v) ELSE WriteGregorian(kind, v)

-------------------------------------------------------------------------------
(* The instant a text with a zone denotes, by the definition of xsd:dateTime. *)
InstantOf(t) ==
  LET east == (IF t.tz.neg THEN -1 ELSE 1) * (60 * t.tz.h + t.tz.m)
  IN Minute(FixNoneFields([Y |-> t.Y, M |-> t.M, D |-> t.D, h |-> t.h, m |-> t.m])) - east
================================================================================
