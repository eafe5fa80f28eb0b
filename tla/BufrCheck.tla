------------------------------- MODULE BufrCheck -------------------------------
(***************************************************************************)
(* The tool bufr-sanity-check (tools/bufr-sanity-check.cc): it reads the   *)
(* messages of a stream that may be corrupted (codes/CodesSplitter.cc),    *)
(* checks the section 2 that MARS needs, patches what it can and writes    *)
(* the rest.                                                               *)
(*                                                                         *)
(* A stream is [length, copies]: for each place where the letters BUFR     *)
(* stand, what follows them: the message, the length it claims to have,    *)
(* and whether it ends there with 7777.  Between copies anything may lie,  *)
(* and they may overlap: a copy that claims too much reaches over others.  *)
(***************************************************************************)
EXTENDS CodesHandle, ProductTime, FiniteSets

CONSTANTS
    Streams,            \* the input files
    Arguments,          \* command lines: functions from the options given to their values
    SubTypes,           \* bufrSubtypes.yaml: the type of each subtype
    Header,             \* the length of the letters
    MaxReadErrors       \* bound: reads of the stream that fail

Copies(f) == DOMAIN f.copies
Sound(f)  == {s \in Copies(f) : f.copies[s].sound}
End(f, s) == s + f.copies[s].claimed

ASSUME StreamsAssumption ==
    /\ Header \in Nat \ {0} /\ MaxReadErrors \in Nat
    /\ \A f \in Streams :
          /\ f.length \in Nat /\ Copies(f) \subseteq Nat
          /\ \A s \in Copies(f) :
                /\ f.copies[s].claimed \in Nat /\ f.copies[s].claimed >= Header
                /\ f.copies[s].sound \in BOOLEAN
                /\ s + Header <= f.length
                /\ s \in Sound(f) => f.copies[s].claimed > Header /\ End(f, s) <= f.length
                /\ \A t \in Copies(f) : s < t => s + Header <= t

VARIABLES
    stream, options,
    position,           \* of the reader in the stream
    pos,                \* where it was before the last message
    state,              \* "reading", "checking", "done", "aborted" or "refused"
    current,            \* the message that was read
    output,             \* the messages of the output file
    counts,             \* how often each of the counters was incremented
    warnings,           \* how many exceptions were caught
    met,                \* history: the places of the messages that were checked
    lost                \* history: the outcomes of failed reads

vars == <<stream, options, position, pos, state, current, output, counts, warnings, met, lost>>
----------------------------------------------------------------------------
(* The options.                                                            *)

Given(args, option, default) == GetOr(args, option, default)[1]

OptionsOf(args) ==
    LET patch == Given(args, "patch-on-error", FALSE)
        skip  == Given(args, "skip-on-error", FALSE)
        abort == Given(args, "abort-on-error", ~(patch \/ skip))
    IN  If(~(abort /\ patch) /\ ~(abort /\ skip) /\ ~(patch /\ skip),
           [abort         |-> abort, patch |-> patch, skip |-> skip,
            ignoreLength  |-> Given(args, "dont-patch-length", FALSE),
            ignoreDate    |-> Given(args, "dont-patch-date", FALSE),
            ignoreCentury |-> Given(args, "ignore-century", FALSE),
            ignoreType    |-> Given(args, "ignore-type", FALSE),
            timeThreshold |-> Given(args, "acceptable-time-discrepancy", 300)])
----------------------------------------------------------------------------
(* The checks.  What a check answers is [status, changes], the changes as  *)
(* a sequence of keys and their new values; or it throws.                  *)

Status(status, changes) == Found([status |-> status, changes |-> changes])
OK        == Status("OK", <<>>)
Corrupted == Status("CORRUPTED", <<>>)
Fixed(changes) == Status("FIXED", changes)

Change(k, v) == [key |-> k, value |-> v]

\* The values of several keys, if all of them can be read.
Longs(h, names) ==
    If(\A k \in names : KeyLong(h, k) # Failed, [k \in names |-> KeyLong(h, k)[1]])

\* What messageLength holds when the message is too long for it.
WrongKeyLength == 65535

CheckMessageLength(h, o) ==
    LET read == Longs(h, {"totalLength", "messageLength"})
    IN  IF read = Failed THEN Failed
        ELSE LET v == read[1]
             IN  IF v.totalLength = v.messageLength \/ v.totalLength >= WrongKeyLength THEN OK
                 ELSE IF ~o.patch \/ o.ignoreLength THEN Corrupted
                 ELSE Fixed(<<Change("messageLength", v.totalLength)>>)

TypeBySubtype(subtype) == Get(SubTypes, subtype)

CheckSubType(h) ==
    LET read == Longs(h, {"rdbType", "oldSubtype"})
    IN  IF read = Failed THEN Failed
        ELSE IF TypeBySubtype(read[1].oldSubtype) = Found(read[1].rdbType) THEN OK ELSE Corrupted

ValidDate(y, m, d) == m \in 1 .. 12 /\ d \in 1 .. DaysInMonth(y, m)
Julian(y, m, d)    == IF ValidDate(y, m, d) THEN FirstDay(12 * y + m - 1) + d - 1 ELSE 0
ValidTime(h, m, s, lastSecond) == h \in 0 .. 23 /\ m \in 0 .. 59 /\ s \in 0 .. lastSecond
Seconds(h, m, s)   == 3600 * h + 60 * m + s

\* The year of the typical date, in the century of the local one if told so.
TypicalYear(v, o) ==
    IF o.ignoreCentury THEN (v.localYear \div 100) * 100 + (v.typicalYear % 100) ELSE v.typicalYear

TypicalDateOk(v, o) == ValidDate(TypicalYear(v, o), v.typicalMonth, v.typicalDay)
TypicalTimeOk(v)    == ValidTime(v.typicalHour, v.typicalMinute, v.typicalSecond, 59)
LocalDateOk(v)      == ValidDate(v.localYear, v.localMonth, v.localDay)
LocalTimeOk(v)      == ValidTime(v.localHour, v.localMinute, v.localSecond, 60)

FurtherApart(v, o, limit) ==
    LET days == Julian(TypicalYear(v, o), v.typicalMonth, v.typicalDay)
                - Julian(v.localYear, v.localMonth, v.localDay)
        seconds == Seconds(v.typicalHour, v.typicalMinute, v.typicalSecond)
                   - Seconds(v.localHour, v.localMinute, v.localSecond)
        most == limit \div SecondsPerDay + 1
    IN  days \notin -most .. most \/ SecondsPerDay * days + seconds \notin -limit .. limit

(* mutant: the day is not patched *)
DateChangesWithoutDay(v, edition) ==
    (IF edition = 3 THEN <<Change("typicalYearOfCentury", v.localYear - 2000)>>
     ELSE <<Change("typicalYear", v.localYear), Change("typicalSecond", v.localSecond)>>)
    \o <<Change("typicalMonth", v.localMonth),
         Change("typicalHour", v.localHour), Change("typicalMinute", v.localMinute)>>

\* Edition 3 has the year of the century, and no seconds.
DateChanges(v, edition) ==
    (IF edition = 3 THEN <<Change("typicalYearOfCentury", v.localYear - 2000)>>
     ELSE <<Change("typicalYear", v.localYear), Change("typicalSecond", v.localSecond)>>)
    \o <<Change("typicalMonth", v.localMonth), Change("typicalDay", v.localDay),
         Change("typicalHour", v.localHour), Change("typicalMinute", v.localMinute)>>

\* The keys in the order they are read, and what is decided after each group.
TypicalDate == {"localYear", "typicalYear", "typicalMonth", "typicalDay"}
TypicalTime == {"typicalHour", "typicalMinute", "typicalSecond"}
LocalDate   == {"localMonth", "localDay"}
LocalTime   == {"localHour", "localMinute", "localSecond"}
UpTo(n)     == UNION {<<TypicalDate, TypicalTime, LocalDate, LocalTime>>[i] : i \in 1 .. n}

CheckDate(h, o) ==
    LET read(n) == Longs(h, UpTo(n))
        v       == read(4)[1]
        toFix   == /\ ~o.ignoreDate
                   /\ \/ ~TypicalDateOk(v, o) \/ ~TypicalTimeOk(v)
                      \/ FurtherApart(v, o, o.timeThreshold)
    IN  IF read(1) = Failed THEN Failed
        ELSE IF ~o.patch /\ ~TypicalDateOk(read(1)[1], o) THEN Corrupted
        ELSE IF read(2) = Failed THEN Failed
        ELSE IF ~o.patch /\ ~TypicalTimeOk(read(2)[1]) THEN Corrupted
        ELSE IF read(3) = Failed THEN Failed
        ELSE IF ~LocalDateOk(read(3)[1]) THEN Corrupted
        ELSE IF read(4) = Failed THEN Failed
        ELSE IF ~LocalTimeOk(v) THEN Corrupted
        ELSE IF ~toFix THEN OK
        ELSE IF KeyLong(h, "edition") = Failed THEN Failed
        ELSE Fixed(DateChanges(v, KeyLong(h, "edition")[1]))
----------------------------------------------------------------------------
(* One message: what it counts as, and what is written for it, if anything. *)

\* typicalYear is computed from the year of the century.
SetLong(h, change) ==
    LET set == SetKey(h, change.key, "Long", <<change.value>>)
    IN  IF set = Failed \/ change.key # "typicalYearOfCentury" THEN set
        ELSE SetKey(set[1], "typicalYear", "Long", <<2000 + change.value>>)

Transform(h, changes) ==
    LET set[i \in 0 .. Len(changes)] ==
            IF i = 0 THEN Found(h)
            ELSE LET before == set[i - 1]
                 IN  IF before = Failed THEN Failed ELSE SetLong(before[1], changes[i])
    IN  set[Len(changes)]

Verdict(throws, compliant, counted, written) ==
    [throws |-> throws, compliant |-> compliant, counted |-> counted, written |-> written]
Thrown(counted) == Verdict(TRUE, FALSE, counted, Failed)

(* mutant: what cannot be patched is not counted *)
CountedIfFixed(status, name) ==
    IF status = Failed THEN {} ELSE IF status[1].status = "FIXED" THEN {name} ELSE {}

Counted(status, name) ==
    IF status = Failed THEN {} ELSE IF status[1].status = "OK" THEN {} ELSE {name}

Check(h, o) ==
    LET section == KeyLong(h, "localSectionPresent")
        length  == CheckMessageLength(h, o)
        subtype == CheckSubType(h)
        date    == CheckDate(h, o)
        first   == Counted(length, "messageLength")
        second  == first \cup Counted(subtype, "inconsistentSubType")
        all     == second \cup Counted(date, "inconsistentDate")
        compliant == /\ length # Corrupted /\ date # Corrupted
                     /\ subtype # Corrupted \/ o.ignoreType
        written == Transform(h, length[1].changes \o date[1].changes)
    IN  CASE section = Failed   -> Thrown({})
          [] section = Found(0) -> Verdict(FALSE, FALSE, {"missingKey"}, Failed)
          [] OTHER ->
              IF length = Failed THEN Thrown({})
              ELSE IF subtype = Failed THEN Thrown(first)
              ELSE IF date = Failed THEN Thrown(second)
              ELSE IF ~compliant THEN Verdict(FALSE, FALSE, all, Failed)
              ELSE IF written = Failed THEN Thrown(all)
              ELSE Verdict(FALSE, TRUE, all, Found(Raw(written[1])[1]))
----------------------------------------------------------------------------
(* The reader.                                                             *)

Ahead(f, from) == {s \in Copies(f) : s >= from}
First(f, from) == CHOOSE s \in Ahead(f, from) : \A t \in Ahead(f, from) : s <= t

Reading(outcome, at, message) == [outcome |-> outcome, position |-> at, message |-> message]

\* ecCodes skips what is no message and reads as much as the next one claims.
\* Where the stream ends after the letters, it takes that for its end.
ReadAny(f, from) ==
    LET s == First(f, from)
    IN  CASE Ahead(f, from) = {} -> Reading("end", f.length, Failed)
          [] Ahead(f, from) # {} /\ s + Header = f.length -> Reading("end", f.length, Failed)
          [] OTHER ->
              IF End(f, s) > f.length THEN Reading("broken", f.length, Failed)
              ELSE IF s \in Sound(f) THEN Reading("message", End(f, s), f.copies[s].message)
              ELSE Reading("wrongLength", End(f, s), Failed)

\* A read fails before anything of a message was read, or after its letters.
FailedReads(f, from) ==
    {Reading("cannotRead", at, Failed) :
        at \in {from} \cup {First(f, from) + Header : s \in Ahead(f, from)}}

(* mutant: the reader stays behind the broken message *)
AfterStaying(read) == read.position

\* CodesSplitter::next(): after a wrong length the reader goes back to where it
\* was and past the letters of a message, to find those within the broken one.
After(read) ==
    IF HandleFromStream(read).throws = Found("CodesWrongLength") THEN position + Header
    ELSE read.position
----------------------------------------------------------------------------
(* The tool.                                                               *)

\* The reader of a file is chosen by its first letters; without one it throws.
HasSplitter(f) == 0 \in Copies(f) /\ SplitterMatches(f.copies[0].message)

Counters == {"missingKey", "messageLength", "inconsistentSubType", "inconsistentDate"}

Init ==
    /\ stream \in Streams
    /\ \E args \in Arguments :
          IF OptionsOf(args) = Failed \/ ~HasSplitter(stream)
          THEN options = NoKeys /\ state = "refused"
          ELSE options = OptionsOf(args)[1] /\ state = "reading"
    /\ position = 0 /\ pos = 0
    /\ current = Failed
    /\ output = <<>>
    /\ counts = [c \in Counters |-> 0] /\ warnings = 0
    /\ met = <<>> /\ lost = {}

(* mutant: the loop goes on as long as it can *)
OnwardsForever(from, to) == "reading"

\* The loop ends where the reader has not moved.
Onwards(from, to) == IF from = to THEN "done" ELSE "reading"

CanFail == Cardinality({l \in lost : l[1] = "cannotRead"}) < MaxReadErrors

Read ==
    /\ state = "reading"
    /\ pos' = position
    /\ \E read \in {ReadAny(stream, position)}
                   \cup (IF CanFail THEN FailedReads(stream, position) ELSE {}) :
          LET made == HandleFromStream(read)
          IN  /\ position' = After(read)
              /\ current' = made.handle
              /\ state' = IF made.handle # Failed THEN "checking" ELSE Onwards(position, After(read))
              /\ warnings' = IF made.throws # Failed THEN warnings + 1 ELSE warnings
              /\ met' = IF made.handle # Failed THEN Append(met, First(stream, position)) ELSE met
              /\ lost' = IF read.outcome \in {"broken", "cannotRead"}
                         THEN lost \cup {<<read.outcome, position>>} ELSE lost
    /\ UNCHANGED <<stream, options, output, counts>>

\* The message is copied into a handle of its own, whose content, which passes
\* every access on to it, has its offset.
Content == HandleFromMessage(Raw(current[1]))

CheckMessage ==
    /\ state = "checking"
    /\ LET verdict == IF KeyLong(Content, "offset") = Failed THEN Thrown({})
                      ELSE Check(Content, options)
       IN  /\ output' = output \o verdict.written
           /\ counts' = [c \in Counters |-> IF c \in verdict.counted THEN counts[c] + 1 ELSE counts[c]]
           /\ warnings' = IF verdict.throws THEN warnings + 1 ELSE warnings
           /\ state' = IF ~verdict.throws /\ ~verdict.compliant /\ options.abort THEN "aborted"
                       ELSE Onwards(pos, position)
    /\ current' = Failed
    /\ UNCHANGED <<stream, options, position, pos, met, lost>>

Next == Read \/ CheckMessage

Spec == Init /\ [][Next]_vars
----------------------------------------------------------------------------
(* Properties                                                              *)

Within(f, s, t) == s < t /\ t < End(f, s)

(* The sound messages of a stream, but for what looks like one within the  *)
(* data of another.                                                        *)
Messages(f) == {t \in Sound(f) : \A s \in Sound(f) : ~Within(f, s, t)}

Checked == {met[i] : i \in DOMAIN met}

(* Every sound message of the stream is checked, once and in the order of  *)
(* the stream, whatever lies between them: a broken message that reaches   *)
(* over sound ones hides none of them (METK-103), and neither do letters   *)
(* without a message.  Only where a read fails, or a message claims to go  *)
(* on behind the end of the stream, is there no way back.                  *)
EachSoundMessageMet ==
    /\ \A i, j \in DOMAIN met : i < j => met[i] < met[j]
    /\ Checked \subseteq Sound(stream)
    /\ state = "done" /\ lost = {} => Messages(stream) \subseteq Checked

(* A message that is not written is in the final report, by a counter or   *)
(* by a warning: none disappears.                                          *)
NotWrittenIsReported ==
    Len(met) <= Len(output) + warnings
                + counts["missingKey"] + counts["messageLength"]
                + counts["inconsistentSubType"] + counts["inconsistentDate"]
                + (IF state = "checking" THEN 1 ELSE 0)

(* What is written can be archived: in what the BUFR decoder gathers of it, *)
(* section 2 has the length of the message, its type is that of the        *)
(* subtype, and its date is that of section 1, up to the threshold, or to  *)
(* the seconds that edition 3 does not have; but for what the options      *)
(* leave to the user.  A second 60 is accepted in section 2 and copied.    *)
Tolerance(v) ==
    IF GetOr(v, "edition", 4)[1] = 3 /\ options.timeThreshold < 60 THEN 60
    ELSE options.timeThreshold

WrittenIsClean ==
    \A i \in DOMAIN output :
        LET v == MetadataBUFR(Found(output[i]), "Native")[1]
        IN  /\ v.localSectionPresent # 0
            /\ v.totalLength = v.messageLength \/ v.totalLength >= WrongKeyLength
            /\ ~options.ignoreType => TypeBySubtype(v.oldSubtype) = Found(v.rdbType)
            /\ ~options.ignoreDate =>
                   /\ LocalDateOk(v) /\ LocalTimeOk(v)
                   /\ TypicalDateOk(v, options)
                   /\ v.localSecond # 60 => TypicalTimeOk(v)
                   /\ ~FurtherApart(v, options, Tolerance(v))

(* The tool ends: every message it meets, and every one it goes back into, *)
(* takes it further into the stream and never behind its end, and where    *)
(* the reader does not move the loop is left.                              *)
ReadsOn ==
    [][/\ position' \in position .. stream.length
       /\ state = "reading" => position' > position \/ state' = "done"
       /\ state = "checking" => state' # "checking"]_vars
=============================================================================
