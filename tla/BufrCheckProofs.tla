----------------------------- MODULE BufrCheckProofs -----------------------------
(***************************************************************************)
(* What BufrCheck promises for every collection of streams: each sound     *)
(* message is checked, what is not written is reported, and the tool reads *)
(* on to the end of the stream.                                            *)
(***************************************************************************)
EXTENDS BufrCheck, SequenceTheorems, WellFoundedInduction, NaturalsInduction, TLAPS

(* The places of a stream are natural numbers, so that there is a first one.*)
LessThan == {p \in Nat \X Nat : p[1] < p[2]}

LEMMA LessThanWellFounded == IsWellFoundedOn(LessThan, Nat)
  <1>1. LessThan = OpToRel(<, Nat)
    BY Zenon DEF LessThan, OpToRel
  <1>2. QED
    BY <1>1, NatLessThanWellFounded, Zenon

LEMMA SmallestExists ==
  ASSUME NEW S, S \subseteq Nat, S # {}
  PROVE  \E x \in S : \A y \in S : x <= y
  <1>1. PICK x \in S : \A y \in S : ~(<<y, x>> \in LessThan)
    BY LessThanWellFounded, WFMin, Zenon
  <1>2. \A y \in S : ~(y < x)
    <2>1. SUFFICES ASSUME NEW y \in S, y < x
                   PROVE  FALSE
      OBVIOUS
    <2>2. y \in Nat /\ x \in Nat
      OBVIOUS
    <2>3. <<y, x>> \in LessThan
      BY <2>1, <2>2 DEF LessThan
    <2>4. QED
      BY <2>3, <1>1
  <1>3. \A y \in S : y \in Nat /\ x \in Nat
    OBVIOUS
  <1>4. QED
    BY <1>2, <1>3
----------------------------------------------------------------------------
(* The reader.                                                             *)

LEMMA HeaderIsPositive == Header \in Nat /\ Header > 0
  BY StreamsAssumption

LEMMA FirstIsFirst ==
  ASSUME NEW f \in Streams, NEW from \in Nat, Ahead(f, from) # {}
  PROVE  /\ First(f, from) \in Copies(f)
         /\ First(f, from) \in Nat
         /\ First(f, from) >= from
         /\ \A t \in Copies(f) : t >= from => First(f, from) <= t
  <1>1. Ahead(f, from) \subseteq Nat
    BY StreamsAssumption DEF Ahead
  <1>2. \E x \in Ahead(f, from) : \A y \in Ahead(f, from) : x <= y
    BY <1>1, SmallestExists
  <1>3. /\ First(f, from) \in Ahead(f, from)
        /\ \A y \in Ahead(f, from) : First(f, from) <= y
    BY <1>2 DEF First
  <1>4. QED
    BY <1>1, <1>3 DEF Ahead

(* What a place of a stream is.                                            *)
LEMMA PlaceFacts ==
  ASSUME NEW f \in Streams, NEW s \in Copies(f)
  PROVE  /\ f.length \in Nat /\ s \in Nat
         /\ f.copies[s].claimed \in Nat
         /\ End(f, s) \in Nat /\ s + Header <= End(f, s)
         /\ s + Header <= f.length
         /\ s \in Sound(f) => s + Header < End(f, s) /\ End(f, s) <= f.length
         /\ \A t \in Copies(f) : s < t => s + Header <= t
  <1>1. /\ f.length \in Nat /\ s \in Nat
        /\ f.copies[s].claimed \in Nat /\ f.copies[s].claimed >= Header
        /\ s + Header <= f.length
        /\ s \in Sound(f) => f.copies[s].claimed > Header /\ End(f, s) <= f.length
        /\ \A t \in Copies(f) : s < t => s + Header <= t
    BY StreamsAssumption
  <1>2. QED
    BY <1>1, HeaderIsPositive DEF End

Outcomes == {"end", "broken", "message", "wrongLength", "cannotRead"}

(* The five ways a read may end, and where it leaves the reader.           *)
ReadsTo(f, from, read) ==
    \/ /\ read.outcome = "end" /\ read.position = f.length
       /\ \A t \in Sound(f) : t < from
    \/ read.outcome = "broken" /\ read.position = f.length
    \/ /\ read.outcome = "message"
       /\ Ahead(f, from) # {} /\ First(f, from) \in Sound(f)
       /\ read.position = End(f, First(f, from))
    \/ /\ read.outcome = "wrongLength"
       /\ Ahead(f, from) # {} /\ First(f, from) \notin Sound(f)
    \/ read.outcome = "cannotRead" /\ read.position \in from .. f.length

LEMMA ReadAnyReadsTo ==
  ASSUME NEW f \in Streams, NEW from \in Nat
  PROVE  ReadsTo(f, from, ReadAny(f, from))
  <1> DEFINE s == First(f, from)
  <1>1. CASE Ahead(f, from) = {}
    <2>1. ReadAny(f, from) = Reading("end", f.length, Failed)
      BY <1>1 DEF ReadAny
    <2>2. \A t \in Sound(f) : t < from
      <3>1. SUFFICES ASSUME NEW t \in Sound(f) PROVE t < from
        OBVIOUS
      <3>2. t \in Copies(f) /\ t \notin Ahead(f, from)
        BY <1>1 DEF Sound
      <3>3. t \in Nat
        BY <3>2, PlaceFacts
      <3>4. QED
        BY <3>2, <3>3 DEF Ahead
    <2>3. QED
      BY <2>1, <2>2 DEF ReadsTo, Reading
  <1>2. CASE Ahead(f, from) # {} /\ s + Header = f.length
    <2>1. ReadAny(f, from) = Reading("end", f.length, Failed)
      BY <1>2 DEF ReadAny
    <2>2. \A t \in Sound(f) : t < from
      <3>1. SUFFICES ASSUME NEW t \in Sound(f), ~(t < from) PROVE FALSE
        OBVIOUS
      <3>2. t \in Copies(f)
        BY DEF Sound
      <3>3. /\ t \in Nat /\ End(f, t) \in Nat /\ f.length \in Nat
            /\ t + Header < End(f, t) /\ End(f, t) <= f.length
        BY <3>2, PlaceFacts
      <3>4. s \in Nat /\ s <= t
        BY <1>2, <3>1, <3>2, <3>3, FirstIsFirst
      <3>5. QED
        BY <1>2, <3>3, <3>4, HeaderIsPositive
    <2>3. QED
      BY <2>1, <2>2 DEF ReadsTo, Reading
  <1>3. CASE Ahead(f, from) # {} /\ s + Header # f.length
    <2>1. ReadAny(f, from) =
            IF End(f, s) > f.length THEN Reading("broken", f.length, Failed)
            ELSE IF s \in Sound(f) THEN Reading("message", End(f, s), f.copies[s].message)
            ELSE Reading("wrongLength", End(f, s), Failed)
      BY <1>3 DEF ReadAny
    <2>2. CASE End(f, s) > f.length
      <3>1. ReadAny(f, from) = Reading("broken", f.length, Failed)
        BY <2>1, <2>2
      <3>2. QED
        BY <3>1 DEF ReadsTo, Reading
    <2>3. CASE ~(End(f, s) > f.length) /\ s \in Sound(f)
      <3>1. ReadAny(f, from) = Reading("message", End(f, s), f.copies[s].message)
        BY <2>1, <2>3
      <3>2. QED
        BY <3>1, <2>3, <1>3 DEF ReadsTo, Reading
    <2>4. CASE ~(End(f, s) > f.length) /\ s \notin Sound(f)
      <3>1. ReadAny(f, from) = Reading("wrongLength", End(f, s), Failed)
        BY <2>1, <2>4
      <3>2. ReadAny(f, from).outcome = "wrongLength"
        BY <3>1 DEF Reading
      <3>3. QED
        BY <3>2, <2>4, <1>3 DEF ReadsTo
    <2>5. QED
      BY <2>2, <2>3, <2>4
  <1>4. QED
    BY <1>1, <1>2, <1>3

LEMMA FailedReadsReadTo ==
  ASSUME NEW f \in Streams, NEW from \in Nat, from <= f.length, NEW read \in FailedReads(f, from)
  PROVE  ReadsTo(f, from, read)
  <1>1. PICK at \in {from} \cup {First(f, from) + Header : s \in Ahead(f, from)} :
               read = Reading("cannotRead", at, Failed)
    BY DEF FailedReads
  <1>2. at \in from .. f.length
    <2>1. CASE at = from
      <3>1. f.length \in Nat
        BY StreamsAssumption
      <3>2. QED
        BY <2>1, <3>1
    <2>2. CASE Ahead(f, from) # {} /\ at = First(f, from) + Header
      <3>1. First(f, from) \in Copies(f) /\ First(f, from) >= from
        BY <2>2, FirstIsFirst
      <3>2. First(f, from) \in Nat /\ f.length \in Nat /\ First(f, from) + Header <= f.length
        BY <3>1, PlaceFacts
      <3>3. QED
        BY <2>2, <3>1, <3>2, HeaderIsPositive
    <2>3. QED
      BY <1>1, <2>1, <2>2
  <1>3. read.outcome = "cannotRead" /\ read.position = at
    BY <1>1 DEF Reading
  <1>4. QED
    BY <1>2, <1>3 DEF ReadsTo

(* A handle is made of a message, and nothing else; where one is made      *)
(* nothing is thrown, and a wrong length alone is thrown as that.          *)
LEMMA StreamHandles ==
  ASSUME NEW read, read.outcome \in Outcomes
  PROVE  /\ HandleFromStream(read).handle # Failed <=> read.outcome = "message"
         /\ HandleFromStream(read).throws # Failed <=> read.outcome \notin {"end", "message"}
         /\ HandleFromStream(read).throws = Found("CodesWrongLength")
              <=> read.outcome = "wrongLength"
  <1>1. /\ HandleFromStream(read).throws = CodeOf(read.outcome)
        /\ HandleFromStream(read).handle
             = If(read.outcome = "message", Handle(Found(read.message), TRUE))
    BY DEF HandleFromStream
  <1>2. CASE read.outcome = "end"
    <2>1. CodeOf(read.outcome) = Failed
      BY <1>2 DEF CodeOf
    <2>2. QED
      BY <1>1, <1>2, <2>1 DEF If, Failed, Found
  <1>3. CASE read.outcome = "broken"
    <2>1. CodeOf(read.outcome) = Found("CodesException")
      BY <1>3 DEF CodeOf
    <2>2. QED
      BY <1>1, <1>3, <2>1 DEF If, Failed, Found
  <1>4. CASE read.outcome = "message"
    <2>1. CodeOf(read.outcome) = Failed
      BY <1>4 DEF CodeOf
    <2>2. QED
      BY <1>1, <1>4, <2>1 DEF If, Failed, Found
  <1>5. CASE read.outcome = "wrongLength"
    <2>1. CodeOf(read.outcome) = Found("CodesWrongLength")
      BY <1>5 DEF CodeOf
    <2>2. HandleFromStream(read).handle = Failed
      BY <1>1, <1>5 DEF If, Failed
    <2>3. HandleFromStream(read).throws = <<"CodesWrongLength">>
      BY <1>1, <2>1 DEF Found
    <2>4. QED
      BY <1>5, <2>2, <2>3 DEF Failed, Found
  <1>6. CASE read.outcome = "cannotRead"
    <2>1. CodeOf(read.outcome) = Found("ReadError")
      BY <1>6 DEF CodeOf
    <2>2. HandleFromStream(read).handle = Failed
      BY <1>1, <1>6 DEF If, Failed
    <2>3. HandleFromStream(read).throws = <<"ReadError">>
      BY <1>1, <2>1 DEF Found
    <2>4. QED
      BY <1>6, <2>2, <2>3 DEF Failed, Found
  <1>7. QED
    BY <1>2, <1>3, <1>4, <1>5, <1>6 DEF Outcomes
----------------------------------------------------------------------------
(* One message.                                                            *)

LEMMA StatusIsCounted ==
  ASSUME NEW status, NEW name
  PROVE  /\ Counted(status, name) \subseteq {name}
         /\ status = Corrupted => name \in Counted(status, name)
  <1>1. Corrupted # Failed /\ Corrupted[1].status # "OK"
    BY DEF Corrupted, Status, Found, Failed
  <1>2. QED
    BY <1>1 DEF Counted

(* What a check answers, in the order of the checks.                       *)
LEMMA CheckCases ==
  ASSUME NEW h, NEW o
  PROVE  \/ \E c \in SUBSET Counters : Check(h, o) = Thrown(c)
         \/ \E c \in SUBSET Counters :
               c # {} /\ Check(h, o) = Verdict(FALSE, FALSE, c, Failed)
         \/ \E c \in SUBSET Counters : \E m : Check(h, o) = Verdict(FALSE, TRUE, c, Found(m))
  <1> DEFINE section == KeyLong(h, "localSectionPresent")
             length  == CheckMessageLength(h, o)
             subtype == CheckSubType(h)
             date    == CheckDate(h, o)
             first   == Counted(length, "messageLength")
             second  == first \cup Counted(subtype, "inconsistentSubType")
             all     == second \cup Counted(date, "inconsistentDate")
             compliant == /\ length # Corrupted /\ date # Corrupted
                          /\ subtype # Corrupted \/ o.ignoreType
             written == Transform(h, length[1].changes \o date[1].changes)
             checked == IF length = Failed THEN Thrown({})
                        ELSE IF subtype = Failed THEN Thrown(first)
                        ELSE IF date = Failed THEN Thrown(second)
                        ELSE IF ~compliant THEN Verdict(FALSE, FALSE, all, Failed)
                        ELSE IF written = Failed THEN Thrown(all)
                        ELSE Verdict(FALSE, TRUE, all, Found(Raw(written[1])[1]))
  <1>1. Check(h, o) = CASE section = Failed   -> Thrown({})
                        [] section = Found(0) -> Verdict(FALSE, FALSE, {"missingKey"}, Failed)
                        [] OTHER              -> checked
    BY Zenon DEF Check
  <1>2. first \in SUBSET Counters /\ second \in SUBSET Counters /\ all \in SUBSET Counters
    BY StatusIsCounted DEF Counters
  <1>3. ~compliant => all # {}
    BY StatusIsCounted
  <1>4. {} \in SUBSET Counters /\ {"missingKey"} \in SUBSET Counters /\ {"missingKey"} # {}
    BY DEF Counters
  <1>5. Failed # Found(0)
    BY DEF Failed, Found
  <1> HIDE DEF section, length, subtype, date, first, second, all, compliant, written
  <1>6. CASE section = Failed
    <2>1. Check(h, o) = Thrown({})
      BY <1>1, <1>5, <1>6, Zenon
    <2>2. QED
      BY <2>1, <1>4
  <1>7. CASE section = Found(0)
    <2>1. Check(h, o) = Verdict(FALSE, FALSE, {"missingKey"}, Failed)
      BY <1>1, <1>5, <1>7, Zenon
    <2>2. QED
      BY <2>1, <1>4
  <1>8. CASE section # Failed /\ section # Found(0)
    <2>1. Check(h, o) = checked
      BY <1>1, <1>8, Zenon
    <2>2. CASE length = Failed
      BY <2>1, <2>2, <1>4
    <2>3. CASE length # Failed /\ subtype = Failed
      BY <2>1, <2>3, <1>2
    <2>4. CASE length # Failed /\ subtype # Failed /\ date = Failed
      BY <2>1, <2>4, <1>2
    <2>5. CASE length # Failed /\ subtype # Failed /\ date # Failed /\ ~compliant
      BY <2>1, <2>5, <1>2, <1>3
    <2>6. CASE length # Failed /\ subtype # Failed /\ date # Failed /\ compliant /\ written = Failed
      BY <2>1, <2>6, <1>2
    <2>7. CASE length # Failed /\ subtype # Failed /\ date # Failed /\ compliant /\ written # Failed
      BY <2>1, <2>7, <1>2
    <2>8. QED
      BY <2>2, <2>3, <2>4, <2>5, <2>6, <2>7
  <1>9. QED
    BY <1>6, <1>7, <1>8

(* A message is written, or has thrown, or has been counted.               *)
IsReported(v) ==
    /\ v.throws \in BOOLEAN /\ v.compliant \in BOOLEAN
    /\ v.counted \in SUBSET Counters
    /\ v.written = <<>> \/ \E m : v.written = <<m>>
    /\ v.throws \/ v.counted # {} \/ v.written # <<>>

LEMMA ThrownIsReported ==
  ASSUME NEW c \in SUBSET Counters
  PROVE  IsReported(Thrown(c))
  BY DEF IsReported, Thrown, Verdict, Failed

LEMMA CheckIsReported ==
  ASSUME NEW h, NEW o
  PROVE  IsReported(Check(h, o))
  <1>1. CASE \E c \in SUBSET Counters : Check(h, o) = Thrown(c)
    BY <1>1, ThrownIsReported
  <1>2. CASE \E c \in SUBSET Counters :
               c # {} /\ Check(h, o) = Verdict(FALSE, FALSE, c, Failed)
    BY <1>2 DEF IsReported, Verdict, Failed
  <1>3. CASE \E c \in SUBSET Counters : \E m : Check(h, o) = Verdict(FALSE, TRUE, c, Found(m))
    <2>1. PICK c \in SUBSET Counters : \E m : Check(h, o) = Verdict(FALSE, TRUE, c, Found(m))
      BY <1>3
    <2>m. PICK m : Check(h, o) = Verdict(FALSE, TRUE, c, Found(m))
      BY <2>1
    <2>2. /\ Check(h, o).throws = FALSE /\ Check(h, o).compliant = TRUE
          /\ Check(h, o).counted = c /\ Check(h, o).written = <<m>>
      BY <2>m DEF Verdict, Found
    <2>3. Check(h, o).written # <<>> /\ \E n : Check(h, o).written = <<n>>
      BY <2>2
    <2>4. QED
      BY <2>2, <2>3 DEF IsReported
  <1>4. QED
    BY <1>1, <1>2, <1>3, CheckCases
----------------------------------------------------------------------------
(* The inductive invariant of the reader.  A message that was checked lies *)
(* behind the reader as a whole; a message that was not lies ahead of it;  *)
(* and the loop is only left at the end of the stream.                     *)
Passed(i) == met[i] \in Sound(stream) /\ End(stream, met[i]) <= position

ReaderInv ==
    /\ stream \in Streams
    /\ position \in Nat /\ position <= stream.length
    /\ pos \in Nat /\ (state = "checking" => pos < position)
    /\ state \in {"reading", "checking", "done", "aborted", "refused"}
    /\ met \in Seq(Nat)
    /\ \A i \in DOMAIN met : Passed(i)
    /\ \A i, j \in DOMAIN met : i < j => met[i] < met[j]
    /\ lost = {} => \A t \in Messages(stream) : t \in Checked \/ position <= t
    /\ lost = {} /\ state = "done" => position = stream.length

LEMMA InitReader == Init => ReaderInv
  <1>1. SUFFICES ASSUME Init PROVE ReaderInv
    OBVIOUS
  <1>2. /\ stream \in Streams /\ position = 0 /\ pos = 0 /\ met = <<>>
        /\ state \in {"reading", "refused"}
    BY <1>1 DEF Init
  <1>3. stream.length \in Nat
    BY <1>2, StreamsAssumption
  <1>4. \A t \in Messages(stream) : position <= t
    BY <1>2, PlaceFacts DEF Messages, Sound
  <1>5. QED
    BY <1>2, <1>3, <1>4 DEF ReaderInv

(* Where a read leaves the reader, and what it may have passed.            *)
LEMMA ReadMovesOn ==
  ASSUME ReaderInv, NEW read, ReadsTo(stream, position, read)
  PROVE  /\ After(read) \in Nat /\ position <= After(read) /\ After(read) <= stream.length
         /\ read.outcome \in Outcomes
         /\ read.outcome = "message" =>
               /\ First(stream, position) \in Sound(stream)
               /\ position <= First(stream, position)
               /\ position < After(read)
               /\ After(read) = End(stream, First(stream, position))
               /\ \A t \in Messages(stream) :
                     position <= t => t = First(stream, position) \/ After(read) <= t
         /\ read.outcome = "wrongLength" =>
               /\ position < After(read)
               /\ \A t \in Messages(stream) : position <= t => After(read) <= t
         /\ read.outcome = "end" =>
               /\ After(read) = stream.length
               /\ \A t \in Messages(stream) : t < position
  <1> DEFINE s == First(stream, position)
  <1>1. stream \in Streams /\ position \in Nat /\ position <= stream.length
    BY DEF ReaderInv
  <1>2. stream.length \in Nat
    BY <1>1, StreamsAssumption
  <1>3. \A t \in Messages(stream) : t \in Sound(stream) /\ t \in Copies(stream) /\ t \in Nat
    BY <1>1, PlaceFacts DEF Messages, Sound
  <1>4. read.outcome \in Outcomes
    BY DEF ReadsTo, Outcomes
  <1>5. After(read) = IF read.outcome = "wrongLength" THEN position + Header ELSE read.position
    BY <1>4, StreamHandles DEF After
  <1>6. CASE read.outcome = "end"
    <2>1. /\ read.position = stream.length /\ \A t \in Sound(stream) : t < position
      BY <1>6 DEF ReadsTo
    <2>2. After(read) = stream.length
      BY <1>5, <1>6, <2>1
    <2>3. QED
      BY <1>1, <1>2, <1>3, <1>4, <1>6, <2>1, <2>2
  <1>7. CASE read.outcome = "broken"
    <2>1. read.position = stream.length
      BY <1>7 DEF ReadsTo
    <2>2. After(read) = stream.length
      BY <1>5, <1>7, <2>1
    <2>3. QED
      BY <1>1, <1>2, <1>4, <1>7, <2>2
  <1>8. CASE read.outcome = "cannotRead"
    <2>1. read.position \in position .. stream.length
      BY <1>8 DEF ReadsTo
    <2>2. After(read) = read.position
      BY <1>5, <1>8
    <2>3. QED
      BY <1>1, <1>2, <1>4, <1>8, <2>1, <2>2
  <1>9. CASE read.outcome = "message"
    <2>1. Ahead(stream, position) # {} /\ s \in Sound(stream) /\ read.position = End(stream, s)
      BY <1>9 DEF ReadsTo
    <2>2. /\ s \in Copies(stream) /\ s \in Nat /\ s >= position
          /\ \A t \in Copies(stream) : t >= position => s <= t
      BY <1>1, <2>1, FirstIsFirst
    <2>3. End(stream, s) \in Nat /\ s + Header < End(stream, s) /\ End(stream, s) <= stream.length
      BY <1>1, <2>1, <2>2, PlaceFacts
    <2>4. After(read) = End(stream, s)
      BY <1>5, <1>9, <2>1
    <2>5. ASSUME NEW t \in Messages(stream), position <= t
          PROVE  t = s \/ End(stream, s) <= t
      <3>1. t \in Nat /\ t \in Copies(stream) /\ ~Within(stream, s, t)
        BY <1>3, <2>1 DEF Messages
      <3>2. s <= t
        BY <1>1, <2>2, <2>5, <3>1
      <3>3. QED
        BY <2>2, <2>3, <3>1, <3>2 DEF Within
    <2>6. QED
      BY <1>1, <1>2, <1>4, <1>9, <2>1, <2>2, <2>3, <2>4, <2>5, HeaderIsPositive
  <1>10. CASE read.outcome = "wrongLength"
    <2>1. Ahead(stream, position) # {} /\ s \notin Sound(stream)
      BY <1>10 DEF ReadsTo
    <2>2. /\ s \in Copies(stream) /\ s \in Nat /\ s >= position
          /\ \A t \in Copies(stream) : t >= position => s <= t
      BY <1>1, <2>1, FirstIsFirst
    <2>3. /\ s + Header <= stream.length
          /\ \A t \in Copies(stream) : s < t => s + Header <= t
      BY <1>1, <2>2, PlaceFacts
    <2>4. After(read) = position + Header
      BY <1>5, <1>10
    <2>5. ASSUME NEW t \in Messages(stream), position <= t
          PROVE  position + Header <= t
      <3>1. t \in Nat /\ t \in Copies(stream) /\ t # s
        BY <1>3, <2>1
      <3>2. s <= t
        BY <1>1, <2>2, <2>5, <3>1
      <3>3. s + Header <= t
        BY <2>2, <2>3, <3>1, <3>2
      <3>4. QED
        BY <1>1, <2>2, <3>1, <3>3, HeaderIsPositive
    <2>6. QED
      BY <1>1, <1>2, <1>4, <1>10, <2>2, <2>3, <2>4, <2>5, HeaderIsPositive
  <1>11. QED
    BY <1>4, <1>6, <1>7, <1>8, <1>9, <1>10 DEF Outcomes
----------------------------------------------------------------------------
(* The steps.                                                              *)

(* What a read does, by its outcome.                                       *)
ReadDoes(read) ==
    /\ stream' = stream /\ output' = output /\ counts' = counts
    /\ pos' = position /\ position' = After(read)
    /\ state' = IF read.outcome = "message" THEN "checking" ELSE Onwards(position, After(read))
    /\ warnings' = IF read.outcome \in {"end", "message"} THEN warnings ELSE warnings + 1
    /\ met' = IF read.outcome = "message" THEN Append(met, First(stream, position)) ELSE met
    /\ lost' = IF read.outcome \in {"broken", "cannotRead"}
               THEN lost \cup {<<read.outcome, position>>} ELSE lost

LEMMA ReadCases ==
  ASSUME ReaderInv, Read
  PROVE  \E read : ReadsTo(stream, position, read) /\ ReadDoes(read)
  <1> DEFINE Reads == {ReadAny(stream, position)}
                       \cup (IF CanFail THEN FailedReads(stream, position) ELSE {})
  <1>1. PICK read \in Reads :
          /\ position' = After(read)
          /\ state' = IF HandleFromStream(read).handle # Failed THEN "checking"
                      ELSE Onwards(position, After(read))
          /\ warnings' = IF HandleFromStream(read).throws # Failed THEN warnings + 1 ELSE warnings
          /\ met' = IF HandleFromStream(read).handle # Failed
                    THEN Append(met, First(stream, position)) ELSE met
          /\ lost' = IF read.outcome \in {"broken", "cannotRead"}
                     THEN lost \cup {<<read.outcome, position>>} ELSE lost
    BY DEF Read
  <1>2. /\ stream' = stream /\ output' = output /\ counts' = counts /\ pos' = position
    BY DEF Read
  <1>3. stream \in Streams /\ position \in Nat /\ position <= stream.length
    BY DEF ReaderInv
  <1>4. ReadsTo(stream, position, read)
    <2>1. CASE read = ReadAny(stream, position)
      BY <2>1, <1>3, ReadAnyReadsTo
    <2>2. CASE read \in FailedReads(stream, position)
      BY <2>2, <1>3, FailedReadsReadTo
    <2>3. QED
      BY <2>1, <2>2
  <1>5. read.outcome \in Outcomes
    BY <1>4 DEF ReadsTo, Outcomes
  <1>6. /\ HandleFromStream(read).handle # Failed <=> read.outcome = "message"
        /\ HandleFromStream(read).throws # Failed <=> read.outcome \notin {"end", "message"}
    BY <1>5, StreamHandles
  <1>7. ReadDoes(read)
    BY <1>1, <1>2, <1>6 DEF ReadDoes
  <1>8. QED
    BY <1>4, <1>7

LEMMA CheckSteps ==
  ASSUME CheckMessage
  PROVE  /\ state = "checking" /\ stream' = stream /\ position' = position /\ pos' = pos
         /\ met' = met /\ lost' = lost
         /\ state' = "aborted" \/ state' = Onwards(pos, position)
         /\ \E v : /\ IsReported(v)
                   /\ output' = output \o v.written
                   /\ counts' = [c \in Counters |->
                                    IF c \in v.counted THEN counts[c] + 1 ELSE counts[c]]
                   /\ warnings' = IF v.throws THEN warnings + 1 ELSE warnings
  <1> DEFINE v == IF KeyLong(Content, "offset") = Failed THEN Thrown({})
                  ELSE Check(Content, options)
  <1>1. /\ output' = output \o v.written
        /\ counts' = [c \in Counters |-> IF c \in v.counted THEN counts[c] + 1 ELSE counts[c]]
        /\ warnings' = IF v.throws THEN warnings + 1 ELSE warnings
        /\ state' = IF ~v.throws /\ ~v.compliant /\ options.abort THEN "aborted"
                    ELSE Onwards(pos, position)
    BY DEF CheckMessage
  <1>2. {} \in SUBSET Counters
    OBVIOUS
  <1>3. IsReported(v)
    BY <1>2, ThrownIsReported, CheckIsReported
  <1>4. /\ state = "checking" /\ stream' = stream /\ position' = position /\ pos' = pos
        /\ met' = met /\ lost' = lost
    BY DEF CheckMessage
  <1> HIDE DEF v
  <1>5. state' = "aborted" \/ state' = Onwards(pos, position)
    BY <1>1
  <1>6. QED
    BY <1>1, <1>3, <1>4, <1>5

LEMMA MetOf ==
  ASSUME met \in Seq(Nat), NEW s \in Nat, met' = Append(met, s)
  PROVE  /\ met' \in Seq(Nat) /\ Len(met') = Len(met) + 1
         /\ DOMAIN met' = DOMAIN met \cup {Len(met) + 1}
         /\ DOMAIN met = 1 .. Len(met) /\ Len(met) \in Nat
         /\ \A i \in DOMAIN met : met'[i] = met[i]
         /\ met'[Len(met) + 1] = s
         /\ Checked' = Checked \cup {s}
  <1>1. /\ met' \in Seq(Nat) /\ Len(met') = Len(met) + 1
        /\ DOMAIN met = 1 .. Len(met) /\ Len(met) \in Nat
        /\ DOMAIN met' = 1 .. Len(met) + 1
        /\ \A i \in 1 .. Len(met) : met'[i] = met[i]
        /\ met'[Len(met) + 1] = s
    OBVIOUS
  <1>2. DOMAIN met' = DOMAIN met \cup {Len(met) + 1}
    BY <1>1
  <1>3. Checked' = Checked \cup {s}
    <2>1. Checked' = {met'[i] : i \in DOMAIN met'}
      BY DEF Checked
    <2>2. \A x : x \in Checked' <=> x \in Checked \cup {s}
      BY <1>1, <1>2, <2>1 DEF Checked
    <2>3. QED
      BY <2>2
  <1>4. QED
    BY <1>1, <1>2, <1>3

LEMMA ReadKeepsReader ==
  ASSUME ReaderInv, Read
  PROVE  ReaderInv'
  <1> DEFINE s == First(stream, position)
  <1>1. PICK read : ReadsTo(stream, position, read) /\ ReadDoes(read)
    BY ReadCases
  <1>2. /\ stream \in Streams /\ position \in Nat /\ met \in Seq(Nat)
        /\ \A i \in DOMAIN met : Passed(i)
        /\ \A i, j \in DOMAIN met : i < j => met[i] < met[j]
        /\ lost = {} => \A t \in Messages(stream) : t \in Checked \/ position <= t
    BY DEF ReaderInv
  <1>3. /\ stream' = stream /\ pos' = position /\ position' = After(read)
        /\ state' = IF read.outcome = "message" THEN "checking" ELSE Onwards(position, position')
        /\ met' = IF read.outcome = "message" THEN Append(met, s) ELSE met
        /\ lost' = IF read.outcome \in {"broken", "cannotRead"}
                   THEN lost \cup {<<read.outcome, position>>} ELSE lost
    BY <1>1 DEF ReadDoes
  <1>4. read.outcome \in Outcomes
    BY <1>1, ReadMovesOn
  <1>5. position' \in Nat /\ position <= position' /\ position' <= stream'.length
    BY <1>1, <1>3, ReadMovesOn
  <1>6. \A t \in Messages(stream) : t \in Nat
    BY <1>2, PlaceFacts DEF Messages, Sound
  <1>7. \A i \in DOMAIN met : met[i] \in Sound(stream) /\ met[i] \in Copies(stream)
                             /\ met[i] \in Nat /\ End(stream, met[i]) \in Nat
                             /\ met[i] < End(stream, met[i])
                             /\ End(stream, met[i]) <= position
    BY <1>2, PlaceFacts, HeaderIsPositive DEF Passed, Sound
  <1>8. state' \in {"checking", "reading", "done"}
    BY <1>3 DEF Onwards
  <1>9. CASE read.outcome = "message"
    <2>1. /\ s \in Sound(stream) /\ position <= s /\ position < position'
          /\ position' = End(stream, s)
          /\ \A t \in Messages(stream) : position <= t => t = s \/ position' <= t
      BY <1>1, <1>3, <1>9, ReadMovesOn
    <2>2. s \in Copies(stream) /\ s \in Nat
      BY <1>2, <2>1, PlaceFacts DEF Sound
    <2>3. met' = Append(met, s) /\ state' = "checking" /\ lost' = lost
      BY <1>3, <1>9
    <2>4. /\ met' \in Seq(Nat) /\ DOMAIN met' = DOMAIN met \cup {Len(met) + 1}
          /\ DOMAIN met = 1 .. Len(met) /\ Len(met) \in Nat
          /\ \A i \in DOMAIN met : met'[i] = met[i]
          /\ met'[Len(met) + 1] = s /\ Checked' = Checked \cup {s}
      BY <1>2, <2>2, <2>3, MetOf
    <2>5. \A i \in DOMAIN met' : Passed(i)'
      <3>1. SUFFICES ASSUME NEW i \in DOMAIN met' PROVE Passed(i)'
        OBVIOUS
      <3>2. met'[i] \in Sound(stream') /\ End(stream', met'[i]) <= position'
        BY <1>2, <1>3, <1>5, <1>7, <2>1, <2>4, <3>1
      <3>3. QED
        BY <3>2 DEF Passed
    <2>6. \A i, j \in DOMAIN met' : i < j => met'[i] < met'[j]
      <3>1. SUFFICES ASSUME NEW i \in DOMAIN met', NEW j \in DOMAIN met', i < j
                     PROVE  met'[i] < met'[j]
        OBVIOUS
      <3>2. i \in DOMAIN met
        BY <2>4, <3>1
      <3>3. CASE j \in DOMAIN met
        BY <1>2, <2>4, <3>1, <3>2, <3>3
      <3>4. CASE j = Len(met) + 1
        <4>1. met'[i] = met[i] /\ met'[j] = s
          BY <2>4, <3>2, <3>4
        <4>2. met[i] < s
          BY <1>2, <1>7, <2>1, <2>2, <3>2
        <4>3. QED
          BY <4>1, <4>2
      <3>5. QED
        BY <2>4, <3>3, <3>4
    <2>7. lost' = {} => \A t \in Messages(stream') : t \in Checked' \/ position' <= t
      BY <1>2, <1>3, <2>1, <2>3, <2>4
    <2>8. QED
      BY <1>2, <1>3, <1>5, <2>1, <2>3, <2>4, <2>5, <2>6, <2>7 DEF ReaderInv
  <1>10. CASE read.outcome # "message"
    <2>1. met' = met /\ Checked' = Checked
      BY <1>3, <1>10 DEF Checked
    <2>2. state' = Onwards(position, position')
      BY <1>3, <1>10
    <2>3. \A i \in DOMAIN met' : Passed(i)'
      BY <1>2, <1>3, <1>5, <1>7, <2>1 DEF Passed
    <2>4. ASSUME lost' = {}
          PROVE  /\ lost = {} /\ read.outcome \in {"end", "wrongLength"}
      BY <1>3, <1>4, <1>10, <2>4 DEF Outcomes
    <2>5. ASSUME lost' = {}, NEW t \in Messages(stream')
          PROVE  t \in Checked' \/ position' <= t
      <3>1. t \in Messages(stream) /\ (t \in Checked \/ position <= t)
        BY <1>2, <1>3, <2>4, <2>5
      <3>2. CASE read.outcome = "end"
        <4>1. \A u \in Messages(stream) : u < position
          BY <1>1, <3>2, ReadMovesOn
        <4>2. t \in Checked
          BY <1>2, <1>6, <3>1, <4>1
        <4>3. QED
          BY <2>1, <4>2
      <3>3. CASE read.outcome = "wrongLength"
        <4>1. \A u \in Messages(stream) : position <= u => position' <= u
          BY <1>1, <1>3, <3>3, ReadMovesOn
        <4>2. QED
          BY <2>1, <3>1, <4>1
      <3>4. QED
        BY <2>4, <2>5, <3>2, <3>3
    <2>6. ASSUME lost' = {}, state' = "done"
          PROVE  position' = stream'.length
      <3>1. CASE read.outcome = "end"
        BY <1>1, <1>3, <3>1, ReadMovesOn
      <3>2. CASE read.outcome = "wrongLength"
        <4>1. position < position'
          BY <1>1, <1>3, <3>2, ReadMovesOn
        <4>2. QED
          BY <1>2, <1>5, <2>2, <2>6, <4>1 DEF Onwards
      <3>3. QED
        BY <2>4, <2>6, <3>1, <3>2
    <2>7. state' # "checking"
      BY <2>2 DEF Onwards
    <2>8. QED
      BY <1>2, <1>3, <1>5, <1>8, <2>1, <2>3, <2>5, <2>6, <2>7 DEF ReaderInv
  <1>11. QED
    BY <1>9, <1>10

LEMMA CheckKeepsReader ==
  ASSUME ReaderInv, CheckMessage
  PROVE  ReaderInv'
  <1>1. /\ state = "checking" /\ stream' = stream /\ position' = position /\ pos' = pos
        /\ met' = met /\ lost' = lost
        /\ state' = "aborted" \/ state' = Onwards(pos, position)
    BY CheckSteps
  <1>2. pos \in Nat /\ position \in Nat /\ pos < position
    BY <1>1 DEF ReaderInv
  <1>3. state' \in {"aborted", "reading"}
    BY <1>1, <1>2 DEF Onwards
  <1>4. Checked' = Checked
    BY <1>1 DEF Checked
  <1>5. \A i \in DOMAIN met' : Passed(i)'
    BY <1>1 DEF ReaderInv, Passed
  <1>6. QED
    BY <1>1, <1>2, <1>3, <1>4, <1>5 DEF ReaderInv

LEMMA NextKeepsReader == ReaderInv /\ [Next]_vars => ReaderInv'
  <1>1. SUFFICES ASSUME ReaderInv, [Next]_vars PROVE ReaderInv'
    OBVIOUS
  <1>2. CASE Read
    BY <1>1, <1>2, ReadKeepsReader
  <1>3. CASE CheckMessage
    BY <1>1, <1>3, CheckKeepsReader
  <1>4. CASE UNCHANGED vars
    BY <1>1, <1>4 DEF vars, ReaderInv, Passed, Checked
  <1>5. QED
    BY <1>1, <1>2, <1>3, <1>4 DEF Next

LEMMA ReaderAlways == Spec => []ReaderInv
  BY InitReader, NextKeepsReader, PTL DEF Spec
----------------------------------------------------------------------------
(* Every sound message is checked, once and in order, for every collection *)
(* of streams: whatever lies between them, however much a broken message   *)
(* claims, as long as no read fails and none reaches behind the end.       *)
THEOREM SoundMessagesAreMet == Spec => []EachSoundMessageMet
  <1>1. ReaderInv => EachSoundMessageMet
    <2>1. SUFFICES ASSUME ReaderInv PROVE EachSoundMessageMet
      OBVIOUS
    <2>2. \A i, j \in DOMAIN met : i < j => met[i] < met[j]
      BY <2>1 DEF ReaderInv
    <2>3. Checked \subseteq Sound(stream)
      BY <2>1 DEF ReaderInv, Checked, Passed
    <2>4. ASSUME state = "done", lost = {}, NEW t \in Messages(stream)
          PROVE  t \in Checked
      <3>1. /\ stream \in Streams /\ position = stream.length
            /\ t \in Checked \/ position <= t
        BY <2>1, <2>4 DEF ReaderInv
      <3>2. t \in Copies(stream)
        BY DEF Messages, Sound
      <3>3. t \in Nat /\ stream.length \in Nat /\ t + Header <= stream.length
        BY <3>1, <3>2, PlaceFacts
      <3>4. QED
        BY <3>1, <3>3, HeaderIsPositive
    <2>5. QED
      BY <2>2, <2>3, <2>4 DEF EachSoundMessageMet
  <1>2. QED
    BY <1>1, ReaderAlways, PTL

(* Each step of the reader takes it further into the stream or leaves the  *)
(* loop, and none takes it behind the end of the stream.                   *)
THEOREM TheReaderReadsOn == Spec => ReadsOn
  <1> DEFINE Step == /\ position' \in position .. stream.length
                     /\ state = "reading" => position' > position \/ state' = "done"
                     /\ state = "checking" => state' # "checking"
  <1>1. ASSUME ReaderInv, Read
        PROVE  Step
    <2>1. PICK read : ReadsTo(stream, position, read) /\ ReadDoes(read)
      BY <1>1, ReadCases
    <2>2. /\ state = "reading" /\ position \in Nat /\ stream.length \in Nat
      BY <1>1, StreamsAssumption DEF Read, ReaderInv
    <2>3. position' \in Nat /\ position <= position' /\ position' <= stream.length
      BY <1>1, <2>1, ReadMovesOn DEF ReadDoes
    <2>4. CASE read.outcome = "message"
      <3>1. position < position'
        BY <1>1, <2>1, <2>4, ReadMovesOn DEF ReadDoes
      <3>2. QED
        BY <2>2, <2>3, <3>1
    <2>5. CASE read.outcome # "message"
      <3>1. state' = Onwards(position, position')
        BY <2>1, <2>5 DEF ReadDoes
      <3>2. QED
        BY <2>2, <2>3, <3>1 DEF Onwards
    <2>6. QED
      BY <2>4, <2>5
  <1>2. ASSUME ReaderInv, CheckMessage
        PROVE  Step
    <2>1. /\ state = "checking" /\ position' = position
          /\ state' = "aborted" \/ state' = Onwards(pos, position)
      BY <1>2, CheckSteps
    <2>2. position \in Nat /\ stream.length \in Nat /\ position <= stream.length
      BY <1>2, StreamsAssumption DEF ReaderInv
    <2>3. QED
      BY <2>1, <2>2 DEF Onwards
  <1>3. ReaderInv /\ [Next]_vars => [Step]_vars
    BY <1>1, <1>2 DEF Next
  <1> HIDE DEF Step
  <1>4. Spec => [][Step]_vars
    BY <1>3, ReaderAlways, PTL DEF Spec
  <1>5. QED
    BY <1>4 DEF Step, ReadsOn
----------------------------------------------------------------------------
(* The inductive invariant of the report.                                  *)
Pending == IF state = "checking" THEN 1 ELSE 0

Reported(c) == c["missingKey"] + c["messageLength"]
               + c["inconsistentSubType"] + c["inconsistentDate"]

ReportInv ==
    /\ met \in Seq(Nat)
    /\ \E S : output \in Seq(S)
    /\ warnings \in Nat
    /\ counts \in [Counters -> Nat]
    /\ Len(met) <= Len(output) + warnings + Reported(counts) + Pending

LEMMA CountersAre ==
  ASSUME NEW c, c \in [Counters -> Nat]
  PROVE  /\ c["missingKey"] \in Nat /\ c["messageLength"] \in Nat
         /\ c["inconsistentSubType"] \in Nat /\ c["inconsistentDate"] \in Nat
         /\ Reported(c) \in Nat
  BY DEF Counters, Reported

LEMMA ReportNumbers ==
  ASSUME ReportInv
  PROVE  /\ Reported(counts) \in Nat
         /\ Len(output) \in Nat /\ Len(met) \in Nat /\ warnings \in Nat
         /\ Len(met) <= Len(output) + warnings + Reported(counts) + Pending
  <1>1. PICK S : output \in Seq(S)
    BY DEF ReportInv
  <1>2. Len(output) \in Nat
    BY <1>1
  <1>3. QED
    BY <1>2, CountersAre DEF ReportInv

LEMMA ReportIsRight == ReportInv => NotWrittenIsReported
  <1>1. SUFFICES ASSUME ReportInv PROVE NotWrittenIsReported
    OBVIOUS
  <1>2. /\ Len(output) \in Nat /\ Len(met) \in Nat /\ warnings \in Nat
        /\ Len(met) <= Len(output) + warnings + Reported(counts) + Pending
    BY <1>1, ReportNumbers
  <1>3. /\ counts["missingKey"] \in Nat /\ counts["messageLength"] \in Nat
        /\ counts["inconsistentSubType"] \in Nat /\ counts["inconsistentDate"] \in Nat
    BY <1>1, CountersAre DEF ReportInv
  <1>4. ASSUME NEW l \in Nat, NEW n \in Nat, NEW w \in Nat, NEW a \in Nat, NEW b \in Nat,
               NEW c \in Nat, NEW d \in Nat, NEW e \in Nat,
               l <= n + w + (a + b + c + d) + e
        PROVE  l <= n + w + a + b + c + d + e
    BY <1>4
  <1>5. Pending \in Nat
    BY DEF Pending
  <1>6. QED
    BY <1>2, <1>3, <1>4, <1>5 DEF Reported, Pending, NotWrittenIsReported

LEMMA CountingCounts ==
  ASSUME NEW c \in [Counters -> Nat], NEW d, NEW C \in SUBSET Counters,
         d = [x \in Counters |-> IF x \in C THEN c[x] + 1 ELSE c[x]]
  PROVE  /\ d \in [Counters -> Nat]
         /\ Reported(c) \in Nat /\ Reported(d) \in Nat
         /\ Reported(c) <= Reported(d)
         /\ C # {} => Reported(c) + 1 <= Reported(d)
  <1>1. /\ c["missingKey"] \in Nat /\ c["messageLength"] \in Nat
        /\ c["inconsistentSubType"] \in Nat /\ c["inconsistentDate"] \in Nat
    BY CountersAre
  <1>2. \A x \in Counters : d[x] = IF x \in C THEN c[x] + 1 ELSE c[x]
    OBVIOUS
  <1>3. d \in [Counters -> Nat]
    OBVIOUS
  <1>4. \A x \in Counters : d[x] \in Nat /\ c[x] \in Nat /\ c[x] <= d[x]
                           /\ (x \in C => c[x] + 1 <= d[x])
    BY <1>2
  <1>5. /\ "missingKey" \in Counters /\ "messageLength" \in Counters
        /\ "inconsistentSubType" \in Counters /\ "inconsistentDate" \in Counters
    BY DEF Counters
  <1>6. C # {} => \/ "missingKey" \in C \/ "messageLength" \in C
                  \/ "inconsistentSubType" \in C \/ "inconsistentDate" \in C
    BY DEF Counters
  <1>7. QED
    BY <1>1, <1>3, <1>4, <1>5, <1>6 DEF Reported

LEMMA InitReport == Init => ReportInv
  <1>1. SUFFICES ASSUME Init PROVE ReportInv
    OBVIOUS
  <1>2. /\ met = <<>> /\ output = <<>> /\ warnings = 0
        /\ counts = [c \in Counters |-> 0] /\ state \in {"reading", "refused"}
    BY <1>1 DEF Init
  <1>3. counts \in [Counters -> Nat] /\ met \in Seq(Nat) /\ output \in Seq({})
    BY <1>2
  <1>4. Reported(counts) = 0
    BY <1>2 DEF Reported, Counters
  <1>5. Len(met) = 0 /\ Len(output) = 0 /\ Pending = 0
    BY <1>2 DEF Pending
  <1>6. QED
    BY <1>2, <1>3, <1>4, <1>5 DEF ReportInv

LEMMA ReadKeepsReport ==
  ASSUME ReaderInv, ReportInv, Read
  PROVE  ReportInv'
  <1>1. PICK read : ReadsTo(stream, position, read) /\ ReadDoes(read)
    BY ReadCases
  <1>2. PICK S : output \in Seq(S)
    BY DEF ReportInv
  <1>3. /\ Reported(counts) \in Nat /\ Len(output) \in Nat /\ Len(met) \in Nat
        /\ warnings \in Nat /\ counts \in [Counters -> Nat] /\ met \in Seq(Nat)
        /\ Len(met) <= Len(output) + warnings + Reported(counts)
    <2>1. Pending = 0
      BY DEF Pending, Read
    <2>2. counts \in [Counters -> Nat] /\ met \in Seq(Nat)
      BY DEF ReportInv
    <2>3. QED
      BY <2>1, <2>2, ReportNumbers
  <1>4. /\ output' = output /\ counts' = counts /\ Reported(counts') = Reported(counts)
        /\ warnings' \in Nat /\ warnings <= warnings'
    BY <1>1, <1>3 DEF ReadDoes
  <1>5. /\ met' \in Seq(Nat) /\ Len(met') \in Nat /\ Pending' \in Nat
        /\ Len(met') <= Len(met) + Pending'
    <2>1. CASE read.outcome = "message"
      <3>1. First(stream, position) \in Nat
        BY <1>1, <2>1, ReadMovesOn, PlaceFacts DEF ReaderInv, Sound
      <3>2. met' = Append(met, First(stream, position)) /\ state' = "checking"
        BY <1>1, <2>1 DEF ReadDoes
      <3>3. met' \in Seq(Nat) /\ Len(met') = Len(met) + 1
        BY <1>3, <3>1, <3>2
      <3>4. Pending' = 1
        BY <3>2 DEF Pending
      <3>5. QED
        BY <1>3, <3>3, <3>4
    <2>2. CASE read.outcome # "message"
      <3>1. met' = met
        BY <1>1, <2>2 DEF ReadDoes
      <3>2. Pending' \in Nat
        BY DEF Pending
      <3>3. QED
        BY <1>3, <3>1, <3>2
    <2>3. QED
      BY <2>1, <2>2
  <1>6. Len(met') <= Len(output') + warnings' + Reported(counts') + Pending'
    BY <1>3, <1>4, <1>5
  <1>7. output' \in Seq(S) /\ counts' \in [Counters -> Nat]
    BY <1>2, <1>3, <1>4
  <1>8. QED
    BY <1>4, <1>5, <1>6, <1>7 DEF ReportInv

LEMMA CheckKeepsReport ==
  ASSUME ReaderInv, ReportInv, CheckMessage
  PROVE  ReportInv'
  <1>1. PICK v : /\ IsReported(v)
                 /\ output' = output \o v.written
                 /\ counts' = [c \in Counters |->
                                  IF c \in v.counted THEN counts[c] + 1 ELSE counts[c]]
                 /\ warnings' = IF v.throws THEN warnings + 1 ELSE warnings
    BY CheckSteps
  <1>2. PICK S : output \in Seq(S)
    BY DEF ReportInv
  <1>3. /\ state = "checking" /\ met' = met
        /\ state' = "aborted" \/ state' = Onwards(pos, position)
    BY CheckSteps
  <1>4. Pending = 1 /\ Pending' = 0
    BY <1>3 DEF Pending, Onwards
  <1>5. /\ Reported(counts) \in Nat /\ Len(output) \in Nat /\ Len(met) \in Nat
        /\ warnings \in Nat /\ counts \in [Counters -> Nat] /\ met \in Seq(Nat)
        /\ Len(met) <= Len(output) + warnings + Reported(counts) + 1
    <2>1. counts \in [Counters -> Nat] /\ met \in Seq(Nat)
      BY DEF ReportInv
    <2>2. QED
      BY <1>4, <2>1, ReportNumbers
  <1>6. /\ counts' \in [Counters -> Nat] /\ Reported(counts') \in Nat
        /\ Reported(counts) <= Reported(counts')
        /\ v.counted # {} => Reported(counts) + 1 <= Reported(counts')
    BY <1>1, <1>5, CountingCounts DEF IsReported
  <1>7. /\ warnings' \in Nat /\ warnings <= warnings'
        /\ v.throws => warnings + 1 <= warnings'
    BY <1>1, <1>5 DEF IsReported
  <1>8. /\ Len(output') \in Nat /\ Len(output) <= Len(output')
        /\ v.written # <<>> => Len(output) + 1 <= Len(output')
    <2>1. CASE v.written = <<>>
      <3>1. output' = output
        BY <1>1, <1>2, <2>1
      <3>2. QED
        BY <1>5, <2>1, <3>1
    <2>2. CASE \E m : v.written = <<m>>
      <3>1. PICK m : v.written = <<m>>
        BY <2>2
      <3>2. output \in Seq(S \cup {m}) /\ <<m>> \in Seq(S \cup {m})
        BY <1>2
      <3>3. output' \in Seq(S \cup {m}) /\ Len(output') = Len(output) + 1
        BY <1>1, <3>1, <3>2
      <3>4. QED
        BY <1>5, <3>3
    <2>3. QED
      BY <1>1, <2>1, <2>2 DEF IsReported
  <1>9. \E T : output' \in Seq(T)
    <2>1. CASE v.written = <<>>
      BY <1>1, <1>2, <2>1
    <2>2. CASE \E m : v.written = <<m>>
      <3>1. PICK m : v.written = <<m>>
        BY <2>2
      <3>2. output \in Seq(S \cup {m}) /\ <<m>> \in Seq(S \cup {m})
        BY <1>2
      <3>3. output' \in Seq(S \cup {m})
        BY <1>1, <3>1, <3>2
      <3>4. QED
        BY <3>3
    <2>3. QED
      BY <1>1, <2>1, <2>2 DEF IsReported
  <1>10. v.throws \/ v.counted # {} \/ v.written # <<>>
    BY <1>1 DEF IsReported
  <1>11. \/ warnings + 1 <= warnings' \/ Reported(counts) + 1 <= Reported(counts')
         \/ Len(output) + 1 <= Len(output')
    BY <1>6, <1>7, <1>8, <1>10
  <1>12. ASSUME NEW l \in Nat, NEW n \in Nat, NEW w \in Nat, NEW r \in Nat,
                NEW n1 \in Nat, NEW w1 \in Nat, NEW r1 \in Nat,
                l <= n + w + r + 1, n <= n1, w <= w1, r <= r1,
                w + 1 <= w1 \/ r + 1 <= r1 \/ n + 1 <= n1
         PROVE  l <= n1 + w1 + r1 + 0
    BY <1>12
  <1>13. Len(met) <= Len(output') + warnings' + Reported(counts') + 0
    BY <1>5, <1>6, <1>7, <1>8, <1>11, <1>12
  <1>14. Len(met') <= Len(output') + warnings' + Reported(counts') + Pending'
    BY <1>3, <1>4, <1>13
  <1>15. met' \in Seq(Nat) /\ warnings' \in Nat /\ counts' \in [Counters -> Nat]
    BY <1>3, <1>5, <1>6, <1>7
  <1>16. QED
    BY <1>9, <1>14, <1>15 DEF ReportInv

(* For every collection of streams and every command line, a message that  *)
(* was checked is written, or counted, or has a warning of its own.        *)
THEOREM NoMessageDisappears == Spec => []NotWrittenIsReported
  <1>1. ASSUME ReaderInv, ReportInv, [Next]_vars
        PROVE  ReportInv'
    <2>1. CASE Read
      BY <1>1, <2>1, ReadKeepsReport
    <2>2. CASE CheckMessage
      BY <1>1, <2>2, CheckKeepsReport
    <2>3. CASE UNCHANGED vars
      BY <1>1, <2>3 DEF vars, ReportInv, Pending
    <2>4. QED
      BY <1>1, <2>1, <2>2, <2>3 DEF Next
  <1>2. QED
    BY <1>1, ReportIsRight, InitReport, ReaderAlways, PTL DEF Spec
=============================================================================
