-------------------------- MODULE Grib1ToGrib2Proofs --------------------------
(***************************************************************************)
(* Theorems about Grib1ToGrib2, for any files: the times and the levels of *)
(* what the tool has written are those of what it has read; and about the  *)
(* requests that the rules may fill instead of a dictionary.               *)
(***************************************************************************)
EXTENDS Grib1ToGrib2, GribTimesProofs, SequenceTheorems, FiniteSetTheorems, TLAPS

(* How many messages have been read and written.                           *)
Behind == Len(output)

(* The conversions of the first n messages.                                *)
Conversions(n) == [i \in 1 .. n |-> Converted(input[i])[1]]

Place ==
    /\ input \in Files /\ position \in 0 .. Len(input)
    /\ state \in {"next", "read", "extracted", "mapped", "done", "threw"}
    /\ Behind \in Nat
    /\ state \in {"next", "done"} => Behind = position
    /\ state \in {"read", "extracted", "mapped"} => Behind = position - 1
    /\ state = "threw" => Behind \in {position - 1, position}

(* What the current message has gone through.                              *)
Dictionaries ==
    /\ state \in {"extracted", "mapped"} =>
           ConvertToMars(Current) # Failed /\ Has(Current, "values") /\ original = ConvertToMars(Current)[1]
    /\ state = "mapped" =>
           ConvertAll(original.mars) # Failed /\ mapped = ConvertAll(original.mars)[1]

Outputs ==
    /\ output = Conversions(Behind)
    /\ \A i \in 1 .. Behind : Converted(input[i]) # Failed

IInv == Place /\ Dictionaries /\ Outputs
----------------------------------------------------------------------------
LEMMA OneMessage ==
    ASSUME NEW g, NEW extracted, NEW converted, MessageOf(g, extracted, converted) # Failed
    PROVE  MessageOf(g, extracted, converted) = Found(MessageOf(g, extracted, converted)[1])
BY DEF MessageOf, Encode, Found, Failed

LEMMA OneConversion ==
    ASSUME NEW g, Converted(g) # Failed
    PROVE  Converted(g) = Found(Converted(g)[1])
BY OneMessage DEF Converted

LEMMA ConversionsAppend ==
    ASSUME NEW n \in Nat
    PROVE  Conversions(n) \o <<Converted(input[n + 1])[1]>> = Conversions(n + 1)
<1> DEFINE x == Converted(input[n + 1])[1]
           S == {Converted(input[i])[1] : i \in 1 .. n + 1}
<1>1. Conversions(n) \in Seq(S) /\ x \in S /\ Len(Conversions(n)) = n
  BY DEF Conversions
<1>2. Conversions(n) \o <<x>> = Append(Conversions(n), x)
  BY <1>1
<1>3. Append(Conversions(n), x) = [i \in 1 .. n + 1 |-> IF i = n + 1 THEN x ELSE Conversions(n)[i]]
  BY <1>1
<1>4. \A i \in 1 .. n + 1 : (IF i = n + 1 THEN x ELSE Conversions(n)[i]) = Converted(input[i])[1]
  BY DEF Conversions
<1> QED
  BY <1>2, <1>3, <1>4 DEF Conversions

LEMMA InitEstablishes == Init => IInv
<1> SUFFICES ASSUME Init PROVE IInv
  OBVIOUS
<1>1. Place
  BY FilesAssumption DEF Init, Place, Behind
<1>2. Behind = 0
  BY DEF Init, Behind
<1>3. output = Conversions(0)
  BY DEF Init, Conversions
<1> QED
  BY <1>1, <1>2, <1>3 DEF Init, IInv, Dictionaries, Outputs

(* The messages that were written stay those of the file's beginning.      *)
LEMMA OutputsStay ==
    ASSUME IInv, UNCHANGED <<input, output>>
    PROVE  Outputs' /\ Behind' = Behind
BY DEF IInv, Outputs, Behind, Conversions

LEMMA NextKeeps == IInv /\ [Next]_vars => IInv'
<1> SUFFICES ASSUME IInv, [Next]_vars PROVE IInv'
  OBVIOUS
<1>0. Len(input) \in Nat /\ position \in Nat
  BY FilesAssumption DEF IInv, Place
<1>1. CASE Read
  <2>1. Outputs' /\ Behind' = Behind
    BY <1>1, OutputsStay DEF Read
  <2>2. Place' /\ Dictionaries'
    BY <1>0, <1>1, <2>1 DEF Read, IInv, Place, Dictionaries
  <2> QED
    BY <2>1, <2>2 DEF IInv
<1>2. CASE ExtractMessage
  <2>1. Outputs' /\ Behind' = Behind /\ Current' = Current
    BY <1>2, OutputsStay DEF ExtractMessage, Current
  <2>2. Place'
    BY <1>2, <2>1 DEF ExtractMessage, IInv, Place
  <2>3. Dictionaries'
    BY <1>2, <2>1 DEF ExtractMessage, Dictionaries
  <2> QED
    BY <2>1, <2>2, <2>3 DEF IInv
<1>3. CASE MapMessage
  <2>1. Outputs' /\ Behind' = Behind /\ Current' = Current
    BY <1>3, OutputsStay DEF MapMessage, Current
  <2>2. Place'
    BY <1>3, <2>1 DEF MapMessage, IInv, Place
  <2>3. Dictionaries'
    BY <1>3, <2>1 DEF MapMessage, IInv, Dictionaries
  <2> QED
    BY <2>1, <2>2, <2>3 DEF IInv
<1>4. CASE EncodeMessage
  <2>1. Behind = position - 1 /\ position > 0 /\ state = "mapped"
    BY <1>0, <1>4 DEF EncodeMessage, IInv, Place
  <2>2. Dictionaries'
    BY <1>4 DEF EncodeMessage, Dictionaries
  <2>3. EncodeCurrent = Converted(Current)
    BY <1>4 DEF EncodeMessage, IInv, Dictionaries, Converted, EncodeCurrent
  <2>4. CASE EncodeCurrent = Failed
    <3>1. UNCHANGED <<input, output, position>> /\ state' = "threw"
      BY <1>4, <2>4 DEF EncodeMessage
    <3>2. Outputs' /\ Behind' = Behind
      BY <3>1, OutputsStay
    <3>3. Place'
      BY <2>1, <3>1, <3>2 DEF IInv, Place
    <3> QED
      BY <2>2, <3>2, <3>3 DEF IInv
  <2>5. CASE EncodeCurrent # Failed
    <3>1. state' = "next" /\ output' = output \o EncodeCurrent /\ UNCHANGED <<input, position>>
      BY <1>4, <2>5 DEF EncodeMessage
    <3>3. EncodeCurrent = <<Converted(input[position])[1]>>
      BY <2>3, <2>5, OneConversion DEF Current, Found
    <3>4. output' = Conversions(position)
      <4>1. output = Conversions(position - 1)
        BY <2>1 DEF IInv, Outputs
      <4>2. position - 1 \in Nat /\ (position - 1) + 1 = position
        BY <1>0, <2>1
      <4> QED
        BY <3>1, <3>3, <4>1, <4>2, ConversionsAppend
    <3>5. \A i \in 1 .. position : Converted(input[i]) # Failed
      <4>1. \A i \in 1 .. position - 1 : Converted(input[i]) # Failed
        BY <2>1 DEF IInv, Outputs
      <4>2. Converted(input[position]) # Failed
        BY <2>3, <2>5 DEF Current
      <4> QED
        BY <1>0, <4>1, <4>2
    <3>6. Behind' = position /\ Conversions(Behind)' = Conversions(position)
      <4>1. Len(Conversions(position)) = position
        BY <1>0 DEF Conversions
      <4>2. Behind' = position
        BY <3>4, <4>1 DEF Behind
      <4> QED
        BY <3>1, <4>2 DEF Conversions
    <3>7. Outputs'
      BY <3>1, <3>4, <3>5, <3>6 DEF Outputs
    <3>8. Place'
      BY <1>0, <3>1, <3>6 DEF IInv, Place
    <3> QED
      BY <2>2, <3>7, <3>8 DEF IInv
  <2> QED
    BY <2>4, <2>5
<1>5. CASE Close \/ ReadFails
  <2>1. Outputs' /\ Behind' = Behind
    BY <1>5, OutputsStay DEF Close, ReadFails
  <2>2. Place' /\ Dictionaries'
    BY <1>5, <2>1 DEF Close, ReadFails, IInv, Place, Dictionaries
  <2> QED
    BY <2>1, <2>2 DEF IInv
<1>6. CASE UNCHANGED vars
  BY <1>6 DEF vars, IInv, Place, Dictionaries, Outputs, Behind, Conversions, Current
<1> QED
  BY <1>1, <1>2, <1>3, <1>4, <1>5, <1>6 DEF Next

THEOREM InvariantHolds == Spec => []IInv
BY InitEstablishes, NextKeeps, PTL DEF Spec
----------------------------------------------------------------------------
(* One message is written for each that was got from the reader, whatever  *)
(* the files hold, but for the one that is on its way or has ended the     *)
(* tool (TypeOK).                                                          *)
THEOREM TypeCorrect == Spec => []TypeOK
<1>1. IInv => TypeOK
  BY DEF IInv, Place, Behind, TypeOK
<1> QED
  BY <1>1, InvariantHolds, PTL
----------------------------------------------------------------------------
(* A request as a dictionary: a number is read as it was written.          *)

LEMMA DigitsOfType ==
    ASSUME NEW n \in Int
    PROVE  DigitsOf(n) \in Nat /\ DigitsOf(n) > 0
<1> DEFINE below == {p \in PowersOfTen : p <= n}
<1> DEFINE most == 100000000
<1>1. most \in Int /\ \A p \in below : p \in Int /\ 1 <= p /\ p <= most
    BY SMT DEF PowersOfTen
<1> HIDE DEF below, most
<1>2. IsFiniteSet(1 .. most) /\ below \subseteq 1 .. most
    BY <1>1, FS_Interval
<1>3. IsFiniteSet(below)
    BY <1>2, FS_Subset
<1>4. Cardinality(below) \in Nat
    BY <1>3, FS_CardinalityType
<1> QED BY <1>4 DEF DigitsOf, below

LEMMA HundredsApart ==
    ASSUME NEW n \in Nat
    PROVE  /\ n \div 100 \in Nat /\ n % 100 \in 0 .. 99
           /\ n = 100 * (n \div 100) + (n % 100)
           /\ (n \div 100) \div 100 = n \div 10000
BY SMT

LEMMA OneLong ==
    ASSUME NEW p
    PROVE  Len(<<p>>) = 1 /\ <<p>>[1] = p
BY SMT

LEMMA TextFields ==
    ASSUME NEW p, NEW s, NEW u
    PROVE  Text(p, s, u).parts = p /\ Text(p, s, u).sep = s /\ Text(p, s, u).unit = u
BY Zenon DEF Text

LEMMA TextOfOne ==
    ASSUME NEW n, NEW w
    PROVE  /\ Plain(n, w).unit = Blank
           /\ Plain(n, w).sep = Blank
           /\ Len(Plain(n, w).parts) = 1
           /\ Plain(n, w).parts[1].n = n
           /\ Plain(n, w).parts[1].width = w
<1> DEFINE p == Part(n, w)
           t == Plain(n, w)
<1>1. t.unit = Blank /\ t.sep = Blank /\ t.parts = <<p>>
    BY TextFields, SMT DEF Plain
<1>2. p.n = n /\ p.width = w
    BY Zenon DEF Part
<1>3. Len(<<p>>) = 1 /\ <<p>>[1] = p
    BY OneLong
<1> HIDE DEF p, t
<1>4. t.unit = Blank /\ t.sep = Blank /\ Len(t.parts) = 1 /\ t.parts[1].n = n /\ t.parts[1].width = w
    BY <1>1, <1>2, <1>3, Zenon
<1> QED BY <1>4, Zenon DEF t

LEMMA PlainIsReadBack ==
    ASSUME NEW n \in Int
    PROVE  /\ ParsePlainLong(PlainLongText(n)) = Found(n)
           /\ PlainLongText(n).unit = Blank
<1>1. CASE n >= 0
    <2> DEFINE d == DigitsOf(n)
    <2>1. d > 0 BY DigitsOfType
    <2>2. PlainLongText(n) = Plain(n, d)
        BY <1>1 DEF PlainLongText
    <2> HIDE DEF d
    <2>3. ParsePlainLong(Plain(n, d)) = Found(n)
        BY <2>1, SMT DEF ParsePlainLong, Plain, Text, Part, If, Found
    <2> QED BY <2>2, <2>3, TextOfOne, SMT
<1>2. CASE ~(n >= 0)
    <2> DEFINE m == -n
               d == DigitsOf(m)
               t == Text(<<Part(0, 0), Part(m, d)>>, "-", Blank)
    <2>1. m \in Int /\ -m = n /\ d > 0
        BY DigitsOfType
    <2>2. PlainLongText(n) = t
        BY <1>2 DEF PlainLongText
    <2> HIDE DEF m, d
    <2>3. ParsePlainLong(t) = Found(-m)
        BY <2>1, SMT DEF ParsePlainLong, Text, Part, If, Found
    <2>4. t.unit = Blank
        BY SMT DEF Text
    <2> QED BY <2>1, <2>2, <2>3, <2>4
<1> QED BY <1>1, <1>2

LEMMA HoursAreReadBack ==
    ASSUME NEW n \in Int
    PROVE  ParseHours(LongToHours(n)) = Found(n)
<1>1. \E p, s : PlainLongText(n) = Text(p, s, Blank)
    <2>1. CASE n >= 0 BY <2>1, Zenon DEF PlainLongText, Plain
    <2>2. CASE ~(n >= 0) BY <2>2, Zenon DEF PlainLongText
    <2> QED BY <2>1, <2>2
<1>2. PICK p, s : PlainLongText(n) = Text(p, s, Blank)
    BY <1>1, Zenon
<1>3. LongToHours(n) = Text(p, s, "h")
    BY <1>2, TextFields, SMT DEF LongToHours
<1>4. ParseHours(Text(p, s, "h")) = ParsePlainLong(Text(p, s, Blank))
    BY TextFields, SMT DEF ParseHours
<1> QED BY <1>2, <1>3, <1>4, PlainIsReadBack, Zenon

LEMMA IfNotFailed ==
    ASSUME NEW c, NEW v, If(c, v) # Failed
    PROVE  c /\ If(c, v) = Found(v)
BY Zenon DEF If, Found

LEMMA DateIsReadBack ==
    ASSUME NEW n \in Int, LongToMarsDate(n) # Failed
    PROVE  MarsDateToLong(LongToMarsDate(n)[1]) = Found(n)
<1> DEFINE t == Plain(n, 8)
<1>1. LongToMarsDate(n) = If(YYYYMMDDOk(n), t)
    BY Zenon DEF LongToMarsDate
<1>2. t.unit = Blank /\ Len(t.parts) = 1 /\ t.parts[1].n = n /\ t.parts[1].width = 8
    BY TextOfOne
<1>3. <<t>>[1] = t
    BY OneLong
<1> HIDE DEF t
<1>4. YYYYMMDDOk(n) /\ LongToMarsDate(n) = <<t>>
    BY <1>1, IfNotFailed, Zenon DEF Found
<1>5. MarsDateToLong(t) = CheckedDate(n)
    BY <1>2, Zenon DEF MarsDateToLong
<1>6. CheckedDate(n) = Found(n)
    BY <1>4, Zenon DEF CheckedDate, If, Found
<1> QED BY <1>3, <1>4, <1>5, <1>6, Zenon

LEMMA HourAndMinute ==
    ASSUME NEW n \in Int, TimeOfDay(n)
    PROVE  /\ n = 100 * (n \div 100) + SS(n)
           /\ (n \div 100) \div 100 = HH(n) /\ (n \div 100) % 100 = MM(n)
           /\ n = HHMM00(HH(n), MM(n)) + SS(n)
           /\ HH(n) \in Int /\ MM(n) \in Int
<1>1. n \in Nat
    BY SMT DEF TimeOfDay
<1>2. n \div 100 \in Nat
    BY <1>1, HundredsApart
<1>3. n = 100 * (n \div 100) + SS(n) /\ (n \div 100) \div 100 = HH(n)
    BY <1>1, HundredsApart DEF SS, HH
<1>4. (n \div 100) % 100 = MM(n)
    BY SMT DEF MM
<1>5. n \div 100 = 100 * HH(n) + MM(n) /\ HH(n) \in Int /\ MM(n) \in Int
    BY <1>2, <1>3, <1>4, HundredsApart
<1> DEFINE hm == n \div 100
           hh == HH(n)
           mm == MM(n)
           ss == SS(n)
<1>6. ss \in Int
    BY <1>1, HundredsApart DEF SS
<1> HIDE DEF hm, hh, mm, ss
<1>7. n = HHMM00(hh, mm) + ss
    BY <1>2, <1>3, <1>5, <1>6, SMT DEF HHMM00, hm, hh, mm, ss
<1> QED BY <1>3, <1>4, <1>5, <1>7 DEF hh, mm, ss

LEMMA TimeIsReadBack ==
    ASSUME NEW n \in Int, LongToMarsTime(n) # Failed
    PROVE  MarsTimeToLong(LongToMarsTime(n)[1]) = Found(n)
<1> DEFINE hh == HH(n)
           mm == MM(n)
           ss == SS(n)
           hm == n \div 100
           t  == Plain(hm, 4)
<1>1. TimeOfDay(n) /\ MakeHHMMSS(hh, mm, ss) # Failed
    BY Zenon DEF LongToMarsTime
<1>2. LongToMarsTime(n) = <<t>>
    BY <1>1, Zenon DEF LongToMarsTime, Found
<1>3. hh \in 0 .. 23 /\ mm \in 0 .. 59 /\ ss = 0
    BY <1>1, IfNotFailed, Zenon DEF MakeHHMMSS
<1>4. t.unit = Blank /\ t.sep = Blank /\ Len(t.parts) = 1 /\ t.parts[1].n = hm /\ t.parts[1].width = 4
    BY TextOfOne
<1>5. <<t>>[1] = t
    BY OneLong
<1> HIDE DEF t
<1>6. MarsTimeToLong(t) = ParseCompactTime(hm, 4)
    BY <1>4, Zenon DEF MarsTimeToLong
<1>7. ParseCompactTime(hm, 4) = MakeHHMMSS(hm \div 100, hm % 100, 0)
    BY SMT DEF ParseCompactTime
<1>8. hm \div 100 = hh /\ hm % 100 = mm /\ HHMM00(hh, mm) + ss = n /\ hh \in Int /\ mm \in Int
    BY <1>1, HourAndMinute
<1>9. HHMM00(hh, mm) = n
    BY <1>3, <1>8, SMT DEF HHMM00
<1> HIDE DEF hh, mm, ss, hm
<1>10. MakeHHMMSS(hh, mm, 0) = Found(HHMM00(hh, mm))
    BY <1>3, Zenon DEF MakeHHMMSS, If, Found
<1> QED BY <1>2, <1>5, <1>6, <1>7, <1>8, <1>9, <1>10, Zenon

(* What a converter of a key writes it reads as the number it was.         *)
LEMMA ConvertedBack ==
    ASSUME NEW k, NEW n \in Int, ConvertFromLong(k, n) # Failed
    PROVE  ConvertToLong(k, ConvertFromLong(k, n)[1]) = Found(n)
<1>1. CASE k \in PlainKeys
    <2>1. ConvertFromLong(k, n) = <<PlainLongText(n)>>
        BY <1>1 DEF ConvertFromLong, Found
    <2>2. \A t : ConvertToLong(k, t) = ParsePlainLong(t)
        BY <1>1 DEF ConvertToLong
    <2> QED BY <2>1, <2>2, OneLong, PlainIsReadBack, Zenon
<1>2. CASE k \in HourKeys
    <2>1. k \notin PlainKeys BY <1>2 DEF HourKeys, PlainKeys
    <2>2. ConvertFromLong(k, n) = <<LongToHours(n)>>
        BY <1>2, <2>1 DEF ConvertFromLong, Found
    <2>3. \A t : ConvertToLong(k, t) = ParseHours(t)
        BY <1>2, <2>1 DEF ConvertToLong
    <2> QED BY <2>2, <2>3, OneLong, HoursAreReadBack, Zenon
<1>3. CASE k \in DateKeys
    <2>1. k \notin PlainKeys /\ k \notin HourKeys BY <1>3 DEF DateKeys, HourKeys, PlainKeys
    <2>2. ConvertFromLong(k, n) = LongToMarsDate(n) BY <1>3, <2>1 DEF ConvertFromLong
    <2>3. \A t : ConvertToLong(k, t) = MarsDateToLong(t) BY <1>3, <2>1 DEF ConvertToLong
    <2> QED BY <2>2, <2>3, DateIsReadBack
<1>4. CASE k \in TimeKeys
    <2>1. k \notin PlainKeys /\ k \notin HourKeys /\ k \notin DateKeys
        BY <1>4 DEF TimeKeys, DateKeys, HourKeys, PlainKeys
    <2>2. ConvertFromLong(k, n) = LongToMarsTime(n) BY <1>4, <2>1 DEF ConvertFromLong
    <2>3. \A t : ConvertToLong(k, t) = MarsTimeToLong(t) BY <1>4, <2>1 DEF ConvertToLong
    <2> QED BY <2>2, <2>3, TimeIsReadBack
<1>5. CASE k \notin LongKeys
    BY <1>5 DEF ConvertFromLong, LongKeys
<1> QED BY <1>1, <1>2, <1>3, <1>4, <1>5 DEF LongKeys

(* A number that a rule sets in a MarsRequest is the number that is read    *)
(* from it, through any text, whatever the key; and no other key changes.  *)
THEOREM WrittenIsReadBack ==
    ASSUME NEW mars, NEW k, NEW n \in Int, SetLong(mars, k, n) # Failed
    PROVE  /\ ReadLong(SetLong(mars, k, n)[1], k) = Found(n)
           /\ \A x : x # k => Scalar(SetLong(mars, k, n)[1], x) = Scalar(mars, x)
<1> DEFINE t == ConvertFromLong(k, n)[1]
           to == Assign(mars, k, t)
<1>1. ConvertFromLong(k, n) # Failed /\ SetLong(mars, k, n)[1] = to
    BY DEF SetLong, Found
<1>2. DOMAIN to = {k} \cup DOMAIN mars /\ to[k] = <<t>>
    BY DEF Assign, ++
<1>3. \A x : x # k => (x \in DOMAIN to <=> x \in DOMAIN mars)
    BY <1>2
<1>4. \A x \in DOMAIN mars : x # k => to[x] = mars[x]
    BY DEF Assign, ++
<1> HIDE DEF to, t
<1>5. Scalar(to, k) = <<t>>
    BY <1>2 DEF Scalar, Has, If
<1>6. ReadLong(to, k) = ConvertToLong(k, t)
    BY <1>5 DEF ReadLong, Failed
<1>7. ConvertToLong(k, t) = Found(n)
    BY <1>1, ConvertedBack DEF t
<1>8. ASSUME NEW x, x # k
      PROVE  Scalar(to, x) = Scalar(mars, x)
    BY <1>3, <1>4, <1>8 DEF Scalar, Has, If
<1> QED BY <1>1, <1>6, <1>7, <1>8
----------------------------------------------------------------------------
(* The rules of mars2mars, whose tables do not meet.                       *)

ShortTables == RenamedParams \cup DailyParams \cup LayeredParams \cup ScaledParams
               \cup WindowParams \cup HeightParams

LEMMA NewIsNotLegacy ==
    ASSUME NEW a \in ShortTables, NEW b \in ShortTables
    PROVE  a[2] # b[1]
BY SMTT(60) DEF ShortTables, RenamedParams, DailyParams, LayeredParams, ScaledParams, WindowParams,
       HeightParams

LEMMA TablesApart ==
    /\ \A a \in RenamedParams, b \in DailyParams \cup LayeredParams \cup ScaledParams
               \cup WindowParams \cup HeightParams : a[1] # b[1]
    /\ \A a \in DailyParams, b \in LayeredParams \cup ScaledParams
               \cup WindowParams \cup HeightParams : a[1] # b[1]
    /\ \A a \in LayeredParams, b \in ScaledParams
               \cup WindowParams \cup HeightParams : a[1] # b[1]
    /\ \A a \in ScaledParams, b \in WindowParams \cup HeightParams : a[1] # b[1]
    /\ \A a \in WindowParams, b \in HeightParams : a[1] # b[1]
BY SMTT(60) DEF RenamedParams, DailyParams, LayeredParams, ScaledParams, WindowParams,
       HeightParams

(* Between which parameters the table of the chemical ones begins and ends.*)
ChemicalNumber(p) ==
    /\ p \in Nat
    /\ \/ 210000 < p /\ p < 210186
       \/ 210202 < p /\ p < 210260
       \/ 211000 < p /\ p < 224000

LEMMA ShortOutOfChemical ==
    ASSUME NEW a \in ShortTables
    PROVE  ~ChemicalNumber(a[1]) /\ ~ChemicalNumber(a[2])
BY SMTT(60) DEF ShortTables, RenamedParams, DailyParams, LayeredParams, ScaledParams, WindowParams,
       HeightParams, ChemicalNumber

LEMMA ShortBelowChemical ==
    ASSUME NEW a \in ShortTables
    PROVE  a[1] \in Nat /\ a[1] < 400000
BY SMTT(60) DEF ShortTables, RenamedParams, DailyParams, LayeredParams, ScaledParams, WindowParams,
       HeightParams

(* A row of the chemical tables: its legacy parameter, and the new one,    *)
(* from 400000 on.                                                         *)
NewNumber(p) == p \in Nat /\ p >= 400000
ChemicalRow(row) == ChemicalNumber(row[1]) /\ NewNumber(row[2])

LEMMA Rows211 ==
    ASSUME NEW row \in Params211
    PROVE  ChemicalRow(row)
BY SMTT(60) DEF Params211, Series, ChemicalRow, ChemicalNumber,
       NewNumber

LEMMA BudgetRows ==
    ASSUME NEW first \in Nat, NEW species, NEW n \in 1 .. 3, Len(species) = n,
           DOMAIN species = 1 .. n, NEW row \in Budget(first, species)
    PROVE  /\ row[1] \in Nat /\ first <= row[1] /\ row[1] < first + 7 * n
           /\ NewNumber(row[2])
<1>1. /\ DOMAIN BudgetTerms = 1 .. 7
      /\ \A i \in 1 .. 7 : NewNumber(BudgetTerms[i])
  BY SMT DEF BudgetTerms, NewNumber
<1>2. PICK i \in 1 .. 7 : row \in Series(first + (i - 1) * Len(species), BudgetTerms[i], species)
  BY <1>1, SMT DEF Budget
<1> DEFINE from == first + (i - 1) * n
<1>3. from \in Nat /\ first <= from /\ from + n <= first + 7 * n
  BY SMT
<1>4. row \in Series(from, BudgetTerms[i], species)
  BY <1>2
<1> HIDE DEF from
<1>5. row[1] \in Nat /\ from <= row[1] /\ row[1] < from + n /\ row[2] = BudgetTerms[i]
  <2>1. PICK j \in 1 .. n : row = <<from + j - 1, BudgetTerms[i], species[j], 0>>
    BY <1>4, SMT DEF Series
  <2> QED
    BY <1>3, <2>1, SMT
<1> QED
  <2>1. row[1] < first + 7 * n /\ first <= row[1]
    BY <1>3, <1>5, SMT
  <2>2. NewNumber(row[2])
    BY <1>1, <1>5
  <2> QED
    BY <1>5, <2>1, <2>2

LEMMA Rows210 ==
    ASSUME NEW row \in Params210
    PROVE  ChemicalRow(row)
BY SMTT(60) DEF Params210, Series, Optical, OfSpeciesAt, AtWavelength, ChemicalRow, ChemicalNumber,
       NewNumber

LEMMA RowsBudget ==
    ASSUME NEW row \in BudgetParams
    PROVE  ChemicalRow(row)
BY BudgetRows, SMTT(60) DEF BudgetParams, Optical, AtWavelength, ChemicalRow, ChemicalNumber,
       NewNumber

LEMMA RowsSpectral ==
    ASSUME NEW row \in SpectralParams
    PROVE  ChemicalRow(row)
BY SMTT(60) DEF SpectralParams, Optical, OfSpeciesAt, AtWavelength, Wavelengths, Lidar,
       ChemicalRow, ChemicalNumber, NewNumber

LEMMA Rows217 ==
    ASSUME NEW row \in Params217 \cup Params218
    PROVE  ChemicalRow(row)
BY SMTT(60) DEF Params217, Params218, SpeciesParams, Numbered, ChemicalRow, ChemicalNumber,
       NewNumber

LEMMA Rows219 ==
    ASSUME NEW row \in Params219 \cup Params222 \cup Params223
    PROVE  ChemicalRow(row)
BY SMTT(60) DEF Params219, Params222, Params223, FluxParams, Series, Numbered,
       ChemicalRow, ChemicalNumber, NewNumber

LEMMA ChemicalRows ==
    ASSUME NEW row \in ChemicalParams
    PROVE  ChemicalRow(row)
BY Rows210, Rows211, RowsBudget, RowsSpectral, Rows217, Rows219 DEF ChemicalParams

(* Applied, rule by rule.                                                  *)
LEMMA RuleByRule ==
    ASSUME NEW rules, Len(rules) = 7, NEW in
    PROVE  Applied(rules, in) =
             Both(rules[7], Both(rules[6], Both(rules[5], Both(rules[4], Both(rules[3],
               Both(rules[2], Both(rules[1], [mars |-> in, misc |-> NoKeys])))))))
<1> DEFINE v0 == [mars |-> in, misc |-> NoKeys]
           v1 == Both(rules[1], v0)
           v2 == Both(rules[2], v1)
           v3 == Both(rules[3], v2)
           v4 == Both(rules[4], v3)
           v5 == Both(rules[5], v4)
           v6 == Both(rules[6], v5)
           v7 == Both(rules[7], v6)
           F(f) == [i \in 0 .. 7 |-> IF i = 0 THEN v0 ELSE Both(rules[i], f[i - 1])]
           V == [i \in 0 .. 7 |-> IF i = 0 THEN v0 ELSE IF i = 1 THEN v1 ELSE IF i = 2 THEN v2
                                  ELSE IF i = 3 THEN v3 ELSE IF i = 4 THEN v4 ELSE IF i = 5 THEN v5
                                  ELSE IF i = 6 THEN v6 ELSE v7]
           after == CHOOSE f : f = F(f)
<1>1. Applied(rules, in) = after[7]
  BY DEF Applied
<1>2. V = F(V)
  <2> HIDE DEF v0, v1, v2, v3, v4, v5, v6, v7
  <2>1. /\ V[0] = v0 /\ V[1] = v1 /\ V[2] = v2 /\ V[3] = v3
        /\ V[4] = v4 /\ V[5] = v5 /\ V[6] = v6 /\ V[7] = v7
    OBVIOUS
  <2>2. /\ v1 = Both(rules[1], v0) /\ v2 = Both(rules[2], v1) /\ v3 = Both(rules[3], v2)
        /\ v4 = Both(rules[4], v3) /\ v5 = Both(rules[5], v4) /\ v6 = Both(rules[6], v5)
        /\ v7 = Both(rules[7], v6)
    BY DEF v1, v2, v3, v4, v5, v6, v7
  <2>3. ASSUME NEW i \in 0 .. 7
        PROVE  V[i] = IF i = 0 THEN v0 ELSE Both(rules[i], V[i - 1])
    <3>1. i \in {0, 1, 2, 3, 4, 5, 6, 7}
      OBVIOUS
    <3> HIDE DEF V
    <3>2. CASE i = 0
      BY <2>1, <3>2
    <3>3. CASE i = 1
      BY <2>1, <2>2, <3>3
    <3>4. CASE i = 2
      BY <2>1, <2>2, <3>4
    <3>5. CASE i = 3
      BY <2>1, <2>2, <3>5
    <3>6. CASE i = 4
      BY <2>1, <2>2, <3>6
    <3>7. CASE i = 5
      BY <2>1, <2>2, <3>7
    <3>8. CASE i = 6
      BY <2>1, <2>2, <3>8
    <3>9. CASE i = 7
      BY <2>1, <2>2, <3>9
    <3> QED
      BY <3>1, <3>2, <3>3, <3>4, <3>5, <3>6, <3>7, <3>8, <3>9
  <2>4. V = [i \in 0 .. 7 |-> V[i]]
    OBVIOUS
  <2> HIDE DEF V
  <2> QED
    BY <2>3, <2>4
<1>3. after = F(after)
  <2> HIDE DEF F, V
  <2> QED
    BY <1>2
<1>4. after[0] = v0
  <2> HIDE DEF after, v0
  <2> QED
    BY <1>3
<1>5. ASSUME NEW i \in 1 .. 7
      PROVE  after[i] = Both(rules[i], after[i - 1])
  <2> HIDE DEF after, v0
  <2>1. i \in 0 .. 7 /\ i # 0
    OBVIOUS
  <2> QED
    BY <1>3, <2>1
<1> HIDE DEF after
<1>6. after[1] = v1
  BY <1>4, <1>5
<1>7. after[2] = v2
  BY <1>5, <1>6
<1>8. after[3] = v3
  BY <1>5, <1>7
<1>9. after[4] = v4
  BY <1>5, <1>8
<1>10. after[5] = v5
  BY <1>5, <1>9
<1>11. after[6] = v6
  BY <1>5, <1>10
<1>12. after[7] = v7
  BY <1>5, <1>11
<1> QED
  BY <1>1, <1>12


(* The rules after the first, each with the table of its parameters.       *)
RuleTable(i) ==
    IF i = 2 THEN RenamedParams \cup DailyParams
    ELSE IF i = 3 THEN LayeredParams
    ELSE IF i = 4 THEN ScaledParams
    ELSE IF i = 5 THEN WindowParams
    ELSE IF i = 6 THEN HeightParams
    ELSE ChemicalParams

LEMMA RowOfTable ==
    ASSUME NEW table, NEW p \in Params(table)
    PROVE  Row(table, p) \in table /\ Row(table, p)[1] = p
BY DEF Params, Row

LEMMA ParamsOfTables ==
    /\ AllLegacyParams = UNION {Params(RuleTable(i)) : i \in 2 .. 7}
    /\ Params(RuleTable(2)) = Params(RenamedParams) \cup Params(DailyParams)
<1>1. Params(RuleTable(2)) = Params(RenamedParams) \cup Params(DailyParams)
  BY DEF Params, RuleTable
<1>2. /\ RuleTable(3) = LayeredParams /\ RuleTable(4) = ScaledParams
      /\ RuleTable(5) = WindowParams /\ RuleTable(6) = HeightParams
      /\ RuleTable(7) = ChemicalParams
  BY DEF RuleTable
<1>3. AllLegacyParams = Params(RenamedParams) \cup Params(DailyParams) \cup Params(LayeredParams)
                        \cup Params(ScaledParams) \cup Params(WindowParams)
                        \cup Params(HeightParams) \cup Params(ChemicalParams)
  BY Zenon DEF AllLegacyParams
<1>4. 2 .. 7 = {2, 3, 4, 5, 6, 7}
  BY SMT
<1>5. UNION {Params(RuleTable(i)) : i \in 2 .. 7} =
        Params(RuleTable(2)) \cup Params(RuleTable(3)) \cup Params(RuleTable(4))
        \cup Params(RuleTable(5)) \cup Params(RuleTable(6)) \cup Params(RuleTable(7))
  BY <1>4, Zenon
<1> QED
  BY <1>1, <1>2, <1>3, <1>5, Zenon

(* No parameter is in two tables, and no new parameter in any.             *)
LEMMA OneTable ==
    ASSUME NEW i \in 2 .. 7, NEW j \in 2 .. 7, i # j,
           NEW a \in RuleTable(i), NEW b \in RuleTable(j)
    PROVE  a[1] # b[1]
<1>1. ASSUME NEW k \in 2 .. 6 PROVE RuleTable(k) \subseteq ShortTables
  BY <1>1 DEF RuleTable, ShortTables
<1>2. CASE i = 7
  <2>1. ChemicalRow(a)
    BY <1>2, ChemicalRows DEF RuleTable
  <2>2. ~ChemicalNumber(b[1])
    BY <1>1, <1>2, ShortOutOfChemical
  <2> QED
    BY <2>1, <2>2, SMT DEF ChemicalRow
<1>3. CASE j = 7
  <2>1. ChemicalRow(b)
    BY <1>3, ChemicalRows DEF RuleTable
  <2>2. ~ChemicalNumber(a[1])
    BY <1>1, <1>3, ShortOutOfChemical
  <2> QED
    BY <2>1, <2>2, SMT DEF ChemicalRow
<1>4. CASE i # 7 /\ j # 7
  BY <1>4, TablesApart, SMT DEF RuleTable
<1> QED
  BY <1>2, <1>3, <1>4

LEMMA NewParams ==
    ASSUME NEW i \in 2 .. 7, NEW row \in RuleTable(i)
    PROVE  row[2] \notin AllLegacyParams
<1>1. ASSUME NEW k \in 2 .. 6 PROVE RuleTable(k) \subseteq ShortTables
  BY <1>1 DEF RuleTable, ShortTables
<1>2. ASSUME NEW j \in 2 .. 7, NEW b \in RuleTable(j) PROVE row[2] # b[1]
  <2>1. CASE i = 7
    <3>1. ChemicalRow(row)
      BY <2>1, ChemicalRows DEF RuleTable
    <3>2. CASE j = 7
      <4>1. ChemicalRow(b)
        BY <1>2, <3>2, ChemicalRows DEF RuleTable
      <4> QED
        BY <3>1, <4>1, SMT DEF ChemicalRow, ChemicalNumber, NewNumber
    <3>3. CASE j # 7
      <4>1. b \in ShortTables
        BY <1>1, <1>2, <3>3
      <4>2. b[1] \in Nat /\ b[1] < 400000
        BY <4>1, ShortBelowChemical, SMT
      <4> QED
        BY <3>1, <4>2, SMT DEF ChemicalRow, NewNumber
    <3> QED
      BY <3>2, <3>3
  <2>2. CASE i # 7 /\ j = 7
    <3>1. row \in ShortTables
      BY <1>1, <2>2
    <3>2. ChemicalRow(b)
      BY <1>2, <2>2, ChemicalRows DEF RuleTable
    <3>3. ~ChemicalNumber(row[2])
      BY <3>1, ShortOutOfChemical
    <3> QED
      BY <3>2, <3>3, SMT DEF ChemicalRow
  <2>3. CASE i # 7 /\ j # 7
    BY <1>1, <1>2, <2>3, NewIsNotLegacy
  <2> QED
    BY <2>1, <2>2, <2>3
<1> QED
  <2>1. \A p \in AllLegacyParams : \E j \in 2 .. 7 : p \in Params(RuleTable(j))
    BY ParamsOfTables
  <2>2. \A j \in 2 .. 7 : \A p \in Params(RuleTable(j)) : \E b \in RuleTable(j) : p = b[1]
    BY DEF Params
  <2> QED
    BY <1>2, <2>1, <2>2

----------------------------------------------------------------------------
(* A request, as a function from its keys, with what the rules ask for.    *)
IsDictionary(d) == d = [k \in DOMAIN d |-> d[k]]
IsRequest(in) == IsDictionary(in) /\ Has(in, "stream") /\ Has(in, "param")

(* A rule sets only what the request says already.                         *)
Rewrites(u, d) == \A k \in DOMAIN u.mars : k \in DOMAIN d /\ u.mars[k] = d[k]

(* d is f over g.                                                          *)
Over(f, g, d) ==
    /\ IsDictionary(d)
    /\ DOMAIN d = DOMAIN f \cup DOMAIN g
    /\ \A k \in DOMAIN f : d[k] = f[k]
    /\ \A k \in DOMAIN g \ DOMAIN f : d[k] = g[k]

LEMMA OverIsOver ==
    ASSUME NEW f, NEW g
    PROVE  Over(f, g, f ++ g)
BY DEF ++, IsDictionary, Over

LEMMA OverItself ==
    ASSUME NEW u, NEW d, IsDictionary(d), Rewrites(u, d)
    PROVE  u.mars ++ d = d
<1>1. DOMAIN u.mars \cup DOMAIN d = DOMAIN d
  BY DEF Rewrites
<1>2. \A k \in DOMAIN d : (IF k \in DOMAIN u.mars THEN u.mars[k] ELSE d[k]) = d[k]
  BY DEF Rewrites
<1>3. u.mars ++ d = [k \in DOMAIN d |-> IF k \in DOMAIN u.mars THEN u.mars[k] ELSE d[k]]
  BY <1>1 DEF ++
<1> QED
  BY <1>2, <1>3 DEF IsDictionary

LEMMA SevenRules ==
    ASSUME NEW in
    PROVE  /\ Len(Rules(in)) = 7 /\ DOMAIN Rules(in) = 1 .. 7
           /\ Rules(in)[1] = ConvertWave2Oper(in)
           /\ Rules(in)[2] = ConvertECC1806(in)
           /\ Rules(in)[3] = ConvertSFC2SOL(in)
           /\ Rules(in)[4] = ConvertLocal2WMO(in)
           /\ Rules(in)[5] = FixTimespan(in)
           /\ Rules(in)[6] = FixWindspeed(in)
           /\ Rules(in)[7] = ConvertChemical(in)
BY DEF Rules

LEMMA UnchangedByAll ==
    ASSUME NEW rules, Len(rules) = 7, NEW d, IsDictionary(d),
           \A i \in 1 .. 7 : Rewrites(rules[i], d)
    PROVE  Applied(rules, d).mars = d
<1>1. ASSUME NEW i \in 1 .. 7, NEW v, v.mars = d
      PROVE  Both(rules[i], v).mars = d
  BY <1>1, OverItself DEF Both
<1> DEFINE v0 == [mars |-> d, misc |-> NoKeys]
           v1 == Both(rules[1], v0)
           v2 == Both(rules[2], v1)
           v3 == Both(rules[3], v2)
           v4 == Both(rules[4], v3)
           v5 == Both(rules[5], v4)
           v6 == Both(rules[6], v5)
           v7 == Both(rules[7], v6)
<1>2. Applied(rules, d) = v7
  BY RuleByRule
<1>3. v0.mars = d
  OBVIOUS
<1> HIDE DEF v0
<1>4. v1.mars = d
  BY <1>1, <1>3
<1> HIDE DEF v1
<1>5. v2.mars = d
  BY <1>1, <1>4
<1> HIDE DEF v2
<1>6. v3.mars = d
  BY <1>1, <1>5
<1> HIDE DEF v3
<1>7. v4.mars = d
  BY <1>1, <1>6
<1> HIDE DEF v4
<1>8. v5.mars = d
  BY <1>1, <1>7
<1> HIDE DEF v5
<1>9. v6.mars = d
  BY <1>1, <1>8
<1> HIDE DEF v6
<1>10. v7.mars = d
  BY <1>1, <1>9
<1> QED
  BY <1>2, <1>10

(* A rule is silent about a parameter that is not in its table.            *)
LEMMA SilentOutside ==
    ASSUME NEW in, NEW i \in 2 .. 7, in.param \notin Params(RuleTable(i)),
           i = 3 => in.param \notin ParamsWithLayer \/ ~Has(in, "levelist")
    PROVE  Rules(in)[i] = Unchanged
<1>1. CASE i = 2
  BY <1>1, SevenRules, ParamsOfTables DEF ConvertECC1806
<1>2. CASE i = 3
  BY <1>2, SevenRules DEF ConvertSFC2SOL, RuleTable
<1>3. CASE i = 4
  BY <1>3, SevenRules DEF ConvertLocal2WMO, RuleTable
<1>4. CASE i = 5
  <2>1. in.param \notin Params(WindowParams)
    BY <1>4 DEF RuleTable
  <2>2. FixTimespan(in) = Unchanged
    BY <2>1 DEF FixTimespan
  <2> QED
    BY <1>4, <2>2, SevenRules
<1>5. CASE i = 6
  BY <1>5, SevenRules DEF FixWindspeed, RuleTable
<1>6. CASE i = 7
  BY <1>6, SevenRules DEF ConvertChemical, RuleTable
<1> QED
  BY <1>1, <1>2, <1>3, <1>4, <1>5, <1>6

(* What the rule of a table sets.                                          *)
LEMMA SetsTheParam ==
    ASSUME NEW in, NEW i \in 2 .. 7, in.param \in Params(RuleTable(i)),
           i = 6 => Has(in, "levtype") /\ in.levtype = "SFC"
    PROVE  LET set == Rules(in)[i].mars
           IN  /\ DOMAIN set \subseteq
                     {"param", "levtype", "levelist", "timespan", "chem", "wavelength"}
               /\ "param" \in DOMAIN set
               /\ \E row \in RuleTable(i) : set.param = row[2]
               /\ "levelist" \in DOMAIN set => i \in {3, 6}
               /\ i = 3 => /\ {"levtype", "levelist"} \subseteq DOMAIN set
                           /\ set.levtype = "sol" /\ set.levelist \in 1 .. 4
<1> DEFINE set == Rules(in)[i].mars
           p == in.param
<1>0. RuleTable(2) = RenamedParams \cup DailyParams /\ RuleTable(3) = LayeredParams
      /\ RuleTable(4) = ScaledParams /\ RuleTable(5) = WindowParams
      /\ RuleTable(6) = HeightParams /\ RuleTable(7) = ChemicalParams
  BY DEF RuleTable
<1>00. /\ (i = 2 => set = ConvertECC1806(in).mars)
       /\ (i = 3 => set = ConvertSFC2SOL(in).mars)
       /\ (i = 4 => set = ConvertLocal2WMO(in).mars)
       /\ (i = 5 => set = FixTimespan(in).mars)
       /\ (i = 6 => set = FixWindspeed(in).mars)
       /\ (i = 7 => set = ConvertChemical(in).mars)
  BY SevenRules
<1>1. CASE i = 2
  <2>1. CASE p \in Params(RenamedParams)
    <3>1. set = [param |-> Row(RenamedParams, p)[2]]
      <4>1. ConvertECC1806(in) = Sets([param |-> Row(RenamedParams, p)[2]])
        BY <2>1 DEF ConvertECC1806
      <4> QED
        BY <1>1, <1>00, <4>1 DEF Sets
    <3>2. Row(RenamedParams, p) \in RuleTable(2)
      BY <1>0, <2>1, RowOfTable
    <3> QED
      BY <1>1, <3>1, <3>2
  <2>2. CASE p \notin Params(RenamedParams)
    <3>1. p \in Params(DailyParams)
      BY <1>1, <2>2, ParamsOfTables
    <3>2. set = [param |-> Row(DailyParams, p)[2], timespan |-> [n |-> 24, u |-> "h"]]
      <4>1. ConvertECC1806(in) = SetParamTimespan(Row(DailyParams, p)[2], 24)
        BY <2>2, <3>1 DEF ConvertECC1806
      <4> QED
        BY <1>1, <1>00, <4>1 DEF Sets, SetParamTimespan
    <3>3. Row(DailyParams, p) \in RuleTable(2)
      BY <1>0, <3>1, RowOfTable
    <3> QED
      BY <1>1, <3>2, <3>3
  <2> QED
    BY <2>1, <2>2
<1>2. CASE i = 3
  <2>1. p \in Params(LayeredParams)
    BY <1>0, <1>2
  <2>2. Row(LayeredParams, p) \in LayeredParams
    BY <2>1, RowOfTable
  <2>3. \A row \in LayeredParams : row[3] \in 1 .. 4
    BY SMT DEF LayeredParams
  <2>4. set = [param |-> Row(LayeredParams, p)[2], levtype |-> "sol",
               levelist |-> Row(LayeredParams, p)[3]]
    <3>1. ConvertSFC2SOL(in) =
            SetParamLevel(Row(LayeredParams, p)[2], "sol", Row(LayeredParams, p)[3])
      BY <2>1 DEF ConvertSFC2SOL
    <3> QED
      BY <1>2, <1>00, <3>1 DEF Sets, SetParamLevel
  <2> QED
    BY <1>0, <1>2, <2>2, <2>3, <2>4
<1>3. CASE i = 4
  <2>1. p \in Params(ScaledParams)
    BY <1>0, <1>3
  <2>2. Row(ScaledParams, p) \in RuleTable(4)
    BY <1>0, <2>1, RowOfTable
  <2>3. DOMAIN set = {"param"} /\ set.param = Row(ScaledParams, p)[2]
    <3>1. DOMAIN NoKeys = {}
      BY DEF NoKeys
    <3>2. CASE p = 174
      <4>1. set = NoKeys ++ [param |-> Row(ScaledParams, p)[2]]
        <5>1. ConvertLocal2WMO(in) = Both(Climatological, SetParamScale(Row(ScaledParams, p)))
          BY <2>1, <3>2 DEF ConvertLocal2WMO
        <5> QED
          BY <1>3, <1>00, <5>1 DEF SetParamScale, Climatological, Both
      <4> QED
        BY <3>1, <4>1 DEF ++
    <3>3. CASE p # 174
      <4>1. set = [param |-> Row(ScaledParams, p)[2]]
        <5>1. ConvertLocal2WMO(in) = SetParamScale(Row(ScaledParams, p))
          BY <2>1, <3>3 DEF ConvertLocal2WMO
        <5> QED
          BY <1>3, <1>00, <5>1 DEF SetParamScale
      <4> QED
        BY <4>1
    <3> QED
      BY <3>2, <3>3
  <2> QED
    BY <1>3, <2>2, <2>3
<1>4. CASE i = 5
  <2>1. p \in Params(WindowParams)
    BY <1>0, <1>4
  <2>2. Row(WindowParams, p) \in RuleTable(5)
    BY <1>0, <2>1, RowOfTable
  <2>3. set = (IF Row(WindowParams, p)[3] = 0 THEN [param |-> Row(WindowParams, p)[2]]
               ELSE [param |-> Row(WindowParams, p)[2],
                     timespan |-> [n |-> Row(WindowParams, p)[3], u |-> "h"]])
    <3>1. FixTimespan(in) =
            IF Row(WindowParams, p)[3] = 0 THEN Sets([param |-> Row(WindowParams, p)[2]])
            ELSE SetParamTimespan(Row(WindowParams, p)[2], Row(WindowParams, p)[3])
      BY <2>1 DEF FixTimespan
    <3> QED
      BY <1>4, <1>00, <3>1 DEF Sets, SetParamTimespan
  <2> QED
    BY <1>4, <2>2, <2>3
<1>5. CASE i = 6
  <2>1. p \in Params(HeightParams)
    BY <1>0, <1>5
  <2>2. Row(HeightParams, p) \in RuleTable(6)
    BY <1>0, <2>1, RowOfTable
  <2>3. set = [param |-> Row(HeightParams, p)[2], levtype |-> "hl",
               levelist |-> Row(HeightParams, p)[3]]
    <3>1. FixWindspeed(in) =
            SetParamLevel(Row(HeightParams, p)[2], "hl", Row(HeightParams, p)[3])
      BY <1>5, <2>1 DEF FixWindspeed
    <3> QED
      BY <1>5, <1>00, <3>1 DEF Sets, SetParamLevel
  <2> QED
    BY <1>5, <2>2, <2>3
<1>6. CASE i = 7
  <2>1. p \in Params(ChemicalParams)
    BY <1>0, <1>6
  <2>2. Row(ChemicalParams, p) \in RuleTable(7)
    BY <1>0, <2>1, RowOfTable
  <2> DEFINE row == Row(ChemicalParams, p)
             wave == IF row[4] = 0 THEN NoKeys ELSE [wavelength |-> Double(row[4])]
  <2>3. set = [param |-> row[2], chem |-> row[3]] ++ wave
    <3>1. ConvertChemical(in) = SetParamChem(row)
      BY <2>1 DEF ConvertChemical
    <3> QED
      BY <1>6, <1>00, <3>1 DEF SetParamChem, Sets
  <2>4. DOMAIN wave \subseteq {"wavelength"}
    BY DEF NoKeys
  <2> HIDE DEF row, wave
  <2>5. DOMAIN set \subseteq {"param", "chem", "wavelength"} /\ "param" \in DOMAIN set
        /\ set.param = row[2]
    BY <2>3, <2>4 DEF ++
  <2> QED
    BY <1>6, <2>2, <2>5 DEF row
<1> QED
  BY <1>1, <1>2, <1>3, <1>4, <1>5, <1>6

(* What the seven rules set, key by key.                                   *)
LEMMA FinalRequest ==
    ASSUME NEW rules, Len(rules) = 7, NEW in, NothingOverwritten(rules), DOMAIN rules = 1 .. 7
    PROVE  LET out == Applied(rules, in).mars
           IN  /\ IsDictionary(out)
               /\ DOMAIN out = DOMAIN in \cup UNION {DOMAIN rules[i].mars : i \in 1 .. 7}
               /\ \A i \in 1 .. 7 : \A k \in DOMAIN rules[i].mars : out[k] = rules[i].mars[k]
               /\ \A k \in DOMAIN in :
                      (\A i \in 1 .. 7 : k \notin DOMAIN rules[i].mars) => out[k] = in[k]
<1> DEFINE out == Applied(rules, in).mars
           d1 == rules[1].mars ++ in
           d2 == rules[2].mars ++ d1
           d3 == rules[3].mars ++ d2
           d4 == rules[4].mars ++ d3
           d5 == rules[5].mars ++ d4
           d6 == rules[6].mars ++ d5
           d7 == rules[7].mars ++ d6
<1>1. out = d7
  BY RuleByRule DEF Both
<1>2. \A i, j \in 1 .. 7 : i # j => DOMAIN rules[i].mars \cap DOMAIN rules[j].mars = {}
  BY DEF NothingOverwritten
<1>3. 1 .. 7 = {1, 2, 3, 4, 5, 6, 7}
  OBVIOUS
<1>4. UNION {DOMAIN rules[i].mars : i \in 1 .. 7} =
        DOMAIN rules[1].mars \cup DOMAIN rules[2].mars \cup DOMAIN rules[3].mars
        \cup DOMAIN rules[4].mars \cup DOMAIN rules[5].mars \cup DOMAIN rules[6].mars
        \cup DOMAIN rules[7].mars
  BY <1>3, Zenon
<1>5. /\ Over(rules[1].mars, in, d1) /\ Over(rules[2].mars, d1, d2)
      /\ Over(rules[3].mars, d2, d3) /\ Over(rules[4].mars, d3, d4)
      /\ Over(rules[5].mars, d4, d5) /\ Over(rules[6].mars, d5, d6)
      /\ Over(rules[7].mars, d6, d7)
  BY OverIsOver
<1> HIDE DEF out, d1, d2, d3, d4, d5, d6, d7
<1>6. DOMAIN out = DOMAIN in \cup UNION {DOMAIN rules[i].mars : i \in 1 .. 7}
  BY <1>1, <1>4, <1>5, Zenon DEF Over
<1>7. IsDictionary(out)
  BY <1>1, <1>5 DEF Over
<1>8. ASSUME NEW k \in DOMAIN in, \A i \in 1 .. 7 : k \notin DOMAIN rules[i].mars
      PROVE  out[k] = in[k]
  <2>1. /\ k \notin DOMAIN rules[1].mars /\ k \notin DOMAIN rules[2].mars
        /\ k \notin DOMAIN rules[3].mars /\ k \notin DOMAIN rules[4].mars
        /\ k \notin DOMAIN rules[5].mars /\ k \notin DOMAIN rules[6].mars
        /\ k \notin DOMAIN rules[7].mars
    BY <1>3, <1>8
  <2> QED
    BY <1>1, <1>5, <1>8, <2>1 DEF Over
<1>9. ASSUME NEW i \in 1 .. 7, NEW k \in DOMAIN rules[i].mars
       PROVE  out[k] = rules[i].mars[k]
  <2>0. \A j \in 1 .. 7 : j # i => k \notin DOMAIN rules[j].mars
    BY <1>2
  <2>1. CASE i = 1
    <3>1. /\ k \notin DOMAIN rules[2].mars
          /\ k \notin DOMAIN rules[3].mars /\ k \notin DOMAIN rules[4].mars
          /\ k \notin DOMAIN rules[5].mars /\ k \notin DOMAIN rules[6].mars
          /\ k \notin DOMAIN rules[7].mars
      BY <2>0, <2>1
    <3> QED
      BY <1>1, <1>5, <2>1, <3>1 DEF Over
  <2>2. CASE i = 2
    <3>1. /\ k \notin DOMAIN rules[3].mars /\ k \notin DOMAIN rules[4].mars
          /\ k \notin DOMAIN rules[5].mars /\ k \notin DOMAIN rules[6].mars
          /\ k \notin DOMAIN rules[7].mars
      BY <2>0, <2>2
    <3> QED
      BY <1>1, <1>5, <2>2, <3>1 DEF Over
  <2>3. CASE i = 3
    <3>1. /\ k \notin DOMAIN rules[4].mars
          /\ k \notin DOMAIN rules[5].mars /\ k \notin DOMAIN rules[6].mars
          /\ k \notin DOMAIN rules[7].mars
      BY <2>0, <2>3
    <3> QED
      BY <1>1, <1>5, <2>3, <3>1 DEF Over
  <2>4. CASE i = 4
    <3>1. /\ k \notin DOMAIN rules[5].mars /\ k \notin DOMAIN rules[6].mars
          /\ k \notin DOMAIN rules[7].mars
      BY <2>0, <2>4
    <3> QED
      BY <1>1, <1>5, <2>4, <3>1 DEF Over
  <2>5. CASE i = 5
    <3>1. k \notin DOMAIN rules[6].mars /\ k \notin DOMAIN rules[7].mars
      BY <2>0, <2>5
    <3> QED
      BY <1>1, <1>5, <2>5, <3>1 DEF Over
  <2>6. CASE i = 6
    <3>1. k \notin DOMAIN rules[7].mars
      BY <2>0, <2>6
    <3> QED
      BY <1>1, <1>5, <2>6, <3>1 DEF Over
  <2>7. CASE i = 7
    BY <1>1, <1>5, <2>7 DEF Over
  <2> QED
    BY <1>3, <2>1, <2>2, <2>3, <2>4, <2>5, <2>6, <2>7
<1> QED
  BY <1>6, <1>7, <1>8, <1>9 DEF out

LEMMA OneRuleAlone ==
    ASSUME NEW in, ~Has(in, "levelist")
    PROVE  NothingOverwritten(Rules(in))
<1>1. ASSUME NEW i \in 2 .. 7, NEW j \in 2 .. 7, i # j
      PROVE  Rules(in)[i] = Unchanged \/ Rules(in)[j] = Unchanged
  <2>1. ~(in.param \in Params(RuleTable(i)) /\ in.param \in Params(RuleTable(j)))
    BY <1>1, OneTable DEF Params
  <2> QED
    BY <2>1, SilentOutside
<1>2. DOMAIN Unchanged.mars = {}
  BY DEF Unchanged, NoKeys
<1>3. ASSUME NEW i \in 2 .. 7
      PROVE  "stream" \notin DOMAIN Rules(in)[i].mars
  <2>1. CASE in.param \notin Params(RuleTable(i))
    BY <1>2, <2>1, SilentOutside
  <2>2. CASE i = 6 /\ ~(Has(in, "levtype") /\ in.levtype = "SFC")
    <3>1. FixWindspeed(in) = Unchanged
      BY <2>2 DEF FixWindspeed
    <3> QED
      BY <1>2, <2>2, <3>1, SevenRules
  <2>3. CASE /\ in.param \in Params(RuleTable(i))
             /\ i = 6 => Has(in, "levtype") /\ in.levtype = "SFC"
    <3>1. DOMAIN Rules(in)[i].mars \subseteq
             {"param", "levtype", "levelist", "timespan", "chem", "wavelength"}
      BY <2>3, SetsTheParam
    <3> QED
      BY <3>1
  <2> QED
    BY <2>1, <2>2, <2>3
<1>4. DOMAIN Rules(in)[1].mars \subseteq {"stream"}
  <2>1. CASE in.stream = "wave"
    BY <2>1, SevenRules DEF ConvertWave2Oper, Sets
  <2>2. CASE in.stream # "wave"
    BY <1>2, <2>2, SevenRules DEF ConvertWave2Oper
  <2> QED
    BY <2>1, <2>2
<1>5. ASSUME NEW i \in 1 .. 7, NEW j \in 1 .. 7, i # j
      PROVE  DOMAIN Rules(in)[i].mars \cap DOMAIN Rules(in)[j].mars = {}
  <2>1. CASE i = 1
    <3>1. j \in 2 .. 7
      BY <1>5, <2>1
    <3> QED
      BY <1>3, <1>4, <2>1, <3>1
  <2>2. CASE j = 1
    <3>1. i \in 2 .. 7
      BY <1>5, <2>2
    <3> QED
      BY <1>3, <1>4, <2>2, <3>1
  <2>3. CASE i # 1 /\ j # 1
    <3>1. i \in 2 .. 7 /\ j \in 2 .. 7
      BY <2>3
    <3> QED
      BY <1>1, <1>2, <1>5, <3>1
  <2> QED
    BY <2>1, <2>2, <2>3
<1> QED
  BY <1>5, SevenRules DEF NothingOverwritten

(* The second time nothing is left to be done.                             *)
LEMMA ConvertedStays ==
    ASSUME NEW in, IsRequest(in), ~Has(in, "levelist"), in.param \in AllLegacyParams
    PROVE  ConvertAll(ConvertAll(in)[1].mars)[1].mars = ConvertAll(in)[1].mars
<1> DEFINE out == Applied(Rules(in), in).mars
           again == Rules(out)
<1>1. \A d : Has(d, "stream") /\ Has(d, "param") => ConvertAll(d)[1] = Applied(Rules(d), d)
  BY DEF ConvertAll, If, Has
<1>2. /\ IsDictionary(out)
      /\ DOMAIN out = DOMAIN in \cup UNION {DOMAIN Rules(in)[i].mars : i \in 1 .. 7}
      /\ \A i \in 1 .. 7 : \A k \in DOMAIN Rules(in)[i].mars : out[k] = Rules(in)[i].mars[k]
      /\ \A k \in DOMAIN in :
             (\A i \in 1 .. 7 : k \notin DOMAIN Rules(in)[i].mars) => out[k] = in[k]
  BY OneRuleAlone, SevenRules, FinalRequest
<1>3. Has(out, "stream") /\ Has(out, "param")
  BY <1>2 DEF IsRequest, Has
<1>4. DOMAIN Unchanged.mars = {} /\ \A d : Rewrites(Unchanged, d)
  BY DEF Unchanged, NoKeys, Rewrites
<1>5. PICK n \in 2 .. 7 : in.param \in Params(RuleTable(n))
  BY ParamsOfTables
<1>6. ASSUME NEW j \in 2 .. 7, j # n PROVE Rules(in)[j] = Unchanged
  <2>1. in.param \notin Params(RuleTable(j))
    BY <1>5, <1>6, OneTable DEF Params
  <2> QED
    BY <2>1, SilentOutside
<1> DEFINE set == Rules(in)[n].mars
           fires == n = 6 => Has(in, "levtype") /\ in.levtype = "SFC"
<1>7. fires =>
         /\ DOMAIN set \subseteq {"param", "levtype", "levelist", "timespan", "chem", "wavelength"}
         /\ "param" \in DOMAIN set
         /\ \E row \in RuleTable(n) : set.param = row[2]
         /\ "levelist" \in DOMAIN set => n \in {3, 6}
         /\ n = 3 => /\ {"levtype", "levelist"} \subseteq DOMAIN set
                     /\ set.levtype = "sol" /\ set.levelist \in 1 .. 4
  BY <1>5, SetsTheParam
<1>8. ~fires => Rules(in)[n] = Unchanged
  BY SevenRules DEF FixWindspeed
<1>9. "stream" \notin DOMAIN set
  BY <1>4, <1>7, <1>8
<1>10. DOMAIN Rules(in)[1].mars \subseteq {"stream"}
  BY <1>4, SevenRules DEF ConvertWave2Oper, Sets
<1>11. ASSUME NEW k, k # "stream", k \notin DOMAIN set, NEW i \in 1 .. 7
       PROVE  k \notin DOMAIN Rules(in)[i].mars
  <2>1. i = 1 \/ i \in 2 .. 7
    OBVIOUS
  <2> QED
    BY <1>4, <1>6, <1>10, <1>11, <2>1
<1>12. out.stream # "wave"
  <2>1. CASE in.stream = "wave"
    <3>1. Rules(in)[1].mars = [stream |-> "oper"]
      BY <2>1, SevenRules DEF ConvertWave2Oper, Sets
    <3>2. out.stream = "oper"
      BY <1>2, <3>1
    <3> QED
      BY <3>2
  <2>2. CASE in.stream # "wave"
    <3>1. Rules(in)[1] = Unchanged
      BY <2>2, SevenRules DEF ConvertWave2Oper
    <3>2. ASSUME NEW i \in 1 .. 7 PROVE "stream" \notin DOMAIN Rules(in)[i].mars
      <4>1. i = 1 \/ i = n \/ (i \in 2 .. 7 /\ i # n)
        OBVIOUS
      <4> QED
        BY <1>4, <1>6, <1>9, <3>1, <4>1
    <3>3. out.stream = in.stream
      BY <1>2, <3>2 DEF IsRequest, Has
    <3> QED
      BY <2>2, <3>3
  <2> QED
    BY <2>1, <2>2
<1> HIDE DEF out
<1>13. Rewrites(again[1], out)
  BY <1>4, <1>12, SevenRules DEF ConvertWave2Oper
<1>14. CASE fires
  <2>1. /\ "param" \in DOMAIN set /\ out.param = set.param
        /\ out.param \notin AllLegacyParams
    BY <1>2, <1>7, <1>14, NewParams
  <2>2. ASSUME NEW j \in 2 .. 7 PROVE out.param \notin Params(RuleTable(j))
    BY <2>1, ParamsOfTables
  <2>3. ASSUME NEW j \in 2 .. 7, j # 3 PROVE again[j] = Unchanged
    BY <2>2, <2>3, SilentOutside
  <2>4. out.param \notin Params(LayeredParams)
    BY <2>2 DEF RuleTable
  <2>5. again[3] = ConvertSFC2SOL(out)
    BY SevenRules
  <2>6. \/ again[3] = Unchanged
        \/ /\ out.param \in ParamsWithLayer /\ Has(out, "levelist")
           /\ again[3] = SetParamLevel(out.param, "sol", out.levelist)
    BY <2>4, <2>5 DEF ConvertSFC2SOL
  <2>7. ASSUME out.param \in ParamsWithLayer, Has(out, "levelist")
        PROVE  Has(out, "levtype") /\ out.levtype = "sol"
    <3>1. CASE n = 3
      BY <1>2, <1>7, <1>14, <3>1 DEF Has
    <3>2. CASE n = 6
      <4>1. \A row \in HeightParams : row[2] \notin ParamsWithLayer
        BY SMT DEF HeightParams, ParamsWithLayer
      <4>2. RuleTable(n) = HeightParams
        BY <3>2 DEF RuleTable
      <4> QED
        BY <1>7, <1>14, <2>1, <2>7, <4>1, <4>2
    <3>3. CASE n \notin {3, 6}
      <4>1. "levelist" \notin DOMAIN set
        BY <1>7, <1>14, <3>3
      <4>2. "levelist" \notin DOMAIN out
        BY <1>2, <1>11, <4>1 DEF Has
      <4> QED
        BY <2>7, <4>2 DEF Has
    <3> QED
      BY <3>1, <3>2, <3>3
  <2>8. Rewrites(again[3], out)
    <3>1. CASE again[3] = Unchanged
      BY <1>4, <3>1
    <3>2. CASE again[3] # Unchanged
      <4>1. again[3].mars = [param |-> out.param, levtype |-> "sol", levelist |-> out.levelist]
        BY <2>6, <3>2 DEF SetParamLevel, Sets
      <4>2. Has(out, "levelist") /\ Has(out, "levtype") /\ out.levtype = "sol"
        BY <2>6, <2>7, <3>2
      <4> QED
        BY <1>3, <4>1, <4>2 DEF Rewrites, Has
    <3> QED
      BY <3>1, <3>2
  <2> QED
    <3>1. ASSUME NEW i \in 1 .. 7 PROVE Rewrites(again[i], out)
      <4>1. i = 1 \/ i = 3 \/ (i \in 2 .. 7 /\ i # 3)
        OBVIOUS
      <4> QED
        BY <1>4, <1>13, <2>3, <2>8, <4>1
    <3> HIDE DEF again
    <3>2. Applied(again, out).mars = out
      BY <1>2, <3>1, UnchangedByAll, SevenRules DEF again
    <3> QED
      BY <1>1, <1>3, <3>2 DEF again, out, IsRequest
<1>15. CASE ~fires
  <2>1. set = Unchanged.mars
    BY <1>8, <1>15
  <2>2. ASSUME NEW k, k # "stream", NEW i \in 1 .. 7 PROVE k \notin DOMAIN Rules(in)[i].mars
    BY <1>4, <1>11, <2>1, <2>2
  <2>3. DOMAIN out \ {"stream"} = DOMAIN in \ {"stream"}
    BY <1>2, <2>2
  <2>4. \A k \in DOMAIN in \ {"stream"} : out[k] = in[k]
    BY <1>2, <2>2
  <2>5. out.param = in.param /\ ~Has(out, "levelist")
    BY <2>3, <2>4 DEF IsRequest, Has
  <2>6. ASSUME NEW j \in 2 .. 7 PROVE again[j] = Unchanged
    <3>1. CASE j = 6
      <4>1. ~(Has(out, "levtype") /\ out.levtype = "SFC")
        BY <1>15, <2>3, <2>4 DEF Has
      <4>2. FixWindspeed(out) = Unchanged
        BY <4>1 DEF FixWindspeed
      <4> QED
        BY <3>1, <4>2, SevenRules
    <3>2. CASE j # 6
      <4>1. n = 6
        BY <1>15
      <4>2. out.param \notin Params(RuleTable(j))
        BY <1>5, <2>5, <3>2, <4>1, OneTable DEF Params
      <4> QED
        BY <2>5, <4>2, SilentOutside
    <3> QED
      BY <3>1, <3>2
  <2>7. ASSUME NEW i \in 1 .. 7 PROVE Rewrites(again[i], out)
    <3>1. i = 1 \/ i \in 2 .. 7
      OBVIOUS
    <3> QED
      BY <1>4, <1>13, <2>6, <3>1
  <2> HIDE DEF again
  <2>8. Applied(again, out).mars = out
    BY <1>2, <2>7, UnchangedByAll, SevenRules DEF again
  <2> QED
    BY <1>1, <1>3, <2>8 DEF again, out, IsRequest
<1> QED
  BY <1>14, <1>15

(* Whatever the message, for every legacy parameter in its place the rules *)
(* do not touch each other's keys, and a second conversion changes nothing *)
(* (RulesSettle; convertAll of mars2mars calls them in a fixed order).     *)
THEOREM TheRulesSettle == Spec => []RulesSettle
<1>1. ASSUME Has(original.mars, "stream"), ~Has(original.mars, "levelist"),
             NEW p \in AllLegacyParams
      PROVE  LET in == [param |-> p] ++ original.mars
             IN  /\ NothingOverwritten(Rules(in))
                 /\ ConvertAll(ConvertAll(in)[1].mars)[1].mars = ConvertAll(in)[1].mars
  <2> DEFINE in == [param |-> p] ++ original.mars
  <2>1. /\ IsDictionary(in)
        /\ DOMAIN in = {"param"} \cup DOMAIN original.mars
        /\ in.param = p
    <3> DEFINE new == [param |-> p]
    <3>1. DOMAIN new = {"param"} /\ new["param"] = p
      OBVIOUS
    <3>2. Over(new, original.mars, in)
      BY OverIsOver
    <3> HIDE DEF new, in
    <3> QED
      BY <3>1, <3>2 DEF Over
  <2> HIDE DEF in
  <2>2. IsRequest(in) /\ ~Has(in, "levelist")
    BY <1>1, <2>1 DEF IsRequest, Has
  <2>3. NothingOverwritten(Rules(in))
    BY <2>2, OneRuleAlone
  <2>4. ConvertAll(ConvertAll(in)[1].mars)[1].mars = ConvertAll(in)[1].mars
    BY <1>1, <2>1, <2>2, ConvertedStays
  <2> QED
    BY <2>3, <2>4 DEF in
<1>2. RulesSettle
  BY <1>1 DEF RulesSettle
<1> QED
  BY <1>2, PTL

----------------------------------------------------------------------------
(* What a rule of grib2mars writes to the request is the key of its own    *)
(* keyword.                                                                *)
OwnKey(k, w) ==
    /\ DOMAIN w \subseteq {k, "refused"}
    /\ "refused" \in DOMAIN w => w["refused"] = Failed

LEMMA RefusalIsRefused == ASSUME NEW k PROVE OwnKey(k, Refusal.mars)
BY DEF OwnKey, Refusal, ToMars

LEMMA KeywordsWritten ==
    ASSUME NEW k, NEW g
    PROVE  OwnKey(k, ExtractKeyword(k, g).mars) \/ k = "refused"
BY DEF OwnKey, ExtractKeyword, ToMars

LEMMA OwnKeyOnly ==
    ASSUME NEW k, NEW g
    PROVE  OwnKey(k, Extract(k, g).mars)
<1> USE DEF OwnKey, ToMars, Refusal, NoWrites, WherePresent
<1>1. OwnKey("class", ExtractClass(g).mars)
  BY DEF ExtractClass
<1>2. OwnKey("wavelength", ExtractWavelength(g).mars)
  BY DEF ExtractWavelength
<1>3. OwnKey("param", ExtractParam(g).mars)
  BY DEF ExtractParam
<1>4. OwnKey("levtype", ExtractLevtype(g).mars)
  BY DEF ExtractLevtype
<1>5. OwnKey("levelist", ExtractLevelist(g).mars)
  BY DEF ExtractLevelist
<1>6. OwnKey("time", ExtractTime(g).mars)
  BY DEF ExtractTime
<1>7. OwnKey("step", ExtractStep(g).mars)
  BY DEF ExtractStep, ++
<1>8. OwnKey("timespan", ExtractTimespan(g).mars)
  BY DEF ExtractTimespan
<1>9. OwnKey("number", ExtractNumber(g).mars)
  BY DEF ExtractNumber, NumberAndSize
<1>10. OwnKey("origin", ExtractOrigin(g).mars)
  BY DEF ExtractOrigin
<1>11. OwnKey("packing", ExtractPacking(g).mars)
  BY DEF ExtractPacking
<1>12. OwnKey("grid", ExtractGrid(g).mars)
  BY DEF ExtractGrid
<1>13. OwnKey("truncation", ExtractTruncation(g).mars)
  BY DEF ExtractTruncation
<1>14. OwnKey("direction", ExtractDirection(g).mars)
  BY DEF ExtractDirection
<1>15. OwnKey("frequency", ExtractFrequency(g).mars)
  BY DEF ExtractFrequency
<1>16. OwnKey("anoffset", ExtractAnoffset(g).mars)
  BY DEF ExtractAnoffset
<1>17. OwnKey("instrument", ExtractInstrument(g).mars)
  BY DEF ExtractInstrument
<1>18. OwnKey(k, Refusal.mars)
  OBVIOUS
<1> HIDE DEF OwnKey, ToMars, Refusal, NoWrites, WherePresent
<1>19. ASSUME k \in {"stream", "type", "expver", "domain", "date", "hdate", "ident", "channel",
                     "system", "method", "stattype", "activity", "dataset", "experiment",
                     "resolution", "model"}
       PROVE  OwnKey(k, Extract(k, g).mars)
  <2>1. Extract(k, g) = ExtractKeyword(k, g)
    BY <1>19, Zenon DEF Extract, ExtractStream, ExtractType, ExtractExpver, ExtractDomain, ExtractDate,
       ExtractHdate, ExtractIdent, ExtractChannel, ExtractSystem, ExtractMethod, ExtractStattype,
       ExtractActivity, ExtractDataset, ExtractExperiment, ExtractResolution, ExtractModel
  <2> QED
    BY <1>19, <2>1, KeywordsWritten
<1> QED
  BY <1>1, <1>2, <1>3, <1>4, <1>5, <1>6, <1>7, <1>8, <1>9, <1>10, <1>11, <1>12, <1>13, <1>14,
     <1>15, <1>16, <1>17, <1>18, <1>19 DEF Extract

(* The request is made of what the rules of its keywords write.            *)
LEMMA RequestOfMessage ==
    ASSUME NEW g, ConvertToMars(g) # Failed
    PROVE  LET m == ConvertToMars(g)[1].mars
           IN  /\ IsDictionary(m)
               /\ \A k \in MarsKeywords(g) : \A x \in DOMAIN Extract(k, g).mars : x # "refused" /\ Has(m, x)
               /\ \A x \in DOMAIN m : \E k \in MarsKeywords(g) :
                      /\ x \in DOMAIN Extract(k, g).mars /\ Extract(k, g).mars[x] # Failed
                      /\ m[x] = Extract(k, g).mars[x][1]
<1> DEFINE rules == {Extract(k, g) : k \in MarsKeywords(g)} \cup {ExtractMisc(g)}
           writes == {r.mars : r \in rules}
           mars == Combine(writes)
           aux == Combine({r.misc : r \in rules})
           m == ConvertToMars(g)[1].mars
<1>1. Succeeds(mars) /\ m = Values(mars)
  <2>1. ConvertToMars(g) = If(Succeeds(mars) /\ Succeeds(aux),
                              [mars |-> Values(mars), misc |-> Values(aux)])
    BY Zenon DEF ConvertToMars
  <2> HIDE DEF mars, aux
  <2> QED
    BY <2>1 DEF If, Found
<1>2. /\ \A k \in MarsKeywords(g) : Extract(k, g).mars \in writes
      /\ \A w \in writes : w = NoWrites \/ \E k \in MarsKeywords(g) : w = Extract(k, g).mars
  BY DEF ExtractMisc
<1> HIDE DEF writes
<1>3. DOMAIN mars = UNION {DOMAIN w : w \in writes}
  BY DEF Combine
<1>4. ASSUME NEW x \in DOMAIN mars
      PROVE  \E k \in MarsKeywords(g) :
                x \in DOMAIN Extract(k, g).mars /\ mars[x] = Extract(k, g).mars[x]
  <2>1. \E w \in writes : x \in DOMAIN w
    BY <1>3
  <2> DEFINE w == CHOOSE w \in writes : x \in DOMAIN w
  <2>2. w \in writes /\ x \in DOMAIN w
    BY <2>1
  <2>3. mars[x] = w[x]
    BY <1>3 DEF Combine
  <2> HIDE DEF w
  <2>4. w # NoWrites
    BY <2>2 DEF NoWrites
  <2> QED
    BY <1>2, <2>2, <2>3, <2>4
<1> HIDE DEF mars
<1>5. \A x \in DOMAIN mars : mars[x] # Failed
  BY <1>1 DEF Succeeds
<1>6. DOMAIN m = DOMAIN mars /\ IsDictionary(m) /\ \A x \in DOMAIN m : m[x] = mars[x][1]
  BY <1>1 DEF Values, IsDictionary
<1> HIDE DEF m
<1>7. "refused" \notin DOMAIN mars
  BY <1>4, <1>5, OwnKeyOnly DEF OwnKey
<1>8. ASSUME NEW k \in MarsKeywords(g), NEW x \in DOMAIN Extract(k, g).mars
      PROVE  x # "refused" /\ x \in DOMAIN m
  BY <1>2, <1>3, <1>6, <1>7
<1>9. ASSUME NEW x \in DOMAIN m
      PROVE  \E k \in MarsKeywords(g) :
                /\ x \in DOMAIN Extract(k, g).mars /\ Extract(k, g).mars[x] # Failed
                /\ m[x] = Extract(k, g).mars[x][1]
  BY <1>4, <1>5, <1>6
<1> QED
  BY <1>6, <1>8, <1>9 DEF m, Has

LEMMA OfItsKeyword ==
    ASSUME NEW g, ConvertToMars(g) # Failed, NEW k
    PROVE  LET m == ConvertToMars(g)[1].mars
           IN  Has(m, k) => /\ k \in MarsKeywords(g)
                            /\ k \in DOMAIN Extract(k, g).mars
                            /\ Extract(k, g).mars[k] # Failed
                            /\ m[k] = Extract(k, g).mars[k][1]
<1> DEFINE m == ConvertToMars(g)[1].mars
<1>1. SUFFICES ASSUME k \in DOMAIN m
               PROVE  /\ k \in MarsKeywords(g)
                      /\ k \in DOMAIN Extract(k, g).mars
                      /\ Extract(k, g).mars[k] # Failed
                      /\ m[k] = Extract(k, g).mars[k][1]
  BY DEF Has
<1>2. PICK o \in MarsKeywords(g) :
          /\ k \in DOMAIN Extract(o, g).mars /\ Extract(o, g).mars[k] # Failed
          /\ m[k] = Extract(o, g).mars[k][1]
  BY <1>1, RequestOfMessage
<1>3. k # "refused"
  BY <1>2, RequestOfMessage
<1>4. o = k
  BY <1>2, <1>3, OwnKeyOnly DEF OwnKey
<1> QED
  BY <1>2, <1>4

(* The keywords that the program adds to those of the message.             *)
LEMMA KeywordsAdded ==
    ASSUME NEW g, NEW k \in MarsKeywords(g)
    PROVE  k \in g.namespace \cup {"packing", "grid", "truncation"} \cup RequiredKeywords
BY DEF MarsKeywords, WithGeometry, WithPacking, NamespaceKeywords, AppendUnique, RemoveKeyword

LEMMA KeywordsKept ==
    ASSUME NEW g, NEW k \in g.namespace \ {"grid", "truncation"}
    PROVE  k \in MarsKeywords(g)
BY DEF MarsKeywords, WithGeometry, WithPacking, NamespaceKeywords, AppendUnique, RemoveKeyword

(* The date, the time and the step of the request, and its interval.       *)
LEMMA TimesExtracted ==
    ASSUME NEW g, ConvertToMars(g) # Failed
    PROVE  LET m == ConvertToMars(g)[1].mars
           IN  /\ Has(m, "date") => m.date = g.date
               /\ Has(m, "time") => m.time = g.hour * 10000 + g.minute * 100 + g.second
               /\ "step" \in g.namespace => Has(m, "step")
               /\ Has(m, "step") => m.step = Number(g.endStep)
               /\ \A k \in {"fcyear", "fcmonth", "htime"} : ~Has(m, k)
               /\ \A k \in {"hdate", "stattype"} : Has(m, k) => k \in g.namespace
<1> DEFINE m == ConvertToMars(g)[1].mars
<1>1. ASSUME Has(m, "date") PROVE m.date = g.date
  <2>1. Extract("date", g).mars = [k \in {"date"} |-> Get(g, "date")]
    BY Zenon DEF Extract, ExtractDate, ExtractKeyword, ToMars
  <2> QED
    BY <1>1, <2>1, OfItsKeyword DEF Get, Found
<1>2. ASSUME Has(m, "time") PROVE m.time = g.hour * 10000 + g.minute * 100 + g.second
  <2> DEFINE now == g.hour * 10000 + g.minute * 100 + g.second
             all == {"hour", "minute", "second"} \subseteq DOMAIN g
  <2>1. Extract("time", g).mars = [time |-> If(all, now)]
    <3>1. ExtractTime(g) = ToMars([time |-> If(all, now)])
      BY DEF ExtractTime
    <3>2. Extract("time", g) = ExtractTime(g)
      BY Zenon DEF Extract
    <3> HIDE DEF now, all
    <3> QED
      BY <3>1, <3>2 DEF ToMars
  <2> HIDE DEF now, all, m
  <2>2. If(all, now) # Failed /\ m.time = If(all, now)[1]
    BY <1>2, <2>1, OfItsKeyword DEF m
  <2>3. m.time = now
    BY <2>2 DEF If
  <2> QED
    BY <2>3 DEF now, m
<1>3. ASSUME "step" \in g.namespace PROVE Has(m, "step")
  <2>1. "step" \in MarsKeywords(g)
    BY <1>3, KeywordsKept
  <2>2. Extract("step", g) = ExtractStep(g)
    BY Zenon DEF Extract
  <2>3. ExtractStep(g) # Refusal
    BY <2>1, <2>2, RequestOfMessage DEF Refusal, ToMars
  <2>4. "step" \in DOMAIN ExtractStep(g).mars
    BY <2>3 DEF ExtractStep, ++
  <2> QED
    BY <2>1, <2>2, <2>4, RequestOfMessage
<1>4. ASSUME Has(m, "step") PROVE m.step = Number(g.endStep)
  <2>1. Extract("step", g) = ExtractStep(g)
    BY Zenon DEF Extract
  <2>2. /\ "step" \in DOMAIN ExtractStep(g).mars
        /\ m.step = ExtractStep(g).mars["step"][1]
    BY <1>4, <2>1, OfItsKeyword
  <2>3. ExtractStep(g).mars["step"] = Found(Number(g.endStep))
    BY <2>2 DEF ExtractStep, ++, Refusal, ToMars
  <2> QED
    BY <2>2, <2>3 DEF Found
<1>5. ASSUME NEW k \in {"fcyear", "fcmonth", "htime"} PROVE ~Has(m, k)
  <2>1. Extract(k, g) = Refusal
    BY <1>5, Zenon DEF Extract
  <2>2. k \notin DOMAIN Extract(k, g).mars
    BY <2>1 DEF Refusal, ToMars
  <2> QED
    BY <2>2, OfItsKeyword
<1>6. ASSUME NEW k \in {"hdate", "stattype"}, Has(m, k) PROVE k \in g.namespace
  BY <1>6, OfItsKeyword, KeywordsAdded DEF RequiredKeywords
<1> QED
  BY <1>1, <1>2, <1>3, <1>4, <1>5, <1>6

LEMMA TimespanExtracted ==
    ASSUME NEW g, ConvertToMars(g) # Failed
    PROVE  LET m == ConvertToMars(g)[1].mars
           IN  Has(m, "timespan") =>
                   \/ m.timespan = [n |-> 0, u |-> "none"]
                   \/ /\ g.stepType # "instant"
                      /\ m.timespan = Number(g.endStep - g.startStep)
<1> DEFINE m == ConvertToMars(g)[1].mars
<1>1. SUFFICES ASSUME "timespan" \in DOMAIN m
               PROVE  \/ m.timespan = [n |-> 0, u |-> "none"]
                      \/ /\ g.stepType # "instant"
                         /\ m.timespan = Number(g.endStep - g.startStep)
  BY DEF Has
<1>2. /\ "timespan" \in DOMAIN ExtractTimespan(g).mars
      /\ ExtractTimespan(g).mars["timespan"] # Failed
      /\ m["timespan"] = ExtractTimespan(g).mars["timespan"][1]
  <2>1. Extract("timespan", g) = ExtractTimespan(g)
    BY Zenon DEF Extract
  <2> QED
    BY <1>1, <2>1, OfItsKeyword DEF Has
<1> HIDE DEF m
<1>3. CASE g.stepType = "instant"
  <2>1. ExtractTimespan(g).mars["timespan"] = Found([n |-> 0, u |-> "none"])
    BY <1>2, <1>3 DEF ExtractTimespan, Refusal, ToMars
  <2> QED
    BY <1>2, <2>1 DEF Found, m
<1>4. CASE g.stepType # "instant"
  <2> DEFINE span == If(g.endStep > g.startStep, Number(g.endStep - g.startStep))
  <2>1. ExtractTimespan(g).mars["timespan"] = span
    BY <1>2, <1>4 DEF ExtractTimespan, Refusal, ToMars
  <2>2. span # Failed => span[1] = Number(g.endStep - g.startStep)
    BY DEF If
  <2> QED
    BY <1>2, <1>4, <2>1, <2>2 DEF m
<1> QED
  BY <1>3, <1>4

(* The parameter and the level of the request.                             *)
LEMMA LevelExtracted ==
    ASSUME NEW g, ConvertToMars(g) # Failed
    PROVE  LET m == ConvertToMars(g)[1].mars
           IN  /\ Has(m, "param") => m.param = g.paramId
               /\ Has(m, "levtype") => Has(g, "levtype") /\ m.levtype = g.levtype
               /\ Has(m, "levelist") =>
                      m.levelist = IF g.levtype = "pl" /\ g.pressureUnits = "hPa"
                                   THEN g.level * 100 ELSE g.level
               /\ \A k \in {"frequency", "direction", "channel", "ident", "instrument"} :
                      Has(m, k) => k \in g.namespace
<1> DEFINE m == ConvertToMars(g)[1].mars
<1>1. ASSUME Has(m, "param") PROVE m.param = g.paramId
  <2>1. Extract("param", g).mars = [param |-> Get(g, "paramId")]
    BY Zenon DEF Extract, ExtractParam, ToMars
  <2> QED
    BY <1>1, <2>1, OfItsKeyword DEF Get, Found, Has
<1>2. ASSUME Has(m, "levtype") PROVE Has(g, "levtype") /\ m.levtype = g.levtype
  <2>1. Extract("levtype", g) = ExtractLevtype(g)
    BY Zenon DEF Extract
  <2>2. ExtractLevtype(g).mars = [levtype |-> Get(g, "levtype")]
    BY DEF ExtractLevtype
  <2> QED
    BY <1>2, <2>1, <2>2, OfItsKeyword DEF Get, Found
<1>3. ASSUME Has(m, "levelist")
      PROVE  m.levelist = IF g.levtype = "pl" /\ g.pressureUnits = "hPa"
                                   THEN g.level * 100 ELSE g.level
  <2>1. Extract("levelist", g) = ExtractLevelist(g)
    BY Zenon DEF Extract
  <2>2. /\ "levelist" \in DOMAIN ExtractLevelist(g).mars
        /\ m.levelist = ExtractLevelist(g).mars["levelist"][1]
    BY <1>3, <2>1, OfItsKeyword
  <2> HIDE DEF m
  <2> QED
    BY <2>2 DEF ExtractLevelist, Refusal, ToMars, Found
<1>4. ASSUME NEW k \in {"frequency", "direction", "channel", "ident", "instrument"}, Has(m, k)
      PROVE  k \in g.namespace
  BY <1>4, OfItsKeyword, KeywordsAdded DEF RequiredKeywords
<1> QED
  BY <1>1, <1>2, <1>3, <1>4

(* What each rule may set, and for which parameters.                       *)
LEMMA KeysOfRules ==
    ASSUME NEW in
    PROVE  LET p == in.param
               D(i) == DOMAIN Rules(in)[i].mars
           IN  /\ D(1) \subseteq {"stream"}
               /\ D(2) \subseteq {"param", "timespan"}
               /\ "timespan" \in D(2) => p \in Params(DailyParams)
               /\ D(3) \subseteq {"param", "levtype", "levelist"}
               /\ D(3) # {} => p \in Params(LayeredParams) \cup ParamsWithLayer
               /\ D(4) \subseteq {"param"}
               /\ D(5) \subseteq {"param", "timespan"}
               /\ "timespan" \in D(5) => /\ p \in Params(WindowParams)
                                        /\ Row(WindowParams, p)[3] # 0
               /\ D(6) \subseteq {"param", "levtype", "levelist"}
               /\ D(6) # {} => Has(in, "levtype") /\ in.levtype = "SFC"
               /\ D(7) \subseteq {"param", "chem", "wavelength"}
<1> USE DEF Unchanged, NoKeys, Sets
<1>1. DOMAIN ConvertWave2Oper(in).mars \subseteq {"stream"}
  BY DEF ConvertWave2Oper
<1>2. LET D == DOMAIN ConvertECC1806(in).mars
      IN  /\ D \subseteq {"param", "timespan"}
          /\ "timespan" \in D => in.param \in Params(DailyParams)
  BY DEF ConvertECC1806, SetParamTimespan
<1>3. LET D == DOMAIN ConvertSFC2SOL(in).mars
      IN  /\ D \subseteq {"param", "levtype", "levelist"}
          /\ D # {} => in.param \in Params(LayeredParams) \cup ParamsWithLayer
  BY DEF ConvertSFC2SOL, SetParamLevel
<1>4. DOMAIN ConvertLocal2WMO(in).mars \subseteq {"param"}
  BY DEF ConvertLocal2WMO, Both, Climatological, SetParamScale, ++
<1>5. LET D == DOMAIN FixTimespan(in).mars
      IN  /\ D \subseteq {"param", "timespan"}
          /\ "timespan" \in D => /\ in.param \in Params(WindowParams)
                                /\ Row(WindowParams, in.param)[3] # 0
  BY DEF FixTimespan, SetParamTimespan
<1>6. LET D == DOMAIN FixWindspeed(in).mars
      IN  /\ D \subseteq {"param", "levtype", "levelist"}
          /\ D # {} => Has(in, "levtype") /\ in.levtype = "SFC"
  BY DEF FixWindspeed, SetParamLevel
<1>7. DOMAIN ConvertChemical(in).mars \subseteq {"param", "chem", "wavelength"}
  BY DEF ConvertChemical, SetParamChem, ++
<1> HIDE DEF Unchanged, NoKeys, Sets
<1> QED
  BY <1>1, <1>2, <1>3, <1>4, <1>5, <1>6, <1>7, SevenRules

(* A parameter of layers is no legacy one.                                 *)
LEMMA LayersAreNew ==
    ASSUME NEW p \in ParamsWithLayer, NEW i \in 2 .. 7
    PROVE  p \notin Params(RuleTable(i))
<1>1. \A row \in ShortTables : row[1] # p
  BY SMTT(60) DEF ParamsWithLayer, ShortTables, RenamedParams, DailyParams, LayeredParams,
     ScaledParams, WindowParams, HeightParams
<1>2. ~ChemicalNumber(p)
  BY SMTT(60) DEF ParamsWithLayer, ChemicalNumber
<1>3. \A row \in ChemicalParams : row[1] # p
  BY <1>2, ChemicalRows DEF ChemicalRow
<1> QED
  BY <1>1, <1>3 DEF Params, RuleTable, ShortTables

(* Whatever the request, no two rules set the same key.                    *)
LEMMA RulesApart ==
    ASSUME NEW in
    PROVE  NothingOverwritten(Rules(in))
<1>0. DOMAIN Unchanged.mars = {}
  BY DEF Unchanged, NoKeys
<1>1. ASSUME NEW i \in 2 .. 7, NEW j \in 2 .. 7, i # j
      PROVE  Rules(in)[i] = Unchanged \/ Rules(in)[j] = Unchanged
  <2>1. CASE in.param \in ParamsWithLayer
    <3>1. \A k \in 2 .. 7 : k # 3 => Rules(in)[k] = Unchanged
      BY <2>1, LayersAreNew, SilentOutside
    <3> QED
      BY <1>1, <3>1
  <2>2. CASE in.param \notin ParamsWithLayer
    <3>1. ~(in.param \in Params(RuleTable(i)) /\ in.param \in Params(RuleTable(j)))
      BY <1>1, OneTable DEF Params
    <3> QED
      BY <2>2, <3>1, SilentOutside
  <2> QED
    BY <2>1, <2>2
<1>2. ASSUME NEW i \in 1 .. 7, NEW j \in 1 .. 7, i # j
      PROVE  DOMAIN Rules(in)[i].mars \cap DOMAIN Rules(in)[j].mars = {}
  <2>1. CASE i = 1 \/ j = 1
    <3>1. 1 .. 7 = {1, 2, 3, 4, 5, 6, 7}
      OBVIOUS
    <3> QED
      BY <1>2, <2>1, <3>1, KeysOfRules
  <2>2. CASE i # 1 /\ j # 1
    <3>1. i \in 2 .. 7 /\ j \in 2 .. 7
      BY <2>2
    <3> QED
      BY <1>0, <1>1, <1>2, <3>1
  <2> QED
    BY <2>1, <2>2
<1> QED
  BY <1>2, SevenRules DEF NothingOverwritten

(* The converted request, key by key.                                      *)
RuleKeysOnly == {"stream", "param", "levtype", "levelist", "timespan", "chem", "wavelength"}

Converts(in, out) ==
    /\ \A k : k \notin RuleKeysOnly => (Has(out, k) <=> Has(in, k)) /\ (Has(in, k) => out[k] = in[k])
    /\ \A k \in DOMAIN in :
          (\A i \in 1 .. 7 : k \notin DOMAIN Rules(in)[i].mars) => out[k] = in[k]
    /\ \A k \in DOMAIN out :
          (\A i \in 1 .. 7 : k \notin DOMAIN Rules(in)[i].mars) => k \in DOMAIN in
    /\ \A i \in 1 .. 7 : \A k \in DOMAIN Rules(in)[i].mars : Has(out, k) /\ out[k] = Rules(in)[i].mars[k]

LEMMA RequestConverted ==
    ASSUME NEW in, ConvertAll(in) # Failed
    PROVE  /\ Has(in, "stream") /\ Has(in, "param")
           /\ Converts(in, ConvertAll(in)[1].mars)
<1>1. Has(in, "stream") /\ Has(in, "param") /\ ConvertAll(in)[1] = Applied(Rules(in), in)
  BY DEF ConvertAll, If, Has
<1> DEFINE out == Applied(Rules(in), in).mars
<1>2. /\ DOMAIN out = DOMAIN in \cup UNION {DOMAIN Rules(in)[i].mars : i \in 1 .. 7}
      /\ \A i \in 1 .. 7 : \A k \in DOMAIN Rules(in)[i].mars : out[k] = Rules(in)[i].mars[k]
      /\ \A k \in DOMAIN in :
             (\A i \in 1 .. 7 : k \notin DOMAIN Rules(in)[i].mars) => out[k] = in[k]
  BY RulesApart, SevenRules, FinalRequest
<1> HIDE DEF out
<1>3. \A i \in 1 .. 7 : DOMAIN Rules(in)[i].mars \subseteq RuleKeysOnly
  <2>1. 1 .. 7 = {1, 2, 3, 4, 5, 6, 7}
    OBVIOUS
  <2> QED
    BY <2>1, KeysOfRules DEF RuleKeysOnly
<1>4. ASSUME NEW k \in DOMAIN out, \A i \in 1 .. 7 : k \notin DOMAIN Rules(in)[i].mars
      PROVE  k \in DOMAIN in
  BY <1>2, <1>4
<1>5. ASSUME NEW k, k \notin RuleKeysOnly
      PROVE  (Has(out, k) <=> Has(in, k)) /\ (Has(in, k) => out[k] = in[k])
  BY <1>2, <1>3, <1>4, <1>5 DEF Has
<1> QED
  BY <1>1, <1>2, <1>4, <1>5 DEF Converts, out, Has

(* The interval of the converted request is the window of its parameter,   *)
(* if it has one, and the interval of the request if not.                  *)
HasWindow(p) == p \in Params(WindowParams) /\ Row(WindowParams, p)[3] # 0

LEMMA NoInstants ==
    \A row \in DailyParams \cup WindowParams : row[2] \notin PointInTimeParams
<1> DEFINE new == {228004, 235168, 235326, 237055, 237117, 237167, 237318, 237321, 238055, 238167,
                   260682, 260683}
<1>0. \A row \in DailyParams \cup WindowParams : row[2] \in new
  BY SMT DEF DailyParams, WindowParams
<1>1. 228004 \notin PointInTimeParams
  BY SMTT(30) DEF PointInTimeParams
<1>2. 235168 \notin PointInTimeParams
  BY SMTT(30) DEF PointInTimeParams
<1>3. 235326 \notin PointInTimeParams
  BY SMTT(30) DEF PointInTimeParams
<1>4. 237055 \notin PointInTimeParams
  BY SMTT(30) DEF PointInTimeParams
<1>5. 237117 \notin PointInTimeParams
  BY SMTT(30) DEF PointInTimeParams
<1>6. 237167 \notin PointInTimeParams
  BY SMTT(30) DEF PointInTimeParams
<1>7. 237318 \notin PointInTimeParams
  BY SMTT(30) DEF PointInTimeParams
<1>8. 237321 \notin PointInTimeParams
  BY SMTT(30) DEF PointInTimeParams
<1>9. 238055 \notin PointInTimeParams
  BY SMTT(30) DEF PointInTimeParams
<1>10. 238167 \notin PointInTimeParams
  BY SMTT(30) DEF PointInTimeParams
<1>11. 260682 \notin PointInTimeParams
  BY SMTT(30) DEF PointInTimeParams
<1>12. 260683 \notin PointInTimeParams
  BY SMTT(30) DEF PointInTimeParams
<1>13. \A p \in new : p \notin PointInTimeParams
  BY <1>1, <1>2, <1>3, <1>4, <1>5, <1>6, <1>7, <1>8, <1>9, <1>10, <1>11, <1>12, SMT
<1> QED
  BY <1>0, <1>13

LEMMA OfDay ==
    ASSUME NEW in, in.param \in Params(DailyParams)
    PROVE  Rules(in)[2].mars = [param |-> Row(DailyParams, in.param)[2],
                                timespan |-> [n |-> 24, u |-> "h"]]
<1>1. in.param \notin Params(RenamedParams)
  BY TablesApart DEF Params
<1>2. ConvertECC1806(in) = SetParamTimespan(Row(DailyParams, in.param)[2], 24)
  BY <1>1 DEF ConvertECC1806
<1> QED
  BY <1>2, SevenRules DEF SetParamTimespan, Sets

LEMMA OfWindow ==
    ASSUME NEW in, in.param \in Params(WindowParams)
    PROVE  LET row == Row(WindowParams, in.param)  set == Rules(in)[5].mars
           IN  /\ "param" \in DOMAIN set /\ set.param = row[2]
               /\ row[3] # 0 => "timespan" \in DOMAIN set /\ set.timespan = [n |-> row[3], u |-> "h"]
<1> DEFINE row == Row(WindowParams, in.param)
<1>1. FixTimespan(in) = IF row[3] = 0 THEN Sets([param |-> row[2]]) ELSE SetParamTimespan(row[2], row[3])
  BY DEF FixTimespan
<1>2. Rules(in)[5] = FixTimespan(in)
  BY SevenRules
<1> HIDE DEF row
<1>3. CASE row[3] = 0
  <2>1. Rules(in)[5].mars = [param |-> row[2]]
    BY <1>1, <1>2, <1>3 DEF Sets
  <2> QED
    BY <1>3, <2>1 DEF row
<1>4. CASE row[3] # 0
  <2>1. Rules(in)[5].mars = [param |-> row[2], timespan |-> [n |-> row[3], u |-> "h"]]
    BY <1>1, <1>2, <1>4 DEF Sets, SetParamTimespan
  <2> QED
    BY <2>1 DEF row
<1> QED
  BY <1>3, <1>4

LEMMA IntervalConverted ==
    ASSUME NEW in, ConvertAll(in) # Failed
    PROVE  LET out == ConvertAll(in)[1].mars
               p == in.param
           IN  /\ p \in Params(DailyParams) =>
                      /\ Has(out, "timespan") /\ out.timespan = [n |-> 24, u |-> "h"]
                      /\ Has(out, "param") /\ out.param \notin PointInTimeParams
               /\ p \in Params(WindowParams) => Has(out, "param") /\ out.param \notin PointInTimeParams
               /\ HasWindow(p) => /\ Has(out, "timespan")
                                  /\ out.timespan = [n |-> Row(WindowParams, p)[3], u |-> "h"]
               /\ p \notin Params(DailyParams) /\ ~HasWindow(p) /\ Has(out, "timespan") =>
                      Has(in, "timespan") /\ out.timespan = in.timespan
<1> DEFINE out == ConvertAll(in)[1].mars
           p == in.param
           R(i) == Rules(in)[i].mars
<1>1. Converts(in, out)
  BY RequestConverted
<1> HIDE DEF out
<1>2. ASSUME p \in Params(DailyParams)
      PROVE  /\ Has(out, "timespan") /\ out.timespan = [n |-> 24, u |-> "h"]
             /\ Has(out, "param") /\ out.param \notin PointInTimeParams
  <2>1. R(2) = [param |-> Row(DailyParams, p)[2], timespan |-> [n |-> 24, u |-> "h"]]
    BY <1>2, OfDay
  <2>2. /\ Has(out, "timespan") /\ out.timespan = R(2).timespan
        /\ Has(out, "param") /\ out.param = R(2).param
    <3>1. 2 \in 1 .. 7 /\ {"param", "timespan"} \subseteq DOMAIN R(2)
      BY <2>1
    <3> QED
      BY <1>1, <3>1 DEF Converts
  <2>3. Row(DailyParams, p)[2] \notin PointInTimeParams
    BY <1>2, RowOfTable, NoInstants
  <2> QED
    BY <2>1, <2>2, <2>3
<1>3. ASSUME p \in Params(WindowParams)
      PROVE  /\ Has(out, "param") /\ out.param \notin PointInTimeParams
             /\ HasWindow(p) => /\ Has(out, "timespan")
                                /\ out.timespan = [n |-> Row(WindowParams, p)[3], u |-> "h"]
  <2>1. /\ "param" \in DOMAIN R(5) /\ R(5).param = Row(WindowParams, p)[2]
        /\ HasWindow(p) => /\ "timespan" \in DOMAIN R(5)
                           /\ R(5).timespan = [n |-> Row(WindowParams, p)[3], u |-> "h"]
    BY <1>3, OfWindow DEF HasWindow
  <2>2. \A k \in DOMAIN R(5) : Has(out, k) /\ out[k] = R(5)[k]
    BY <1>1, 5 \in 1 .. 7 DEF Converts
  <2>3. Row(WindowParams, p)[2] \notin PointInTimeParams
    BY <1>3, RowOfTable, NoInstants
  <2> QED
    BY <2>1, <2>2, <2>3
<1>4. ASSUME p \notin Params(DailyParams), ~HasWindow(p), Has(out, "timespan")
      PROVE  Has(in, "timespan") /\ out.timespan = in.timespan
  <2>1. \A i \in 1 .. 7 : "timespan" \notin DOMAIN R(i)
    <3>1. 1 .. 7 = {1, 2, 3, 4, 5, 6, 7}
      OBVIOUS
    <3> QED
      BY <1>4, <3>1, KeysOfRules DEF HasWindow
  <2> QED
    BY <1>1, <1>4, <2>1 DEF Converts, Has
<1> QED
  BY <1>2, <1>3, <1>4 DEF out, HasWindow

(* The level of the converted request is the layer of its parameter, if it *)
(* is one of a layer, and the level of the request if not.                 *)
LEMMA LevelConverted ==
    ASSUME NEW in, ConvertAll(in) # Failed
    PROVE  LET out == ConvertAll(in)[1].mars
               p == in.param
               row == Row(LayeredParams, p)
           IN  /\ p \in Params(LayeredParams) =>
                      /\ Has(out, "levtype") /\ out.levtype = "sol"
                      /\ Has(out, "levelist") /\ out.levelist = row[3]
                      /\ Has(out, "param") /\ out.param = row[2]
               /\ /\ p \notin Params(LayeredParams) \cup ParamsWithLayer
                  /\ Has(in, "levtype") => in.levtype # "SFC"
                  =>  \A k \in {"levtype", "levelist"} :
                          Has(out, k) => Has(in, k) /\ out[k] = in[k]
<1> DEFINE out == ConvertAll(in)[1].mars
           p == in.param
           R(i) == Rules(in)[i].mars
           row == Row(LayeredParams, p)
<1>1. Converts(in, out)
  BY RequestConverted
<1> HIDE DEF out
<1>2. ASSUME p \in Params(LayeredParams)
      PROVE  /\ Has(out, "levtype") /\ out.levtype = "sol"
             /\ Has(out, "levelist") /\ out.levelist = row[3]
             /\ Has(out, "param") /\ out.param = row[2]
  <2>1. R(3) = [param |-> row[2], levtype |-> "sol", levelist |-> row[3]]
    <3>1. ConvertSFC2SOL(in) = SetParamLevel(row[2], "sol", row[3])
      BY <1>2 DEF ConvertSFC2SOL
    <3> QED
      BY <3>1, SevenRules DEF SetParamLevel, Sets
  <2>2. \A k \in DOMAIN R(3) : Has(out, k) /\ out[k] = R(3)[k]
    BY <1>1, 3 \in 1 .. 7 DEF Converts
  <2> HIDE DEF row
  <2> QED
    BY <2>1, <2>2
<1>3. ASSUME p \notin Params(LayeredParams) \cup ParamsWithLayer,
             Has(in, "levtype") => in.levtype # "SFC",
             NEW k \in {"levtype", "levelist"}, Has(out, k)
      PROVE  Has(in, k) /\ out[k] = in[k]
  <2>1. \A i \in 1 .. 7 : k \notin DOMAIN R(i)
    <3>1. 1 .. 7 = {1, 2, 3, 4, 5, 6, 7}
      OBVIOUS
    <3> QED
      BY <1>3, <3>1, KeysOfRules
  <2> QED
    BY <1>1, <1>3, <2>1 DEF Converts, Has
<1> QED
  BY <1>2, <1>3 DEF out

(* The conversion of a message, from the request to the rows of encode().  *)
RequestOf(g) == ConvertToMars(g)[1].mars
NewRequestOf(g) == ConvertAll(RequestOf(g))[1].mars
AuxiliaryOf(g) == MergeLocalConfigs(ConvertAll(RequestOf(g))[1].misc, ConvertToMars(g)[1].misc)
CallFor(g) == [mars |-> NewRequestOf(g), misc |-> AuxiliaryOf(g)]
LayoutOf(g) == LayoutFor(Variants(NewRequestOf(g)))
HeaderOf(g) == Message(LayoutOf(g), CallFor(g), Runtime + 1)

LEMMA ConversionOf ==
    ASSUME NEW g, Converted(g) # Failed
    PROVE  /\ ConvertToMars(g) # Failed /\ ConvertAll(RequestOf(g)) # Failed
           /\ LayoutOf(g) # <<>>
           /\ AfterRows(LayoutOf(g), CallFor(g))[Runtime + 1] # Failed
           /\ Converted(g)[1] = EncodeValues(AuxiliaryOf(g), g.values) ++ HeaderOf(g)
<1>1. ConvertToMars(g) # Failed /\ ConvertAll(RequestOf(g)) # Failed
  BY DEF Converted, RequestOf
<1>2. Converted(g) = Encode(LayoutOf(g), CallFor(g), g.values)
  BY <1>1 DEF Converted, MessageOf, LayoutOf, CallFor, NewRequestOf, AuxiliaryOf, RequestOf
<1> DEFINE final == AfterRows(LayoutOf(g), CallFor(g))[Runtime + 1]
<1>3. final # Failed /\ Converted(g) = Found(EncodeValues(AuxiliaryOf(g), g.values) ++ final[1])
  <2>1. CallFor(g).misc = AuxiliaryOf(g)
    BY DEF CallFor
  <2> HIDE DEF final
  <2>2. Encode(LayoutOf(g), CallFor(g), g.values) =
            IF final = Failed THEN Failed ELSE Found(EncodeValues(CallFor(g).misc, g.values) ++ final[1])
    BY DEF Encode, final
  <2> QED
    BY <1>2, <2>1, <2>2
<1>4. LayoutOf(g) # <<>>
  BY <1>3, NoMessageWithoutLayout, Runtime + 1 \in Rows DEF Rows, Runtime
<1> QED
  BY <1>1, <1>3, <1>4 DEF Found, HeaderOf, Message

(* The hour, the minute and the second of the number of a time.            *)
Clock(h, mi, s) == h * 10000 + mi * 100 + s

LEMMA PartsOfTime ==
    ASSUME NEW h, h \in Nat, NEW mi, mi \in 0 .. 59, NEW s, s \in 0 .. 59
    PROVE  /\ Clock(h, mi, s) \in Nat
           /\ ConvertTime(Clock(h, mi, s)) = 3600 * h + 60 * mi + s
<1> DEFINE t == Clock(h, mi, s)
<1>1. t \in Nat /\ t \div 10000 = h /\ t \div 100 = 100 * h + mi /\ t % 100 = s
  BY SMT DEF Clock
<1>2. (100 * h + mi) % 100 = mi
  BY SMT
<1> QED
  BY <1>1, <1>2, SMT DEF ConvertTime

(* A stattype is not made by the conversion, and no hindcast.              *)
LEMMA TimesConverted ==
    ASSUME NEW g, Converted(g) # Failed, Timely(g)
    PROVE  LET m == NewRequestOf(g)
           IN  /\ Has(m, "step") /\ m.step = Number(g.endStep)
               /\ Has(m, "date") => m.date = g.date
               /\ Has(m, "time") => m.time = g.hour * 10000 + g.minute * 100 + g.second
               /\ \A k \in {"fcyear", "fcmonth", "htime", "hdate", "stattype"} : ~Has(m, k)
<1> DEFINE q == RequestOf(g)
           m == NewRequestOf(g)
<1>1. Converts(q, m)
  BY ConversionOf, RequestConverted DEF NewRequestOf
<1>2. /\ Has(q, "date") => q.date = g.date
      /\ Has(q, "time") => q.time = g.hour * 10000 + g.minute * 100 + g.second
      /\ "step" \in g.namespace => Has(q, "step")
      /\ Has(q, "step") => q.step = Number(g.endStep)
      /\ \A k \in {"fcyear", "fcmonth", "htime"} : ~Has(q, k)
      /\ \A k \in {"hdate", "stattype"} : Has(q, k) => k \in g.namespace
  BY ConversionOf, TimesExtracted DEF RequestOf
<1> HIDE DEF q, m
<1>3. "step" \in g.namespace /\ "hdate" \notin g.namespace /\ "stattype" \notin g.namespace
  BY DEF Timely
<1>4. \A k \in {"step", "date", "time", "fcyear", "fcmonth", "htime", "hdate", "stattype"} :
          (Has(m, k) <=> Has(q, k)) /\ (Has(q, k) => m[k] = q[k])
  BY <1>1 DEF Converts, RuleKeysOnly
<1> QED
  BY <1>2, <1>3, <1>4 DEF m

LEMMA SpanConverted ==
    ASSUME NEW g, Converted(g) # Failed
    PROVE  LET m == NewRequestOf(g)
           IN  Has(m, "timespan") =>
                   \/ m.timespan = [n |-> 0, u |-> "none"]
                   \/ m.timespan = Number(g.endStep - g.startStep)
                   \/ m.timespan = [n |-> 24, u |-> "h"]
                   \/ HasWindow(RequestOf(g).param)
                      /\ m.timespan = [n |-> Row(WindowParams, RequestOf(g).param)[3], u |-> "h"]
BY ConversionOf, IntervalConverted, TimespanExtracted DEF NewRequestOf, RequestOf

LEMMA WindowType == \A row \in WindowParams : row[3] \in Nat
BY SMT DEF WindowParams

LEMMA TypedRequestOf ==
    ASSUME NEW g, Converted(g) # Failed, Timely(g)
    PROVE  TypedRequest(NewRequestOf(g)) /\ NoMonths(NewRequestOf(g))
<1> DEFINE m == NewRequestOf(g)
<1>1. g.date \in Nat /\ g.hour \in Nat /\ g.minute \in 0 .. 59 /\ g.second \in 0 .. 59
      /\ g.startStep \in Int /\ g.endStep \in Int
  BY DEF Timely
<1>2. g.hour * 10000 + g.minute * 100 + g.second \in Nat
  <2>1. Clock(g.hour, g.minute, g.second) \in Nat
    BY <1>1, PartsOfTime
  <2> QED
    BY <2>1 DEF Clock
<1>3. ASSUME Has(m, "timespan") PROVE m.timespan.n \in Int
  <2>1. CASE HasWindow(RequestOf(g).param)
             /\ m.timespan = [n |-> Row(WindowParams, RequestOf(g).param)[3], u |-> "h"]
    BY <2>1, RowOfTable, WindowType DEF HasWindow
  <2>2. CASE m.timespan = Number(g.endStep - g.startStep)
    BY <1>1, <2>2 DEF Number
  <2> QED
    BY <1>3, <2>1, <2>2, SpanConverted
<1>4. Has(m, "step") => m.step.n \in Int
  <2>1. m.step = Number(g.endStep)
    BY TimesConverted
  <2>2. Number(g.endStep).n \in Int
    BY <1>1 DEF Number
  <2> QED
    BY <2>1, <2>2
<1>5. \A k \in {"date", "time", "hdate", "htime", "fcyear", "fcmonth"} : Has(m, k) => m[k] \in Nat
  BY <1>1, <1>2, TimesConverted
<1> QED
  BY <1>3, <1>4, <1>5, TimesConverted DEF TypedRequest, NoMonths

(* Each parameter of a window has one.                                     *)
LEMMA OneWindow == \A a, b \in WindowParams : a[1] = b[1] => a = b
BY SMTT(60) DEF WindowParams

LEMMA WindowOf ==
    ASSUME NEW g
    PROVE  LET p == g.paramId
           IN  /\ p \in Params(DailyParams) => WindowInHours(g) = 24
               /\ HasWindow(p) => WindowInHours(g) = Row(WindowParams, p)[3]
               /\ p \notin Params(DailyParams) /\ ~HasWindow(p) =>
                      WindowInHours(g) = IF g.stepType = "instant" THEN 0
                                         ELSE g.endStep - g.startStep
<1> DEFINE p == g.paramId
           windowed == {row[1] : row \in {r \in WindowParams : r[3] # 0}}
<1>1. p \in windowed <=> HasWindow(p)
  <2>1. ASSUME p \in windowed PROVE HasWindow(p)
    <3>1. PICK row \in WindowParams : row[1] = p /\ row[3] # 0
      BY <2>1
    <3>2. p \in Params(WindowParams)
      BY <3>1 DEF Params
    <3>3. Row(WindowParams, p) = row
      BY <3>1, <3>2, OneWindow, RowOfTable
    <3> QED
      BY <3>1, <3>2, <3>3 DEF HasWindow
  <2>2. ASSUME HasWindow(p) PROVE p \in windowed
    BY <2>2, RowOfTable DEF HasWindow
  <2> QED
    BY <2>1, <2>2
<1>2. ~(p \in Params(DailyParams) /\ HasWindow(p))
  BY TablesApart DEF HasWindow, Params
<1>3. WindowInHours(g) =
          CASE p \in Params(DailyParams) -> 24
            [] p \in windowed -> Row(WindowParams, p)[3]
            [] OTHER -> IF g.stepType = "instant" THEN 0 ELSE g.endStep - g.startStep
  BY Zenon DEF WindowInHours
<1> HIDE DEF p, windowed
<1> QED
  BY <1>1, <1>2, <1>3 DEF p

LEMMA SameKeys ==
    ASSUME NEW out, NEW final, SameTimes(out, final)
    PROVE  /\ Has(out, "forecastTime") <=> Has(final, "forecastTime")
           /\ Has(out, "lengthOfTimeRange") <=> Has(final, "lengthOfTimeRange")
<1>1. "forecastTime" \in ClockKeys /\ "lengthOfTimeRange" \in ClockKeys
  BY DEF ClockKeys
<1>2. \A k \in ClockKeys : k \in DOMAIN out <=> k \in DOMAIN final
  BY Zenon DEF SameTimes
<1>3. /\ "forecastTime" \in DOMAIN out <=> "forecastTime" \in DOMAIN final
      /\ "lengthOfTimeRange" \in DOMAIN out <=> "lengthOfTimeRange" \in DOMAIN final
  BY <1>1, <1>2, Zenon
<1> QED
  BY <1>3 DEF Has

(* Durations of whole hours.                                               *)
LEMMA HoursOf ==
    ASSUME NEW k \in Int, NEW d, NEW u \in {"number", "h"}, d = [n |-> k, u |-> u]
    PROVE  ToSeconds(d) \div 3600 = k
<1>1. ToSeconds(d) = k * 3600
  BY SMT DEF ToSeconds, UnitSeconds
<1> QED
  BY <1>1, SMT

(* The time of the message that is written for one that was read.          *)
LEMMA TimeOfConversion ==
    ASSUME NEW g, Converted(g) # Failed, Timely(g)
    PROVE  MessageTime(Converted(g)[1]) = ValidTime(g)
<1> DEFINE m == NewRequestOf(g)
           r == CallFor(g)
           layout == LayoutOf(g)
           out == Converted(g)[1]
           c == CallOf(r, Message(layout, r, Runtime))
<1>1. /\ r.mars = m /\ layout = LayoutFor(Variants(r.mars)) /\ layout # <<>>
      /\ AfterRows(layout, r)[Runtime + 1] # Failed
  BY ConversionOf DEF CallFor, LayoutOf
<1>2. SameTimes(out, Message(layout, r, Runtime + 1))
  BY ConversionOf, ValuesAreNoTimes DEF HeaderOf
<1>3. Has(out, "forecastTime")
  <2>1. Statistics(r.mars.param) # "IndexProcessing"
    BY <1>1 DEF Timely, NewParam, NewRequestOf, RequestOf
  <2>2. Has(Message(layout, r, Runtime + 1), "forecastTime")
    BY <1>1, <2>1, InstantOrInterval
  <2> QED
    BY <1>2, <2>2, SameKeys
<1>4. TypedRequest(r.mars) /\ NoMonths(r.mars)
  BY <1>1, TypedRequestOf
<1>5. MessageTime(out) = RequestedTime(m)
  BY <1>1, <1>2, <1>3, <1>4, EncodedIsValid
<1>6. InputOk(m, c.misc)
  <2>1. DatedBy(out, c) /\ c.m = m
    BY <1>1, <1>2, DateCells DEF CallOf
  <2> QED
    BY <2>1, DatedByReference DEF ProductTimeOk
<1>7. /\ Has(m, "step") /\ m.step = Number(g.endStep)
      /\ Has(m, "date") => m.date = g.date
      /\ Has(m, "time") => m.time = g.hour * 10000 + g.minute * 100 + g.second
      /\ ~Has(m, "fcyear") /\ ~Has(m, "hdate")
  BY TimesConverted
<1> HIDE DEF m, r, layout, out, c
<1>8. Has(m, "date") /\ Has(m, "time")
  BY <1>6, <1>7 DEF InputOk, LabelOk
<1>9. ConvertTime(m.time) = 3600 * g.hour + 60 * g.minute + g.second
  <2>1. m.time = Clock(g.hour, g.minute, g.second)
    BY <1>7, <1>8 DEF Clock
  <2> QED
    BY <2>1, PartsOfTime DEF Timely
<1>10. StartOfForecast(m) =
           [day |-> ConvertDate(g.date), sec |-> 3600 * g.hour + 60 * g.minute + g.second]
  BY <1>7, <1>8, <1>9 DEF StartOfForecast, Label
<1>11. StepInSeconds(m) = 3600 * g.endStep
  <2>1. StepInSeconds(m) = ToSeconds(Number(g.endStep))
    BY <1>7 DEF StepInSeconds
  <2>2. ToSeconds(Number(g.endStep)) = g.endStep * 3600
    BY SMT DEF ToSeconds, Number, UnitSeconds
  <2>3. g.endStep \in Int
    BY DEF Timely
  <2> DEFINE n == g.endStep
  <2> HIDE DEF n
  <2>4. n \in Int /\ StepInSeconds(m) = n * 3600
    BY <2>1, <2>2, <2>3 DEF n
  <2>5. StepInSeconds(m) = 3600 * n
    BY <2>4
  <2> QED
    BY <2>5 DEF n
<1>12. RequestedTime(m) = ValidTime(g)
  BY <1>10, <1>11 DEF RequestedTime, ValidTime
<1> QED
  BY <1>5, <1>12 DEF out

(* And the interval it is of.                                              *)
LEMMA IntervalOfConversion ==
    ASSUME NEW g, Converted(g) # Failed, Timely(g)
    PROVE  OverallLength(Converted(g)[1]) = WindowInHours(g)
<1> DEFINE q == RequestOf(g)
           m == NewRequestOf(g)
           r == CallFor(g)
           layout == LayoutOf(g)
           out == Converted(g)[1]
           c == CallOf(r, Message(layout, r, Runtime))
           p == g.paramId
           n == g.endStep - g.startStep
<1>1. /\ r.mars = m /\ layout = LayoutFor(Variants(r.mars)) /\ layout # <<>>
      /\ AfterRows(layout, r)[Runtime + 1] # Failed
  BY ConversionOf DEF CallFor, LayoutOf
<1>2. SameTimes(out, Message(layout, r, Runtime + 1))
  BY ConversionOf, ValuesAreNoTimes DEF HeaderOf
<1>3. /\ Has(out, "forecastTime")
      /\ Has(out, "lengthOfTimeRange") \/ m.param \in PointInTimeParams
  <2>1. Statistics(r.mars.param) # "IndexProcessing"
    BY <1>1 DEF Timely, NewParam, NewRequestOf, RequestOf
  <2>2. LET final == Message(layout, r, Runtime + 1)
        IN  /\ Has(final, "forecastTime")
            /\ Has(final, "lengthOfTimeRange") \/ m.param \in PointInTimeParams
    BY <1>1, <2>1, InstantOrInterval
  <2> QED
    BY <1>2, <2>2, SameKeys
<1>4. q.param = p
  BY ConversionOf, RequestConverted, LevelExtracted DEF RequestOf
<1>5. /\ p \in Params(DailyParams) => /\ m.timespan = [n |-> 24, u |-> "h"]
                                      /\ m.param \notin PointInTimeParams
      /\ p \in Params(WindowParams) => m.param \notin PointInTimeParams
      /\ HasWindow(p) => m.timespan = [n |-> Row(WindowParams, p)[3], u |-> "h"]
      /\ p \notin Params(DailyParams) /\ ~HasWindow(p) /\ Has(m, "timespan") =>
             Has(q, "timespan") /\ m.timespan = q.timespan
  BY <1>4, ConversionOf, IntervalConverted DEF NewRequestOf
<1>6. Has(q, "timespan") => \/ q.timespan = [n |-> 0, u |-> "none"]
                            \/ g.stepType # "instant" /\ q.timespan = Number(n)
  BY ConversionOf, TimespanExtracted DEF RequestOf
<1>7. m.param \in PointInTimeParams => g.stepType = "instant"
  BY DEF Timely, NewParam, NewRequestOf, RequestOf
<1>8. n \in Int
  BY DEF Timely
<1>9. CASE ~Has(out, "lengthOfTimeRange")
  <2>1. p \notin Params(DailyParams) /\ ~HasWindow(p) /\ g.stepType = "instant"
    BY <1>3, <1>5, <1>7, <1>9 DEF HasWindow
  <2> QED
    BY <1>9, <2>1, WindowOf DEF OverallLength
<1>10. CASE Has(out, "lengthOfTimeRange")
  <2>1. PICK v : OverInterval(out, v, c)
    BY <1>1, <1>2, <1>3, <1>10, TimeCells DEF AtInstant
  <2>2. ProductTimeOk(c.m, c.misc) /\ c.m = m
    BY <1>1, <1>2, DateCells, DatedByReference DEF CallOf
  <2>3. TypedRequest(c.m) /\ ~Has(c.m, "stattype")
    BY <2>2, TypedRequestOf, TimesConverted
  <2> HIDE DEF q, m, r, layout, out, c, p, n
  <2>4. /\ Has(m, "timespan") /\ m.timespan.u # "none"
        /\ out.lengthOfTimeRange[1] = ToSeconds(m.timespan) \div 3600
    BY <2>1, <2>2, <2>3, LengthOfTimespan
  <2>6. OverallLength(out) = ToSeconds(m.timespan) \div 3600
    BY <1>10, <2>4 DEF OverallLength
  <2>7. CASE p \in Params(DailyParams)
    <3>1. ToSeconds(m.timespan) \div 3600 = 24
      BY <1>5, <2>7, HoursOf
    <3>2. OverallLength(out) = 24
      BY <1>5, <2>6, <2>7, <3>1
    <3> QED
      BY <2>7, <3>2, WindowOf DEF p, out
  <2>8. CASE HasWindow(p)
    <3> DEFINE hours == Row(WindowParams, p)[3]
    <3>1. hours \in Int
      BY <2>8, RowOfTable, WindowType DEF HasWindow
    <3>2. m.timespan = [n |-> hours, u |-> "h"]
      BY <1>5, <2>8
    <3>3. WindowInHours(g) = hours
      BY <2>8, WindowOf DEF p
    <3> HIDE DEF hours
    <3>4. ToSeconds(m.timespan) \div 3600 = hours
      BY <3>1, <3>2, HoursOf
    <3>5. OverallLength(out) = hours
      BY <2>6, <3>2, <3>4
    <3> QED
      BY <3>3, <3>5 DEF out
  <2>9. CASE p \notin Params(DailyParams) /\ ~HasWindow(p)
    <3>1. g.stepType # "instant" /\ m.timespan = Number(n)
      BY <1>5, <1>6, <2>4, <2>9
    <3>2. Number(n) = [n |-> n, u |-> "number"]
      BY DEF Number
    <3>3. ToSeconds(m.timespan) \div 3600 = n
      BY <1>8, <3>1, <3>2, HoursOf
    <3>4. OverallLength(out) = n
      BY <2>6, <3>1, <3>2, <3>3
    <3>5. WindowInHours(g) = n
      BY <2>9, <3>1, WindowOf DEF p, n
    <3> QED
      BY <3>4, <3>5 DEF out
  <2> QED
    BY <2>7, <2>8, <2>9
<1> QED
  BY <1>9, <1>10

(* Each message is valid at the time of the one that was read, over the    *)
(* same interval or the window that its parameter stood for, through the   *)
(* three conversions of the times (TimeKept).                              *)
THEOREM TimesAreKept ==
    ASSUME TimelyFiles
    PROVE  Spec => []TimeKept
<1>1. ASSUME IInv PROVE TimeKept
  <2> SUFFICES ASSUME NEW i \in Written
               PROVE  /\ MessageTime(output[i]) = ValidTime(input[i])
                      /\ OverallLength(output[i]) = WindowInHours(input[i])
    BY DEF TimeKept
  <2>1. i \in 1 .. Behind /\ output[i] = Converted(input[i])[1] /\ Converted(input[i]) # Failed
    BY <1>1 DEF IInv, Outputs, Written, Conversions
  <2>2. input \in Files /\ i \in 1 .. Len(input)
    BY <1>1, <2>1, FilesAssumption DEF IInv, Place, Behind
  <2>3. Timely(input[i])
    BY <2>1, <2>2 DEF TimelyFiles
  <2> QED
    BY <2>1, <2>3, TimeOfConversion, IntervalOfConversion
<1> QED
  BY <1>1, InvariantHolds, PTL

----------------------------------------------------------------------------
(* What the message that is written says of its level.                     *)
LEMMA LevelWritten ==
    ASSUME NEW g, Converted(g) # Failed, Placed(g),
           \/ Has(g, "levtype") /\ g.levtype \in {"pl", "ml"}
           \/ g.paramId \in Params(LayeredParams)
    PROVE  LET m == NewRequestOf(g)
               out == Converted(g)[1]
               c == CallOf(CallFor(g), Message(LayoutOf(g), CallFor(g), Runtime))
               w == WriteLevel(Level(m), c)
           IN  /\ c.m = m /\ Has(m, "levtype") /\ Level(m) # Throws
               /\ ~IsWaveSpectrum(m) /\ ~IsSatellite(m)
               /\ Level(m) # Missing =>
                      \A k \in LevelKeys : k \in DOMAIN w => w[k] # Failed /\ out[k] = w[k][1]
<1> DEFINE q == RequestOf(g)
           m == NewRequestOf(g)
           r == CallFor(g)
           layout == LayoutOf(g)
           out == Converted(g)[1]
           c == CallOf(r, Message(layout, r, Runtime))
           w == WriteLevel(Level(m), c)
<1>1. /\ r.mars = m /\ layout = LayoutFor(Variants(r.mars)) /\ layout # <<>>
      /\ AfterRows(layout, r)[Runtime + 1] # Failed
  BY ConversionOf DEF CallFor, LayoutOf
<1>2. c.m = m
  BY <1>1 DEF CallOf
<1>3. \A k \in {"frequency", "direction", "channel", "ident", "instrument"} :
          Has(m, k) => k \in g.namespace
  <2>1. Converts(q, m)
    BY ConversionOf, RequestConverted DEF NewRequestOf
  <2>2. \A k \in {"frequency", "direction", "channel", "ident", "instrument"} :
            Has(q, k) => k \in g.namespace
    BY ConversionOf, LevelExtracted DEF RequestOf
  <2> QED
    BY <2>1, <2>2 DEF Converts, RuleKeysOnly
<1>4. /\ ~({"frequency", "direction"} \subseteq g.namespace)
      /\ ~({"channel", "ident", "instrument"} \subseteq g.namespace)
  BY DEF Placed
<1>5. ~IsWaveSpectrum(m) /\ ~IsSatellite(m)
  <2> HIDE DEF m
  <2> QED
    BY <1>3, <1>4 DEF IsWaveSpectrum, IsSatellite
<1>6. Level(m) # Throws
  <2>1. Variants(m)["level"] = Level(m)
    BY <1>1, RequiredOfLayout DEF Variants, ActiveVariants
  <2> QED
    BY <1>1, <2>1, LevelIsAConcept, LayoutShape DEF LayoutOk, MatchersOk
<1>7. Has(m, "levtype")
  <2> HIDE DEF m
  <2> QED
    BY <1>5, <1>6 DEF Level
<1>8. ASSUME Level(m) # Missing, NEW k \in LevelKeys, k \in DOMAIN w
      PROVE  w[k] # Failed /\ out[k] = w[k][1]
  <2>1. w[k] # Failed /\ k \in DOMAIN HeaderOf(g) /\ HeaderOf(g)[k] = w[k][1]
    BY <1>1, <1>8, LevelLeft DEF HeaderOf
  <2>2. out[k] = HeaderOf(g)[k]
    BY <2>1, ConversionOf, ValuesAreNoLevel
  <2> QED
    BY <2>1, <2>2
<1> QED
  BY <1>2, <1>5, <1>6, <1>7, <1>8

(* What the level that was found is written as.                            *)
LEMMA PressureWritten ==
    ASSUME NEW c, NEW n \in Int, Has(c.m, "levelist"), c.m.levelist = n, NEW v,
           v = IF n >= 100 THEN "IsobaricInHpa" ELSE "IsobaricInPa"
    PROVE  LET w == WriteLevel(v, c)
           IN  /\ {"typeOfLevel", "level"} \subseteq DOMAIN w
               /\ n >= 100 => /\ w["typeOfLevel"] = Found("isobaricInhPa")
                              /\ w["level"] = Found(n \div 100)
               /\ n < 100 => /\ w["typeOfLevel"] = Found("IsobaricInPa")
                             /\ w["level"] = Found(n)
<1>1. ResolveLevel(c.m) = Found(n) /\ Found(n) # Failed /\ Found(n)[1] = n
  BY DEF ResolveLevel, Get, Found, Failed, Has
<1>2. CASE n >= 100
  <2>1. v = "IsobaricInHpa"
    BY <1>2
  <2>2. WriteLevel(v, c) = [typeOfLevel |-> Found(LevelTypeName(v)), level |-> InHpa(Found(n))]
    BY <1>1, <2>1 DEF WriteLevel, FixedLevel
  <2> QED
    BY <1>1, <1>2, <2>1, <2>2 DEF InHpa, LevelTypeName
<1>3. CASE n < 100
  <2>1. v = "IsobaricInPa"
    BY <1>3
  <2>2. WriteLevel(v, c) = [typeOfLevel |-> Found(LevelTypeName(v))] ++ [level |-> Found(n)] ++ NoWrites
    BY <1>1, <2>1 DEF WriteLevel, FixedLevel, NeedLevel, NeedTopBottomLevel
  <2> QED
    BY <1>1, <1>3, <2>1, <2>2 DEF LevelTypeName, NoWrites, ++
<1> QED
  BY <1>2, <1>3

LEMMA LevelIsWritten ==
    ASSUME NEW c, NEW v
    PROVE  LET w == WriteLevel(v, c)
           IN  /\ v \in {"ModelSingleLevel", "ModelMultipleLevel"} =>
                      "level" \in DOMAIN w /\ w["level"] = ResolveLevel(c.m)
               /\ v \in {"SeaIceLayer", "SnowLayer", "SoilLayer"} =>
                      "bottomLevel" \in DOMAIN w /\ w["bottomLevel"] = ResolveLevel(c.m)
BY DEF WriteLevel, FixedLevel, NeedLevel, NeedTopBottomLevel, NoWrites, ++

(* The pressures an edition 2 message can hold.                            *)
LEMMA PressureKept ==
    ASSUME NEW g, Converted(g) # Failed, Placed(g), Has(g, "levtype"), g.levtype = "pl",
           PressureOf(g) < 100 \/ PressureOf(g) % 100 = 0
    PROVE  EncodedPressure(Converted(g)[1]) = PressureOf(g)
<1> DEFINE q == RequestOf(g)
           m == NewRequestOf(g)
           out == Converted(g)[1]
           c == CallOf(CallFor(g), Message(LayoutOf(g), CallFor(g), Runtime))
           w == WriteLevel(Level(m), c)
           n == PressureOf(g)
<1>1. /\ c.m = m /\ Has(m, "levtype") /\ Level(m) # Throws
      /\ ~IsWaveSpectrum(m) /\ ~IsSatellite(m)
      /\ Level(m) # Missing =>
             \A k \in LevelKeys : k \in DOMAIN w => w[k] # Failed /\ out[k] = w[k][1]
  BY LevelWritten
<1>2. g.level \in Int /\ g.paramId \notin Params(LayeredParams) \cup ParamsWithLayer
  BY DEF Placed
<1>3. /\ Has(q, "param") /\ q.param = g.paramId
      /\ Has(q, "levtype") => q.levtype = g.levtype
      /\ Has(q, "levelist") => q.levelist = IF g.levtype = "pl" /\ g.pressureUnits = "hPa"
                                            THEN g.level * 100 ELSE g.level
  BY ConversionOf, RequestConverted, LevelExtracted DEF RequestOf
<1>4. \A k \in {"levtype", "levelist"} : Has(m, k) => Has(q, k) /\ m[k] = q[k]
  BY <1>2, <1>3, ConversionOf, LevelConverted DEF NewRequestOf
<1>5. m.levtype = "pl"
  BY <1>1, <1>3, <1>4
<1>6. n \in Int
  BY <1>2 DEF PressureOf
<1>7. Has(m, "levelist") => m.levelist = n
  <2> DEFINE l == g.level
  <2>1. Has(m, "levelist") => m.levelist = IF g.pressureUnits = "hPa" THEN l * 100 ELSE l
    BY <1>3, <1>4
  <2>2. n = IF g.pressureUnits = "hPa" THEN 100 * l ELSE l
    BY DEF PressureOf
  <2>3. l \in Int
    BY <1>2
  <2> HIDE DEF l, n, m
  <2>4. l * 100 = 100 * l
    BY <2>3
  <2> QED
    BY <2>1, <2>2, <2>4
<1> HIDE DEF q, m, out, c, w, n
<1>8. /\ Has(m, "levelist")
      /\ Level(m) = IF n >= 100 THEN "IsobaricInHpa" ELSE "IsobaricInPa"
  <2>1. Level(m) = IF Has(m, "levelist") THEN MatchPL(m.param, m.levelist) ELSE Throws
    BY <1>1, <1>5 DEF Level
  <2>2. Has(m, "levelist") /\ Level(m) = MatchPL(m.param, n)
    BY <1>1, <1>7, <2>1
  <2> QED
    BY <1>1, <2>2 DEF MatchPL
<1>9. Level(m) # Missing
  BY <1>8 DEF Missing
<1>10. /\ {"typeOfLevel", "level"} \subseteq DOMAIN w
       /\ n >= 100 => /\ w["typeOfLevel"] = Found("isobaricInhPa")
                      /\ w["level"] = Found(n \div 100)
       /\ n < 100 => /\ w["typeOfLevel"] = Found("IsobaricInPa")
                     /\ w["level"] = Found(n)
  BY <1>1, <1>6, <1>7, <1>8, PressureWritten DEF w
<1>11. /\ n >= 100 => out.typeOfLevel = "isobaricInhPa" /\ out.level = n \div 100
       /\ n < 100 => out.typeOfLevel = "IsobaricInPa" /\ out.level = n
  BY <1>1, <1>9, <1>10 DEF LevelKeys, Found
<1>12. n < 100 \/ n % 100 = 0
  BY DEF n
<1>13. n >= 100 => 100 * (n \div 100) = n
  BY <1>6, <1>12
<1>14. EncodedPressure(out) = n
  BY <1>6, <1>11, <1>13 DEF EncodedPressure
<1> QED
  BY <1>14 DEF out, n

(* A model level.                                                          *)
LEMMA ModelLevelKept ==
    ASSUME NEW g, Converted(g) # Failed, Placed(g), Has(g, "levtype"), g.levtype = "ml"
    PROVE  Converted(g)[1].level = g.level
<1> DEFINE q == RequestOf(g)
           m == NewRequestOf(g)
           out == Converted(g)[1]
           c == CallOf(CallFor(g), Message(LayoutOf(g), CallFor(g), Runtime))
           w == WriteLevel(Level(m), c)
<1>1. /\ c.m = m /\ Has(m, "levtype") /\ Level(m) # Throws
      /\ ~IsWaveSpectrum(m) /\ ~IsSatellite(m)
      /\ Level(m) # Missing =>
             \A k \in LevelKeys : k \in DOMAIN w => w[k] # Failed /\ out[k] = w[k][1]
  BY LevelWritten
<1>2. g.paramId \notin Params(LayeredParams) \cup ParamsWithLayer
  BY DEF Placed
<1>3. /\ Has(q, "param") /\ q.param = g.paramId
      /\ Has(q, "levtype") => q.levtype = g.levtype
      /\ Has(q, "levelist") => q.levelist = g.level
  BY ConversionOf, RequestConverted, LevelExtracted DEF RequestOf
<1>4. \A k \in {"levtype", "levelist"} : Has(m, k) => Has(q, k) /\ m[k] = q[k]
  BY <1>2, <1>3, ConversionOf, LevelConverted DEF NewRequestOf
<1>5. m.levtype = "ml"
  BY <1>1, <1>3, <1>4
<1> HIDE DEF q, m, out, c, w
<1>6. Level(m) \in {"ModelSingleLevel", "ModelMultipleLevel"}
  <2>1. Level(m) = MatchML(m.param)
    BY <1>1, <1>5 DEF Level
  <2>2. DOMAIN ModelLevels = {"ModelSingleLevel", "ModelMultipleLevel"}
    BY DEF ModelLevels
  <2> QED
    BY <1>1, <2>1, <2>2 DEF MatchML, OneOf
<1>7. Level(m) # Missing
  BY <1>6 DEF Missing
<1>8. "level" \in DOMAIN w /\ w["level"] = ResolveLevel(m)
  BY <1>1, <1>6, LevelIsWritten DEF w
<1>9. out.level = ResolveLevel(m)[1] /\ ResolveLevel(m) # Failed
  BY <1>1, <1>7, <1>8 DEF LevelKeys
<1>10. Has(m, "levelist") /\ ResolveLevel(m)[1] = m.levelist
  BY <1>9 DEF ResolveLevel, Get, Has, Found
<1> QED
  BY <1>3, <1>4, <1>9, <1>10 DEF out

(* The layer that was part of the parameter.                               *)
LEMMA LayerKept ==
    ASSUME NEW g, Converted(g) # Failed, Placed(g), g.paramId \in Params(LayeredParams)
    PROVE  Converted(g)[1].bottomLevel = Row(LayeredParams, g.paramId)[3]
<1> DEFINE q == RequestOf(g)
           m == NewRequestOf(g)
           out == Converted(g)[1]
           c == CallOf(CallFor(g), Message(LayoutOf(g), CallFor(g), Runtime))
           w == WriteLevel(Level(m), c)
           layer == Row(LayeredParams, g.paramId)[3]
<1>1. /\ c.m = m /\ Has(m, "levtype") /\ Level(m) # Throws
      /\ ~IsWaveSpectrum(m) /\ ~IsSatellite(m)
      /\ Level(m) # Missing =>
             \A k \in LevelKeys : k \in DOMAIN w => w[k] # Failed /\ out[k] = w[k][1]
  BY LevelWritten
<1>2. q.param = g.paramId
  BY ConversionOf, RequestConverted, LevelExtracted DEF RequestOf
<1>3. Has(m, "levtype") /\ m.levtype = "sol" /\ Has(m, "levelist") /\ m.levelist = layer
  BY <1>2, ConversionOf, LevelConverted DEF NewRequestOf
<1> HIDE DEF q, m, out, c, w, layer
<1>4. Level(m) \in {"SeaIceLayer", "SnowLayer", "SoilLayer"}
  <2>1. Level(m) = MatchSOL(m.param)
    BY <1>1, <1>3 DEF Level
  <2>2. DOMAIN SoilLevels = {"SeaIceLayer", "SnowLayer", "SoilLayer"}
    BY DEF SoilLevels
  <2> QED
    BY <1>1, <2>1, <2>2 DEF MatchSOL, OneOf
<1>5. Level(m) # Missing
  BY <1>4 DEF Missing
<1>6. "bottomLevel" \in DOMAIN w /\ w["bottomLevel"] = ResolveLevel(m)
  BY <1>1, <1>4, LevelIsWritten DEF w
<1>7. out.bottomLevel = ResolveLevel(m)[1]
  BY <1>1, <1>5, <1>6 DEF LevelKeys
<1>8. ResolveLevel(m)[1] = layer
  BY <1>3 DEF ResolveLevel, Get, Has, Found
<1> QED
  BY <1>7, <1>8 DEF out, layer

(* The level of each message is that of the one that was read: its         *)
(* pressure whatever the units on either side, its model level, or the     *)
(* layer its parameter stood for (LevelKept).                              *)
THEOREM LevelsAreKept ==
    ASSUME PlacedFiles
    PROVE  Spec => []LevelKept
<1>1. ASSUME IInv PROVE LevelKept
  <2> SUFFICES ASSUME NEW i \in Written
               PROVE  LET g == input[i]  out == output[i]
                          On(levtype) == Has(g, "levtype") /\ g.levtype = levtype
                      IN  /\ On("pl") /\ (PressureOf(g) < 100 \/ PressureOf(g) % 100 = 0) =>
                                 EncodedPressure(out) = PressureOf(g)
                          /\ On("ml") => out.level = g.level
                          /\ g.paramId \in Params(LayeredParams) =>
                                 out.bottomLevel = Row(LayeredParams, g.paramId)[3]
    BY DEF LevelKept
  <2>1. i \in 1 .. Behind /\ output[i] = Converted(input[i])[1] /\ Converted(input[i]) # Failed
    BY <1>1 DEF IInv, Outputs, Written, Conversions
  <2>2. input \in Files /\ i \in 1 .. Len(input)
    BY <1>1, <2>1, FilesAssumption DEF IInv, Place, Behind
  <2>3. Placed(input[i])
    BY <2>1, <2>2 DEF PlacedFiles
  <2> DEFINE g == input[i]
  <2> HIDE DEF g
  <2>4. /\ Has(g, "levtype") /\ g.levtype = "pl" /\ (PressureOf(g) < 100 \/ PressureOf(g) % 100 = 0) =>
               EncodedPressure(Converted(g)[1]) = PressureOf(g)
        /\ Has(g, "levtype") /\ g.levtype = "ml" => Converted(g)[1].level = g.level
        /\ g.paramId \in Params(LayeredParams) =>
               Converted(g)[1].bottomLevel = Row(LayeredParams, g.paramId)[3]
    BY <2>1, <2>3, PressureKept, ModelLevelKept, LayerKept DEF g
  <2> QED
    BY <2>1, <2>4 DEF g
<1> QED
  BY <1>1, InvariantHolds, PTL
----------------------------------------------------------------------------
(* The same rules on a MarsRequest: what they read of it.                  *)
LEMMA FilledKeys ==
    ASSUME NEW m, Fill(m) # Failed
    PROVE  /\ Fill(m) = Found([k \in DOMAIN m |-> <<Printed(k, m[k])[1]>>])
           /\ \A k \in DOMAIN m : Printed(k, m[k]) # Failed
<1> DEFINE texts == [k \in DOMAIN m |-> Printed(k, m[k])]
           filled == [k \in DOMAIN m |-> <<texts[k][1]>>]
<1>1. Fill(m) = If(Succeeds(texts), filled)
  BY Zenon DEF Fill
<1>2. Succeeds(texts) /\ Fill(m) = Found(filled)
  BY <1>1, IfNotFailed
<1> QED
  BY <1>2 DEF Succeeds

LEMMA FilledOrNot ==
    ASSUME NEW m, \A k \in DOMAIN m : Printed(k, m[k]) # Failed
    PROVE  Fill(m) # Failed
<1> DEFINE texts == [k \in DOMAIN m |-> Printed(k, m[k])]
           filled == [k \in DOMAIN m |-> <<texts[k][1]>>]
<1>1. Fill(m) = If(Succeeds(texts), filled)
  BY Zenon DEF Fill
<1>2. Succeeds(texts)
  BY DEF Succeeds
<1> HIDE DEF texts, filled
<1> QED
  BY <1>1, <1>2 DEF If, Failed

(* A dictionary over another is filled as the one over the other.          *)
LEMMA FilledOver ==
    ASSUME NEW w, NEW m, Fill(m) # Failed
    PROVE  Fill(w ++ m) = IF Fill(w) = Failed THEN Failed ELSE Found(Fill(w)[1] ++ Fill(m)[1])
<1> DEFINE d == w ++ m
           text(f) == [k \in DOMAIN f |-> <<Printed(k, f[k])[1]>>]
<1>1. /\ DOMAIN d = DOMAIN w \cup DOMAIN m
      /\ \A k \in DOMAIN w : d[k] = w[k]
      /\ \A k \in DOMAIN m \ DOMAIN w : d[k] = m[k]
  BY DEF ++
<1> HIDE DEF d
<1>2. \A k \in DOMAIN m : Printed(k, m[k]) # Failed
  BY FilledKeys
<1>3. CASE Fill(w) = Failed
  <2>1. PICK k \in DOMAIN w : Printed(k, w[k]) = Failed
    BY <1>3, FilledOrNot
  <2>2. k \in DOMAIN d /\ Printed(k, d[k]) = Failed
    BY <1>1, <2>1
  <2>3. Fill(d) = Failed
    BY <2>2, FilledKeys
  <2> QED
    BY <1>3, <2>3 DEF d
<1>4. CASE Fill(w) # Failed
  <2>1. \A k \in DOMAIN w : Printed(k, w[k]) # Failed
    BY <1>4, FilledKeys
  <2>2. \A k \in DOMAIN d : Printed(k, d[k]) # Failed
    BY <1>1, <1>2, <2>1
  <2>3. Fill(d) = Found(text(d))
    BY <2>2, FilledOrNot, FilledKeys
  <2>4. Fill(w) = Found(text(w)) /\ Fill(m) = Found(text(m))
    BY <1>4, FilledKeys
  <2>5. text(d) = text(w) ++ text(m)
    BY <1>1 DEF ++
  <2> HIDE DEF text
  <2>6. Fill(d) = Found(Fill(w)[1] ++ Fill(m)[1])
    BY <2>3, <2>4, <2>5 DEF Found
  <2> QED
    BY <1>4, <2>6 DEF d
<1> QED
  BY <1>3, <1>4

(* The keys of the rules, as far as a dictionary has them.                 *)
OfRules(m) == [k \in RuleKeys \cap DOMAIN m |-> m[k]]
WholeNumbers(m) == \A k \in {"param", "levelist"} : Has(m, k) => m[k] \in Int

LEMMA ReadAsFilled ==
    ASSUME NEW m, Fill(m) # Failed, WholeNumbers(m)
    PROVE  ReadByRules(Fill(m)[1]) = OfRules(m)
<1> DEFINE mars == Fill(m)[1]
           read == [k \in RuleKeys |->
                    IF k \in LongKeys THEN ReadLong(mars, k)
                    ELSE IF ReadText(mars, k) = Failed THEN Failed
                    ELSE Found(ReadText(mars, k)[1].unit)]
<1>1. /\ DOMAIN mars = DOMAIN m
      /\ \A k \in DOMAIN m : mars[k] = <<Printed(k, m[k])[1]>> /\ Printed(k, m[k]) # Failed
  BY FilledKeys DEF Found
<1>2. ReadByRules(mars) = [k \in {x \in RuleKeys : read[x] # Failed} |-> read[k][1]]
  BY DEF ReadByRules
<1> HIDE DEF mars
<1>3. ASSUME NEW k \in RuleKeys, k \notin DOMAIN m PROVE read[k] = Failed
  <2>1. Scalar(mars, k) = Failed
    BY <1>1, <1>3 DEF Scalar, Has, If
  <2> QED
    BY <2>1 DEF ReadLong, ReadText
<1>4. ASSUME NEW k \in RuleKeys, k \in DOMAIN m PROVE read[k] = Found(m[k])
  <2> DEFINE t == Printed(k, m[k])[1]
  <2>1. Scalar(mars, k) = Found(t)
    <3>1. mars[k] = <<t>> /\ k \in DOMAIN mars
      BY <1>1, <1>4
    <3> HIDE DEF t
    <3> QED
      BY <3>1, OneLong DEF Scalar, Has, If, Found
  <2>2. CASE k \in {"stream", "levtype"}
    <3>1. t = Word(m[k])
      BY <2>2 DEF Printed, StringKeys, Found
    <3> HIDE DEF t
    <3>2. t.unit = m[k]
      BY <3>1, SMT DEF Word, Text
    <3>3. k \notin LongKeys
      BY <2>2 DEF LongKeys, PlainKeys, HourKeys, DateKeys, TimeKeys
    <3>4. read[k] = Found(t.unit)
      BY <2>1, <3>3 DEF ReadText, Found, Failed
    <3> QED
      BY <3>2, <3>4
  <2>3. CASE k \in {"param", "levelist"}
    <3>1. k \notin StringKeys /\ k \notin HourKeys /\ k \notin DoubleKeys /\ k \in LongKeys
      BY <2>3 DEF StringKeys, HourKeys, DoubleKeys, LongKeys, PlainKeys
    <3>2. Printed(k, m[k]) = ConvertFromLong(k, m[k])
      BY <3>1 DEF Printed
    <3>3. m[k] \in Int /\ ConvertFromLong(k, m[k]) # Failed
      BY <1>1, <1>4, <2>3, <3>2 DEF WholeNumbers, Has
    <3>4. ConvertToLong(k, t) = Found(m[k])
      BY <3>2, <3>3, ConvertedBack
    <3> HIDE DEF t
    <3>5. read[k] = ConvertToLong(k, t)
      BY <2>1, <3>1 DEF ReadLong, Found, Failed
    <3> QED
      BY <3>4, <3>5
  <2> QED
    BY <2>2, <2>3 DEF RuleKeys
<1> HIDE DEF read
<1>5. {x \in RuleKeys : read[x] # Failed} = RuleKeys \cap DOMAIN m
  BY <1>3, <1>4 DEF Found, Failed
<1>6. \A k \in RuleKeys \cap DOMAIN m : read[k][1] = m[k]
  BY <1>4 DEF Found
<1> QED
  BY <1>2, <1>5, <1>6 DEF OfRules, mars

LEMMA RulesReadTheirKeys ==
    ASSUME NEW m, {"stream", "param"} \subseteq DOMAIN m
    PROVE  Rules(OfRules(m)) = Rules(m)
<1> DEFINE d == OfRules(m)
<1>1. /\ d["stream"] = m["stream"] /\ d["param"] = m["param"]
      /\ \A k \in {"levtype", "levelist"} : (Has(d, k) <=> Has(m, k)) /\ (Has(m, k) => d[k] = m[k])
  BY DEF OfRules, RuleKeys, Has
<1> HIDE DEF d
<1>2. ConvertWave2Oper(d) = ConvertWave2Oper(m)
  BY <1>1 DEF ConvertWave2Oper
<1>3. ConvertECC1806(d) = ConvertECC1806(m)
  BY <1>1 DEF ConvertECC1806
<1>4. ConvertSFC2SOL(d) = ConvertSFC2SOL(m)
  BY <1>1 DEF ConvertSFC2SOL
<1>5. ConvertLocal2WMO(d) = ConvertLocal2WMO(m)
  BY <1>1 DEF ConvertLocal2WMO
<1>6. FixTimespan(d) = FixTimespan(m)
  BY <1>1 DEF FixTimespan
<1>7. FixWindspeed(d) = FixWindspeed(m)
  BY <1>1 DEF FixWindspeed
<1>8. ConvertChemical(d) = ConvertChemical(m)
  BY <1>1 DEF ConvertChemical
<1> QED
  BY <1>2, <1>3, <1>4, <1>5, <1>6, <1>7, <1>8 DEF Rules, d

(* What the rules set lies over what was there before them.                *)
LEMMA OverAgain ==
    ASSUME NEW f, NEW g, NEW h
    PROVE  (f ++ g) ++ h = f ++ (g ++ h)
BY DEF ++

LEMMA OverNothing ==
    ASSUME NEW d, IsDictionary(d)
    PROVE  NoKeys ++ d = d
BY DEF ++, NoKeys, IsDictionary

LEMMA AppliedOver ==
    ASSUME NEW rules, Len(rules) = 7, NEW d, IsDictionary(d)
    PROVE  Applied(rules, d).mars = Applied(rules, NoKeys).mars ++ d
<1> DEFINE a0 == [mars |-> NoKeys, misc |-> NoKeys]
           a1 == Both(rules[1], a0)
           a2 == Both(rules[2], a1)
           a3 == Both(rules[3], a2)
           a4 == Both(rules[4], a3)
           a5 == Both(rules[5], a4)
           a6 == Both(rules[6], a5)
           a7 == Both(rules[7], a6)
           v0 == [mars |-> d, misc |-> NoKeys]
           v1 == Both(rules[1], v0)
           v2 == Both(rules[2], v1)
           v3 == Both(rules[3], v2)
           v4 == Both(rules[4], v3)
           v5 == Both(rules[5], v4)
           v6 == Both(rules[6], v5)
           v7 == Both(rules[7], v6)
<1>1. Applied(rules, d) = v7 /\ Applied(rules, NoKeys) = a7
  BY RuleByRule
<1>2. ASSUME NEW r, NEW v, NEW a, v.mars = a.mars ++ d
      PROVE  Both(r, v).mars = Both(r, a).mars ++ d
  <2>1. Both(r, v).mars = r.mars ++ v.mars /\ Both(r, a).mars = r.mars ++ a.mars
    BY DEF Both
  <2> QED
    BY <1>2, <2>1, OverAgain
<1>3. v0.mars = a0.mars ++ d
  BY OverNothing
<1> HIDE DEF v0, a0
<1>4. v1.mars = a1.mars ++ d
  BY <1>2, <1>3
<1> HIDE DEF v1, a1
<1>5. v2.mars = a2.mars ++ d
  BY <1>2, <1>4
<1> HIDE DEF v2, a2
<1>6. v3.mars = a3.mars ++ d
  BY <1>2, <1>5
<1> HIDE DEF v3, a3
<1>7. v4.mars = a4.mars ++ d
  BY <1>2, <1>6
<1> HIDE DEF v4, a4
<1>8. v5.mars = a5.mars ++ d
  BY <1>2, <1>7
<1> HIDE DEF v5, a5
<1>9. v6.mars = a6.mars ++ d
  BY <1>2, <1>8
<1> HIDE DEF v6, a6
<1>10. v7.mars = a7.mars ++ d
  BY <1>2, <1>9
<1> QED
  BY <1>1, <1>10

LEMMA ConvertedAsFilled ==
    ASSUME NEW m, IsDictionary(m), Fill(m) # Failed, WholeNumbers(m)
    PROVE  ConvertRequest(Fill(m)[1]) =
               IF ConvertAll(m) = Failed THEN Failed ELSE Fill(ConvertAll(m)[1].mars)
<1> DEFINE mars == Fill(m)[1]
           in == OfRules(m)
           set == Applied(Rules(m), NoKeys).mars
           both == {"stream", "param"} \subseteq DOMAIN m
<1>1. ReadByRules(mars) = in
  BY ReadAsFilled
<1>2. {"stream", "param"} \subseteq DOMAIN in <=> both
  BY DEF OfRules, RuleKeys
<1>3. ConvertAll(m) = If(both, Applied(Rules(m), m))
  BY DEF ConvertAll
<1> HIDE DEF in, mars
<1>4. CASE ~both
  <2>1. ConvertRequest(mars) = Failed
    BY <1>1, <1>2, <1>4 DEF ConvertRequest
  <2>2. ConvertAll(m) = Failed
    BY <1>3, <1>4 DEF If
  <2> QED
    BY <2>1, <2>2 DEF mars
<1>5. CASE both
  <2>1. Rules(in) = Rules(m)
    BY <1>5, RulesReadTheirKeys DEF in
  <2>2. ConvertRequest(mars) = IF Fill(set) = Failed THEN Failed ELSE Found(Fill(set)[1] ++ mars)
    BY <1>1, <1>2, <1>5, <2>1 DEF ConvertRequest
  <2>3. ConvertAll(m) = Found(Applied(Rules(m), m))
    BY <1>3, <1>5 DEF If, Found
  <2>4. Applied(Rules(m), m).mars = set ++ m
    BY AppliedOver, SevenRules
  <2> HIDE DEF set
  <2>5. ConvertAll(m) # Failed /\ ConvertAll(m)[1].mars = set ++ m
    BY <2>3, <2>4 DEF Found, Failed
  <2>6. Fill(set ++ m) = IF Fill(set) = Failed THEN Failed ELSE Found(Fill(set)[1] ++ mars)
    BY FilledOver DEF mars
  <2> QED
    BY <2>2, <2>5, <2>6 DEF mars
<1> QED
  BY <1>4, <1>5

LEMMA WholeRequest ==
    ASSUME NEW g, ConvertToMars(g) # Failed,
           Has(g, "paramId") => g.paramId \in Int,
           Has(g, "level") => g.level \in Int
    PROVE  WholeNumbers(ConvertToMars(g)[1].mars)
<1> DEFINE m == ConvertToMars(g)[1].mars
<1>1. ASSUME Has(m, "param") PROVE m["param"] \in Int
  <2>1. Extract("param", g).mars = [param |-> Get(g, "paramId")]
    BY Zenon DEF Extract, ExtractParam, ToMars
  <2>2. Get(g, "paramId") # Failed /\ m["param"] = Get(g, "paramId")[1]
    BY <1>1, <2>1, OfItsKeyword
  <2> QED
    BY <2>2 DEF Get, Found
<1>2. ASSUME Has(m, "levelist") PROVE m["levelist"] \in Int
  <2>1. Extract("levelist", g) = ExtractLevelist(g)
    BY Zenon DEF Extract
  <2>2. /\ "levelist" \in DOMAIN ExtractLevelist(g).mars
        /\ m["levelist"] = ExtractLevelist(g).mars["levelist"][1]
    BY <1>2, <2>1, OfItsKeyword
  <2> HIDE DEF m
  <2>3. Has(g, "level")
    BY <2>2 DEF ExtractLevelist, Refusal, ToMars, Has
  <2>4. ExtractLevelist(g).mars["levelist"] \in {Found(g.level), Found(g.level * 100)}
    BY <2>2 DEF ExtractLevelist, Refusal, ToMars
  <2> QED
    BY <2>2, <2>3, <2>4 DEF Found
<1> QED
  BY <1>1, <1>2 DEF WholeNumbers

(* A request whose values are texts and one whose values have types are    *)
(* converted alike, whatever the files (SameForRequests): the rules read   *)
(* from the texts what was written to them, and what they set is written   *)
(* to texts as it would have been with the rest (Mars2Mars::convert).      *)
THEOREM RequestsAreTheSame == Spec => []SameForRequests
<1>1. ASSUME IInv PROVE SameForRequests
  <2> SUFFICES ASSUME state = "extracted", Fill(original.mars) # Failed
               PROVE  ConvertRequest(Fill(original.mars)[1]) =
                          IF ConvertAll(original.mars) = Failed THEN Failed
                          ELSE Fill(ConvertAll(original.mars)[1].mars)
    BY DEF SameForRequests
  <2>1. ConvertToMars(Current) # Failed /\ original = ConvertToMars(Current)[1]
    BY <1>1 DEF IInv, Dictionaries
  <2>2. input \in Files /\ position \in 1 .. Len(input)
    BY <1>1, FilesAssumption DEF IInv, Place
  <2>3. /\ Has(Current, "paramId") => Current.paramId \in Int
        /\ Has(Current, "level") => Current.level \in Int
    BY <2>2, NumbersAssumption DEF Current
  <2>4. IsDictionary(original.mars) /\ WholeNumbers(original.mars)
    BY <2>1, <2>3, RequestOfMessage, WholeRequest
  <2> QED
    BY <2>4, ConvertedAsFilled
<1> QED
  BY <1>1, InvariantHolds, PTL
=============================================================================
