------------------------------ MODULE MCBufrCheck ------------------------------
(* BufrCheck for TLC: streams of a few pieces, and messages with one flaw.   *)
EXTENDS BufrCheck, TLC

Number(n) == [native |-> "Long", values |-> <<n>>, missing |-> FALSE, length |-> 1, traits |-> {}]

\* A message of the last second of a leap year.
Plain ==
    [offset |-> 0, localSectionPresent |-> 1, edition |-> 4,
     totalLength |-> 100, messageLength |-> 100, rdbType |-> 10, oldSubtype |-> 1,
     typicalYear |-> 2024, typicalMonth |-> 12, typicalDay |-> 31,
     typicalHour |-> 23, typicalMinute |-> 59, typicalSecond |-> 59,
     localYear |-> 2024, localMonth |-> 12, localDay |-> 31,
     localHour |-> 23, localMinute |-> 59, localSecond |-> 59]

Message(keys) ==
    [magic |-> "BUFR", keys |-> [k \in DOMAIN keys |-> Number(keys[k])],
     namespaces |-> NoKeys, hidden |-> {}, points |-> Failed]
With(change)   == Message(change @@ Plain)
Without(k)     == Message([j \in DOMAIN Plain \ {k} |-> Plain[j]])
Edition3       == [edition |-> 3, typicalSecond |-> 0]

Flawed ==
    {With(change) : change \in
        {[localSectionPresent |-> 0], [messageLength |-> 99], [totalLength |-> 65535],
         [rdbType |-> 20], [oldSubtype |-> 3],
         [typicalDay |-> 30], [typicalYear |-> 2025, typicalMonth |-> 1, typicalDay |-> 1],
         [typicalMonth |-> 2, typicalDay |-> 30], [typicalMonth |-> 13], [typicalYear |-> 1924],
         [typicalHour |-> 24], [typicalMinute |-> 54], [typicalMinute |-> 55], [typicalSecond |-> 60],
         [localMonth |-> 11], [localMonth |-> 0], [localHour |-> 24], [localSecond |-> 60],
         [localSecond |-> 60, typicalHour |-> 0],
         [messageLength |-> 99, typicalDay |-> 30],
         Edition3, [typicalDay |-> 30] @@ Edition3,
         [localYear |-> 1999] @@ Edition3, [localSecond |-> 60, typicalDay |-> 1] @@ Edition3}}
    \cup {Without(k) : k \in {"offset", "localSectionPresent", "rdbType", "localDay", "edition"}}
    \cup {[Without("rdbType") EXCEPT !.magic = "GRIB"]}
    \cup {Message([k \in DOMAIN Plain \ {"edition"} |-> ([typicalDay |-> 30] @@ Plain)[k]])}

\* The pieces of a stream: their length, and for a copy what it claims and
\* whether it is right.  A message is three long, its letters are two.
Piece(length, claimed, sound) == [length |-> length, claimed |-> claimed, sound |-> sound]
Whole    == Piece(3, 3, TRUE)
Pieces   ==
    {Whole, Piece(3, 3, FALSE), Piece(3, 4, FALSE), Piece(3, 7, FALSE), Piece(2, 99, FALSE), Piece(2, 2, FALSE),
     Piece(1, 0, FALSE), Piece(3, 0, FALSE)}

Starts(pieces) ==
    LET start[i \in 1 .. Len(pieces) + 1] == IF i = 1 THEN 0 ELSE start[i - 1] + pieces[i - 1].length
    IN  start

StreamOf(pieces, message) ==
    LET start == Starts(pieces)
        place(s) == CHOOSE i \in 1 .. Len(pieces) : start[i] = s
    IN  [length |-> start[Len(pieces) + 1],
         copies |-> [s \in {start[i] : i \in {j \in 1 .. Len(pieces) : pieces[j].claimed > 0}} |->
                        [message |-> message, claimed |-> pieces[place(s)].claimed,
                         sound   |-> pieces[place(s)].sound]]]

Torn == UNION {[1 .. n -> Pieces] : n \in 1 .. 3}
OfTwo(first, second) ==
    LET both == StreamOf(<<Whole, Whole>>, first)
    IN  [both EXCEPT !.copies[3].message = second]

MCStreams ==
    {StreamOf(pieces, Message(Plain)) : pieces \in Torn}
    \cup {OfTwo(m, Message(Plain)) : m \in Flawed} \cup {OfTwo(Message(Plain), m) : m \in Flawed}
MCSubTypes == (1 :> 10) @@ (2 :> 20)

MCArguments ==
    {NoKeys, ("abort-on-error" :> FALSE), ("skip-on-error" :> TRUE),
     ("patch-on-error" :> TRUE) @@ ("skip-on-error" :> TRUE), ("patch-on-error" :> TRUE)}
    \cup {("patch-on-error" :> TRUE) @@ (o :> TRUE) :
             o \in {"dont-patch-length", "dont-patch-date", "ignore-century", "ignore-type"}}
    \cup {("skip-on-error" :> TRUE) @@ (o :> TRUE) : o \in {"dont-patch-date", "ignore-century", "ignore-type"}}
    \cup {("patch-on-error" :> TRUE) @@ ("acceptable-time-discrepancy" :> 30)}
-----------------------------------------------------------------------------
(* The decoder of a field, and the handles (CodesHandle).                    *)

Of(native, values) == [native |-> native, values |-> values, missing |-> FALSE,
                       length |-> Len(values), traits |-> {}]
FieldWith(keys) ==
    LET all == keys @@ ("class" :> Of("String", <<"od">>)) @@ ("step" :> Of("Long", <<6>>))
               @@ ("levelist" :> Of("Long", <<500>>)) @@ ("_x" :> Of("Long", <<1>>))
               @@ ("domains" :> Of("Long", <<1, 2>>)) @@ ("edition" :> Of("Long", <<2>>))
               @@ ("values" :> Of("Double", <<10, 20, 30>>))
    IN  Found([magic |-> "GRIB", keys |-> all, hidden |-> {"_x"}, points |-> Found({1, 2, 3}),
               namespaces |-> ("mars" :> DOMAIN all \ {"values", "edition", "freeFormData", "paramId",
                                                       "localDefinitionNumber"})])
MarsOf(keys, representation) == MetadataGRIB(FieldWith(keys), "mars", representation)
InMars == [class |-> "od", step |-> 6, levelist |-> Long(500)]

\* The octets of an identifier have a text of twice their number; those of a
\* bitmap do not, and an iterator has no room for them.
Octet(length) == [Of("Bytes", <<7, 7>>) EXCEPT !.length = length]
Embedded(requests) ==
    ("localDefinitionNumber" :> Of("Long", <<191>>)) @@ ("freeFormData" :> Of("Bytes", requests))

(* What GRIBDecoder::getMetadata gathers: the scalar keys of the namespace
   that are not hidden, a level as a whole number where it is one, paramId in
   the place of param, and a request that the message carries.               *)
ASSUME GatheredOfAField ==
    /\ \A r \in {"Native", "String"} :
          /\ MarsOf(NoKeys, r) = Found(InMars)
          /\ MarsOf("levelist" :> Of("Double", <<20>>), r)[1].levelist = Long(2)
          /\ MarsOf("levelist" :> Of("Double", <<25>>), r)[1].levelist = Double(25)
          /\ MarsOf("levelist" :> Of("String", <<"sfc">>), r) = Failed
          /\ MarsOf(("param" :> Of("String", <<"129.128">>)) @@ ("paramId" :> Of("Long", <<129>>)), r)[1].param = 129
          /\ MarsOf("uuid" :> Octet(4), r)[1].uuid = <<7, 7>>
          /\ MarsOf(Embedded(<<("class" :> <<"rd">>) @@ ("expver" :> <<"1">>)>>), r)
                = Found([class |-> "rd", expver |-> "1"] @@ InMars)
          /\ MarsOf(Embedded(<<("class" :> <<"rd", "od">>)>>), r) = Failed
          /\ MetadataGRIB(Failed, "mars", r) = Failed
    /\ MarsOf("uuid" :> Octet(2), "String")[1].uuid = <<7, 7>> /\ MarsOf("uuid" :> Octet(2), "Native") = Failed

(* A handle that was released or never had a message throws, and only one
   that owns its message can be released; the values are decoded as many as
   there are.                                                                *)
ASSUME HandlesThrow ==
    LET owning   == HandleFromSample("GRIB2" :> FieldWith(NoKeys)[1], "GRIB2")
        borrowed == HandleFromGRIBHandle(FieldWith(NoKeys))[1]
        released == Release(owning)[1]
    IN  /\ Release(borrowed) = Failed /\ Clone(borrowed)[1].owning
        /\ Clone(released) = Failed /\ IsDefined(released, "step") = Failed /\ Keys(released, {}, Failed) = Failed
        /\ HandleFromFile(Failed) = Failed /\ HandleFromGRIBHandle(Failed) = Failed
        /\ HandleFromSample(NoKeys, "GRIB2").message = Failed
        /\ Decode(owning, "values") = Found(<<10, 20, 30>>) /\ Decode(owning, "class") = Failed
        /\ GeoPoints(owning) = Found({1, 2, 3}) /\ GetValue(owning, "domains")[1].list = <<1, 2>>
        /\ KeyLong(SetKeyMissing(owning, "step")[1], "step") = Found(MissingLong)
        /\ ~HasKey(SetKeyMissing(owning, "step")[1], "step")
        /\ \A flags \in SUBSET {"SkipCoded", "SkipReadOnly"} :
               LET one == FieldWith("step" :> [Of("Long", <<6>>) EXCEPT !.traits = {"SkipCoded"}])
               IN  ("step" \in Keys(HandleFromMessage(one), flags, Found("mars"))[1]) <=> "SkipCoded" \notin flags
=============================================================================
