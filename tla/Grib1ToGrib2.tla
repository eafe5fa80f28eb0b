------------------------------ MODULE Grib1ToGrib2 ------------------------------
(***************************************************************************)
(* The tool grib1-to-grib2 (tools/grib1-to-grib2.cc), which puts grib2mars,*)
(* mars2mars and mars2grib one after the other: for each message of the    *)
(* input file, its request and auxiliary dictionary, the request in the    *)
(* new conventions, and the message that is encoded for it and written.    *)
(* An exception ends the tool, of the reader or of a conversion; what was   *)
(* written before it stays.                                                *)
(***************************************************************************)
EXTENDS Grib2Mars, MarsRules, RequestDictionary, GribMessage

CONSTANT Files          \* the input files: sequences of messages, as in Grib2Mars

ASSUME FilesAssumption == \A file \in Files : Len(file) \in Nat

\* Both are read as longs.
ASSUME NumbersAssumption ==
    \A file \in Files : \A i \in 1 .. Len(file) :
        /\ Has(file[i], "paramId") => file[i].paramId \in Int
        /\ Has(file[i], "level") => file[i].level \in Int

VARIABLES
    input,              \* the file
    position,           \* how many of its messages have been got from the reader
    state,              \* "next", "read", "extracted", "mapped", "done" or "threw"
    original,           \* the dictionaries of grib2mars for the current message
    mapped,             \* and those of mars2mars
    output              \* the messages of the output file

vars == <<input, position, state, original, mapped, output>>

NoDictionaries == [mars |-> NoKeys, misc |-> NoKeys]

\* What grib2mars found takes the place of what a rule set.  grib2mars sets
\* only what a merge can copy: strings, numbers and lists of numbers.
MergeLocalConfigs(base, overwrite) == overwrite ++ base

Current == input[position]

Init ==
    /\ input \in Files
    /\ position = 0
    /\ state = "next"
    /\ original = NoDictionaries /\ mapped = NoDictionaries
    /\ output = <<>>

Read ==
    /\ state = "next" /\ position < Len(input)
    /\ position' = position + 1
    /\ state' = "read"
    /\ UNCHANGED <<input, original, mapped, output>>

\* The reader throws on what is no message, at any place of the file, and
\* ecCodes on a message that it cannot open.
ReadFails ==
    /\ state = "next"
    /\ state' = "threw"
    /\ UNCHANGED <<input, position, original, mapped, output>>

\* The values are read once the keywords are, and a message may have none.
ExtractMessage ==
    /\ state = "read"
    /\ LET dictionaries == ConvertToMars(Current)
       IN  IF dictionaries = Failed \/ ~Has(Current, "values")
           THEN state' = "threw" /\ UNCHANGED original
           ELSE state' = "extracted" /\ original' = dictionaries[1]
    /\ UNCHANGED <<input, position, mapped, output>>

MapMessage ==
    /\ state = "extracted"
    /\ LET dictionaries == ConvertAll(original.mars)
       IN  IF dictionaries = Failed
           THEN state' = "threw" /\ UNCHANGED mapped
           ELSE state' = "mapped" /\ mapped' = dictionaries[1]
    /\ UNCHANGED <<input, position, original, output>>

\* The values are those of the message that was read: nothing scales them.
MessageOf(g, extracted, converted) ==
    LET r == [mars |-> converted.mars,
              misc |-> MergeLocalConfigs(converted.misc, extracted.misc)]
    IN  Encode(LayoutFor(Variants(r.mars)), r, g.values)

EncodeCurrent == MessageOf(Current, original, mapped)

EncodeMessage ==
    /\ state = "mapped"
    /\ LET message == EncodeCurrent
       IN  IF message = Failed
           THEN state' = "threw" /\ UNCHANGED output
           ELSE state' = "next" /\ output' = output \o message
    /\ UNCHANGED <<input, position, original, mapped>>

Close ==
    /\ state = "next" /\ position = Len(input)
    /\ state' = "done"
    /\ UNCHANGED <<input, position, original, mapped, output>>

Next == Read \/ ReadFails \/ ExtractMessage \/ MapMessage \/ EncodeMessage \/ Close

Spec == Init /\ [][Next]_vars
----------------------------------------------------------------------------
(* One message is written for each that was got from the reader, but for   *)
(* the one that is on its way or has ended the tool.                       *)
TypeOK ==
    /\ input \in Files
    /\ position \in 0 .. Len(input)
    /\ state \in {"next", "read", "extracted", "mapped", "done", "threw"}
    /\ CASE state \in {"next", "done"} -> Len(output) = position
         [] state = "threw"            -> Len(output) \in {position - 1, position}
         [] OTHER                      -> Len(output) = position - 1

Written == DOMAIN output

(* What the three conversions make of a message.                           *)
Converted(g) ==
    LET extracted == ConvertToMars(g)
        converted == ConvertAll(extracted[1].mars)
    IN  IF extracted = Failed \/ ~Has(g, "values") \/ converted = Failed THEN Failed
        ELSE MessageOf(g, extracted[1], converted[1])

(* The time and the interval of a message of the input: those of its keys, *)
(* or the window that its parameter stands for.                            *)
ValidTime(g) ==
    AddSeconds([day |-> ConvertDate(g.date), sec |-> 3600 * g.hour + 60 * g.minute + g.second],
               3600 * g.endStep)

WindowInHours(g) ==
    LET p == g.paramId
    IN  CASE p \in Params(DailyParams) -> 24
          [] p \in {row[1] : row \in {r \in WindowParams : r[3] # 0}} ->
                 Row(WindowParams, p)[3]
          [] OTHER -> IF g.stepType = "instant" THEN 0 ELSE g.endStep - g.startStep

(* The message that is written is valid at the time of the one that was    *)
(* read, over the same interval, through three conversions of the times.   *)
TimeKept ==
    \A i \in Written :
        /\ MessageTime(output[i]) = ValidTime(input[i])
        /\ OverallLength(output[i]) = WindowInHours(input[i])

(* The messages it is promised for: forecasts of a field at one time or    *)
(* over one interval.  Not hindcasts, whose time is counted from another   *)
(* date, means of a month, indices, which have no forecast time, and what  *)
(* is an instant for one of the two editions only.                         *)
NewParam(g) == ConvertAll(ConvertToMars(g)[1].mars)[1].mars.param

Timely(g) ==
    /\ {"date", "hour", "minute", "second", "startStep", "endStep", "stepType"} \subseteq DOMAIN g
    /\ {g.date, g.hour} \subseteq Nat /\ {g.minute, g.second} \subseteq 0 .. 59
    /\ {g.startStep, g.endStep} \subseteq Int
    /\ "step" \in g.namespace /\ {"hdate", "stattype"} \cap g.namespace = {}
    /\ Statistics(NewParam(g)) # "IndexProcessing"
    /\ NewParam(g) \in PointInTimeParams => g.stepType = "instant"

(* The pressure of a message: hPa or Pa on either side.                    *)
PressureOf(g) == IF g.pressureUnits = "hPa" THEN 100 * g.level ELSE g.level

EncodedPressure(out) == IF out.typeOfLevel = "isobaricInhPa" THEN 100 * out.level ELSE out.level

(* The level is kept: pressures (those an hPa level can hold), model       *)
(* levels, and the layers that were part of the parameter.                 *)
LevelKept ==
    \A i \in Written :
        LET g == input[i]  out == output[i]
            On(levtype) == Has(g, "levtype") /\ g.levtype = levtype
        IN  /\ On("pl") /\ (PressureOf(g) < 100 \/ PressureOf(g) % 100 = 0) =>
                   EncodedPressure(out) = PressureOf(g)
            /\ On("ml") => out.level = g.level
            /\ g.paramId \in Params(LayeredParams) =>
                   out.bottomLevel = Row(LayeredParams, g.paramId)[3]

(* The messages it is promised for: neither a spectrum of waves nor an     *)
(* observation of a satellite, which have no level, and on a level of its  *)
(* own a parameter that stands for no layer.                               *)
Placed(g) ==
    LET leveled == Has(g, "levtype") /\ g.levtype \in {"pl", "ml"}
        layered == g.paramId \in Params(LayeredParams)
    IN  /\ leveled \/ layered => /\ ~({"frequency", "direction"} \subseteq g.namespace)
                                /\ ~({"channel", "ident", "instrument"} \subseteq g.namespace)
        /\ leveled => g.level \in Int /\ ~layered /\ g.paramId \notin ParamsWithLayer

(* The files of such messages, where they can be converted.                *)
TimelyFiles ==
    \A file \in Files : \A i \in 1 .. Len(file) : Converted(file[i]) # Failed => Timely(file[i])
PlacedFiles ==
    \A file \in Files : \A i \in 1 .. Len(file) : Converted(file[i]) # Failed => Placed(file[i])

(* Messages of two parameters that the tables merge, as 174 and 243 or, for *)
(* the hours of its window, 228026 and 201.                                *)
Merged(a, b) ==
    LET mars(p) == ConvertAll([stream |-> "oper", param |-> p])[1].mars
        field(p) == [k \in DOMAIN mars(p) \ {"timespan"} |-> mars(p)[k]]
    IN  /\ b = [a EXCEPT !.paramId = b.paramId]
        /\ field(a.paramId) = field(b.paramId)

(* Two different messages of a file stay different, but for the parameters *)
(* that the tables merge: neither a member, nor a level or a species, nor  *)
(* a time is lost on the way.                                              *)
Distinguishable ==
    \A i, j \in Written :
        i < j /\ input[i] # input[j] /\ output[i] = output[j] => Merged(input[i], input[j])

(* What the rules make of a request does not depend on their order, and a  *)
(* request that was converted is left as it is: no rule writes what an     *)
(* other one writes or has for its input.  For the first request of a file *)
(* with each of the legacy parameters in turn.  (With a levelist, 174098   *)
(* is an exception: ConvertSFC2SOL would move its new parameter to sol.)   *)
NothingOverwritten(rules) ==
    \A i, j \in DOMAIN rules :
        i # j => DOMAIN rules[i].mars \cap DOMAIN rules[j].mars = {}

RulesSettle ==
    /\ state = "extracted" /\ position = 1
    /\ Has(original.mars, "stream") /\ ~Has(original.mars, "levelist")
    =>  \A p \in AllLegacyParams :
            LET in == [param |-> p] ++ original.mars
            IN  /\ NothingOverwritten(Rules(in))
                /\ ConvertAll(ConvertAll(in)[1].mars)[1].mars = ConvertAll(in)[1].mars

(* The rules make the same of a MarsRequest, whose values are texts, as of  *)
(* the dictionary of the tool, whose values have types: a request that     *)
(* grib2mars fills with the keywords of the message and mars2mars converts *)
(* is one that is filled with what mars2mars makes of these keywords, and  *)
(* either fails where the other does.                                      *)
SameForRequests ==
    LET request == Fill(original.mars)
        mapping == ConvertAll(original.mars)
    IN  state = "extracted" /\ request # Failed =>
            ConvertRequest(request[1]) =
                IF mapping = Failed THEN Failed ELSE Fill(mapping[1].mars)
=============================================================================
