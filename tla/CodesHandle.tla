------------------------------ MODULE CodesHandle ------------------------------
(***************************************************************************)
(* metkit::codes::CodesHandle, the C++ face of an ecCodes message, and the *)
(* decoders that gather the metadata of a message through it.              *)
(*                                                                         *)
(* A message of ecCodes is [magic, keys, namespaces, hidden, points]: the  *)
(* four letters it starts with, an entry for each key, the keys of each    *)
(* namespace and those whose name starts with an underscore, and the       *)
(* points of its grid, or Failed.  An entry is [native, values, missing,   *)
(* length, traits]: its native type, its values, whether it is coded as    *)
(* missing, the length of its text, and the kinds of key an iterator may   *)
(* skip.                                                                   *)
(*                                                                         *)
(* A handle holds a message, or none once it was released or where ecCodes *)
(* could not make one; what throws is Failed.                              *)
(***************************************************************************)
EXTENDS Dictionary

Handle(message, owning) == [message |-> message, owning |-> owning]

Raw(h)     == h.message
Release(h) == If(h.owning, Handle(Failed, TRUE))
Clone(h)   == If(Raw(h) # Failed, Handle(Raw(h), TRUE))

\* codesHandleFromMessage, ...FromMessageCopy and ...FromSample give a handle
\* even where ecCodes has no message for it; ...FromFile throws.
HandleFromMessage(message) == Handle(message, TRUE)
HandleFromSample(samples, name) == Handle(Get(samples, name), TRUE)
HandleFromFile(message)    == If(message # Failed, Handle(message, TRUE))
HandleFromGRIBHandle(raw)  == If(raw # Failed, Handle(raw, FALSE))

\* The read of a stream: what it throws and the handle it gives, neither at
\* the end of the stream.  An exception of the function that reads comes first.
CodeOf(outcome) ==
    CASE outcome = "cannotRead"  -> Found("ReadError")
      [] outcome = "wrongLength" -> Found("CodesWrongLength")
      [] outcome = "broken"       -> Found("CodesException")
      [] OTHER                    -> Failed
HandleFromStream(read) ==
    [throws |-> CodeOf(read.outcome),
     handle |-> If(read.outcome = "message", Handle(Found(read.message), TRUE))]
----------------------------------------------------------------------------
(* The entries of a message.                                               *)

Entry(h, k)     == IF Raw(h) = Failed THEN Failed ELSE Get(Raw(h)[1].keys, k)
IsDefined(h, k) == If(Raw(h) # Failed, Has(Raw(h)[1].keys, k))
IsMissing(h, k) == IF Entry(h, k) = Failed THEN Failed ELSE Found(Entry(h, k)[1].missing)
HasKey(h, k)    == IsDefined(h, k) = Found(TRUE) /\ IsMissing(h, k) = Found(FALSE)

\* Octets are one value to ecCodes, however many they are.
Count(entry)    == IF entry.native = "Bytes" THEN 1 ELSE Len(entry.values)
Size(h, k)      == IF Entry(h, k) = Failed THEN Failed ELSE Found(Count(Entry(h, k)[1]))
Length(h, k)    == IF Entry(h, k) = Failed THEN Failed ELSE Found(Entry(h, k)[1].length)

NativeTypes   == {"Long", "Double", "String", "Bytes", "Section", "Label", "Missing"}
TypeOf(h, k) ==
    IF Entry(h, k) = Failed THEN Failed
    ELSE Found(IF Entry(h, k)[1].native \in NativeTypes THEN Entry(h, k)[1].native ELSE "Undefined")

\* What ecCodes answers: a text is no number, and one value is not several.
One(type, entry)  ==
    If(Count(entry) = 1 /\ (type = "string" \/ entry.native # "String"),
       [type |-> type, value |-> IF entry.native = "Bytes" THEN entry.values ELSE entry.values[1]])
Many(type, entry) ==
    If(type = "string" \/ entry.native # "String", [type |-> type, list |-> entry.values])
Octets(entry, room) == If(Len(entry.values) <= room, [type |-> "bytes", list |-> entry.values])

GetOne(h, k, type)  == IF Entry(h, k) = Failed THEN Failed ELSE One(type, Entry(h, k)[1])
GetMany(h, k, type) == IF Entry(h, k) = Failed THEN Failed ELSE Many(type, Entry(h, k)[1])

\* getLong() and the like, as plain values
KeyLong(h, k)   == IF GetOne(h, k, "long") = Failed THEN Failed ELSE Found(GetOne(h, k, "long")[1].value)
KeyString(h, k) == IF GetOne(h, k, "string") = Failed THEN Failed ELSE Found(GetOne(h, k, "string")[1].value)

\* The buffer of the handle has the length of the text; that of an iterator,
\* which takes two characters for an octet, has half of it.
GetBytes(h, k)      == IF Entry(h, k) = Failed THEN Failed ELSE Octets(Entry(h, k)[1], Entry(h, k)[1].length)
IteratorBytes(h, k) == IF Entry(h, k) = Failed THEN Failed ELSE Octets(Entry(h, k)[1], Entry(h, k)[1].length \div 2)

ByType(h, k, octets) ==
    LET native == TypeOf(h, k)[1]
        type   == CASE native = "Long" -> "long" [] native = "Double" -> "double" [] OTHER -> "string"
    IN  CASE native = "Bytes"     -> octets
          [] native = "Undefined" -> Failed
          [] native \in {"Long", "Double", "String"} /\ Size(h, k)[1] > 1 -> GetMany(h, k, type)
          [] OTHER -> GetOne(h, k, type)
GetValue(h, k)      == IF Entry(h, k) = Failed THEN Failed ELSE ByType(h, k, GetBytes(h, k))
IteratorValue(h, k) == IF Entry(h, k) = Failed THEN Failed ELSE ByType(h, k, IteratorBytes(h, k))

\* A number that a key of octets cannot hold is refused.
Stored(native, values) ==
    [native |-> native, values |-> values, missing |-> FALSE, length |-> Len(values), traits |-> {}]
Changed(h, k, entry) ==
    Found([h EXCEPT !.message = <<[@[1] EXCEPT !.keys = [j \in {k} |-> entry] ++ @]>>])
SetKey(h, k, native, values) ==
    IF Raw(h) = Failed \/ (native = "Long" /\ \E i \in DOMAIN values : values[i] < 0) THEN Failed
    ELSE Changed(h, k, Stored(native, values))
\* CODES_MISSING_LONG, which is read where a value is missing.
MissingLong == 2147483647
SetKeyMissing(h, k) ==
    IF Entry(h, k) = Failed THEN Failed
    ELSE Changed(h, k, [Entry(h, k)[1] EXCEPT !.missing = TRUE, !.values = <<MissingLong>>])
----------------------------------------------------------------------------
(* Iterating: the keys of a namespace, or all, without those to be skipped; *)
(* and the points of the grid.                                             *)

HasFlag(flags, flag)  == flag \in flags
Skipped(entry, flags) == \E trait \in entry.traits : HasFlag(flags, trait)
InNamespace(m, namespace) ==
    IF namespace = Failed THEN DOMAIN m.keys
    ELSE DOMAIN m.keys \cap GetOr(m.namespaces, namespace[1], {})[1]

Keys(h, flags, namespace) ==
    IF Raw(h) = Failed THEN Failed
    ELSE LET m == Raw(h)[1]
         IN  Found({k \in InNamespace(m, namespace) : ~Skipped(m.keys[k], flags)})

GeoPoints(h) == IF Raw(h) = Failed THEN Failed ELSE Raw(h)[1].points
----------------------------------------------------------------------------
(* The decoders.  A representation is "String" or "Native".                *)

Magic(message) == message.magic
MatchesGRIB(message) == Magic(message) \in {"GRIB", "TIDE", "BUDG"}
MatchesBUFR(message) == Magic(message) = "BUFR"
SplitterMatches(message) == MatchesGRIB(message) \/ MatchesBUFR(message)

AsText(h, k) == KeyString(h, k)
AsNative(h, k) ==
    LET v == IteratorValue(h, k)
    IN  IF v = Failed THEN Failed
        ELSE IF v[1].type = "bytes" THEN AsText(h, k)
        ELSE If(Has(v[1], "value"), v[1].value)

\* A level is read as a double, and a whole number is gathered as one.  What a
\* key of native type Double holds is counted in tenths.
Level(h, k) ==
    LET v == GetOne(h, k, "double")
    IN  IF v = Failed THEN Failed
        ELSE Found(IF TypeOf(h, k) # Found("Double") THEN Long(v[1].value)
                   ELSE IF v[1].value % 10 = 0 THEN Long(v[1].value \div 10) ELSE Double(v[1].value))

ScalarsOf(h, names) == {k \in names : Size(h, k) = Found(1)}

GatheredGRIB(h, k, representation) ==
    IF representation = "Native" /\ IteratorValue(h, k) = Failed THEN Failed
    ELSE IF k = "levelist" THEN Level(h, k)
    ELSE IF representation = "String" THEN AsText(h, k) ELSE AsNative(h, k)

GatheredBUFR(h, k, representation) ==
    IF representation = "String" THEN AsText(h, k) ELSE AsNative(h, k)

\* The request within a message of local definition 191, in lower case.
EmbeddedRequest(h) ==
    IF ~(HasKey(h, "localDefinitionNumber") /\ KeyLong(h, "localDefinitionNumber") = Found(191)
         /\ HasKey(h, "freeFormData")) THEN Found(NoKeys)
    ELSE LET octets == GetBytes(h, "freeFormData")
         IN  IF octets = Failed THEN Failed
             ELSE LET requests == octets[1].list
                  IN  If(Len(requests) = 1 /\ \A k \in DOMAIN requests[1] : Len(requests[1][k]) = 1,
                         [k \in DOMAIN requests[1] |-> requests[1][k][1]])

MetadataGRIB(message, namespace, representation) ==
    LET h     == HandleFromMessage(message)
        names == Keys(h, {}, Found(namespace))
        read  == [k \in {j \in ScalarsOf(h, names[1]) : j \notin message[1].hidden} |->
                     GatheredGRIB(h, k, representation)]
        param == IF HasKey(h, "paramId") THEN [k \in {"param"} |-> KeyString(h, "paramId")] ELSE NoWrites
    IN  IF names = Failed \/ ~Succeeds(read) \/ ~Succeeds(param) \/ EmbeddedRequest(h) = Failed
        THEN Failed
        ELSE Found(EmbeddedRequest(h)[1] ++ (Values(param) ++ Values(read)))

\* The data are unpacked first: a message stands for its unpacked form.
MetadataBUFR(message, representation) ==
    LET unpacked == SetKey(HandleFromMessage(message), "unpack", "Long", <<1>>)
    IN  IF unpacked = Failed THEN Failed
        ELSE LET h    == unpacked[1]
                 read == [k \in ScalarsOf(h, Keys(h, {}, Failed)[1]) \ {"subsetNumber"} |->
                             GatheredBUFR(h, k, representation)]
             IN  If(Succeeds(read), Values(read))

\* getDoubleArray(key, data, len): the caller asks for the size first.
Decode(h, k) ==
    LET values == GetMany(h, k, "double")
    IN  IF values = Failed THEN Failed ELSE If(Found(Len(values[1].list)) = Size(h, k), values[1].list)
=============================================================================
