------------------------- MODULE MarsExpansionProofs -------------------------
(***************************************************************************)
(* Proofs about MarsExpansion, for any keys, types, rules that look back   *)
(* and any sequence of requests.  The invariant says how far each of the   *)
(* four loops has come: what is read is what the types make of what was    *)
(* given, what is completed comes from memory or a default, what is        *)
(* resolved comes from what was read, and the keys already finalised keep  *)
(* what the rules made of them, because no rule looks at a later key.      *)
(***************************************************************************)
EXTENDS MarsExpansion, AxisMatch, TLAPS

Heard(k)   == (Asked(k) <=> said[k] # <<>>) /\ said[k] # <<off>>
AsRead(k)  == said[k] # <<>> => said[k] \in ReadAs(k)
AsMeant(k) == said[k] # <<>> => said[k] \in Meant(k)
Kept(k)    == said[k] # <<>> => result[k] = said[k]

Filled(k) ==
    IF said[k] # <<>> THEN result[k] = said[k]
    ELSE IF memory[k] # <<>> THEN result[k] \in {<<>>, memory[k]}
    ELSE result[k] \in {<<>>} \cup ValuesOf(Defaults, k)

Settled(k) ==
    said[k] # <<>> =>
        \/ result[k] \in {said[k]} \cup ValuesOf(Sets, k)
        \/ ~strict /\ result[k] = <<>>

UnsetDone(u) ==
    result[u.key] # <<>> /\ Matches(u.context, result) => result[u.key] \in ValuesOf(Sets, u.key)

ReadSoFar == phase = "read" =>
    \A k \in Keys : IF k < turn THEN Heard(k) /\ AsRead(k) /\ result[k] = said[k]
                                ELSE result[k] = <<>> /\ said[k] = <<>>
Completing == phase \in {"complete", "remember"} => \A k \in Keys : Heard(k) /\ AsRead(k) /\ Filled(k)
Resolving  == phase = "resolve" =>
    \A k \in Keys : Heard(k) /\ Kept(k) /\ (IF k < turn THEN AsMeant(k) ELSE AsRead(k))
Finalising == phase = "finalise" =>
    /\ \A k \in Keys : Heard(k) /\ AsMeant(k) /\ (IF k < turn THEN Settled(k) ELSE Kept(k))
    /\ \A u \in Unsets : u.key < turn => UnsetDone(u)
Finished == phase = "done" =>
    /\ \A k \in Keys : Heard(k) /\ AsMeant(k) /\ Settled(k)
    /\ \A u \in Unsets : UnsetDone(u)

(* turn starts again with every loop, and memory is complete after the second *)
Counted == phase = "remember" => turn = 1

Loops == ReadSoFar /\ Completing /\ Resolving /\ Finalising /\ Finished /\ Counted
Inv   == TypeOK /\ LastWins /\ Loops

------------------------------------------------------------------------------
LEMMA ElementOf == ASSUME NEW S, NEW s \in Seq(S), NEW i \in DOMAIN s PROVE s[i] \in S
OBVIOUS

(* The sense of a list is a list, and no list but <<off>> means <<off>>. *)
LEMMA SenseIsList ==
    ASSUME NEW senses \in Senses, NEW lists \in SUBSET Lists, NEW list \in lists, NEW request
    PROVE  /\ Sense(senses, list, request) \in Lists
           /\ list # <<off>> => Sense(senses, list, request) # <<off>>
           /\ Sense(senses, list, request) # <<>> => Sense(senses, list, request) \in SensesOf(senses, lists)
<1>1. CASE ~\E i \in DOMAIN senses : IsSense(senses, i, request)
  BY <1>1, RulesAssumption DEF Sense
<1>2. CASE \E i \in DOMAIN senses : IsSense(senses, i, request)
  <2>1. PICK i \in DOMAIN senses : Sense(senses, list, request) = senses[i].of[list]
    BY <1>2 DEF Sense
  <2>2. senses[i] \in [context : Contexts, of : Meanings]
    BY ElementOf DEF Senses
  <2>3. senses[i].of \in Meanings
    BY <2>2
  <2>4. senses[i].of[list] \in Lists /\ (list # <<off>> => senses[i].of[list] # <<off>>)
    BY <2>3 DEF Meanings
  <2>5. senses[i].of[list] \in SensesOf(senses, lists)
    BY DEF SensesOf
  <2> QED
    BY <2>1, <2>4, <2>5
<1> QED
  BY <1>1, <1>2

LEMMA SensesOfAreLists ==
    ASSUME NEW senses \in Senses, NEW lists \in SUBSET Lists
    PROVE  SensesOf(senses, lists) \subseteq Lists
<1> SUFFICES ASSUME NEW i \in DOMAIN senses, NEW list \in lists PROVE senses[i].of[list] \in Lists
  BY DEF SensesOf
<1>1. senses[i] \in [context : Contexts, of : Meanings]
  BY ElementOf DEF Senses
<1>2. senses[i].of \in Meanings
  BY <1>1
<1> QED
  BY <1>2 DEF Meanings

(* What is read of a key that is asked for *)
LEMMA ReadGives ==
    ASSUME TypeOK, NEW k \in Keys, Asked(k)
    PROVE  /\ ReadValues(k, given[k]) \in Lists /\ ReadValues(k, given[k]) # <<off>>
           /\ ReadValues(k, given[k]) # <<>> => ReadValues(k, given[k]) \in ReadAs(k)
<1>1. given[k] \in Lists /\ given[k] # <<off>>
  BY DEF TypeOK, Request, Asked
<1>2. Readings[k] \in Senses
  BY RulesAssumption
<1>3. CASE IsAll(k, given[k])
  BY <1>1, <1>3 DEF ReadValues, ReadAs
<1>4. CASE ~IsAll(k, given[k])
  <2>1. ReadValues(k, given[k]) = Sense(Readings[k], given[k], result)
    BY <1>4 DEF ReadValues
  <2>2. {given[k]} \in SUBSET Lists
    BY <1>1
  <2> QED
    BY <1>1, <1>2, <2>1, <2>2, SenseIsList DEF ReadAs
<1> QED
  BY <1>3, <1>4

(* What is resolved of it *)
LEMMA ResolveGives ==
    ASSUME TypeOK, NEW k \in Keys
    PROVE  /\ Sense(Resolvers[k], result[k], result) \in Lists
           /\ result[k] # <<off>> => Sense(Resolvers[k], result[k], result) # <<off>>
           /\ result[k] \in ReadAs(k) =>
                  Sense(Resolvers[k], result[k], result) \in {<<>>} \cup Meant(k)
<1>1. result[k] \in Lists /\ given[k] \in Lists
  BY DEF TypeOK, Request
<1>2. Resolvers[k] \in Senses /\ Readings[k] \in Senses
  BY RulesAssumption
<1>3. ReadAs(k) \in SUBSET Lists
  <2>1. {given[k]} \in SUBSET Lists
    BY <1>1
  <2> QED
    BY <1>2, <2>1, SensesOfAreLists DEF ReadAs
<1>4. {result[k]} \in SUBSET Lists
  BY <1>1
<1>5. /\ Sense(Resolvers[k], result[k], result) \in Lists
      /\ result[k] # <<off>> => Sense(Resolvers[k], result[k], result) # <<off>>
  BY <1>2, <1>4, SenseIsList
<1>6. ASSUME result[k] \in ReadAs(k)
      PROVE  Sense(Resolvers[k], result[k], result) \in {<<>>} \cup Meant(k)
  BY <1>2, <1>3, <1>6, SenseIsList DEF Meant
<1> QED
  BY <1>5, <1>6

(* A context that looks back does not see later keys. *)
LEMMA MatchesIsLocal ==
    ASSUME NEW context \in Contexts, NEW k \in Keys, LooksBack(k, context),
           NEW r \in Request, NEW s \in Request, \A j \in Keys : j <= k => r[j] = s[j]
    PROVE  Matches(context, r) <=> Matches(context, s)
<1>1. ASSUME NEW rule \in context.rules PROVE RuleMatches(rule, r) <=> RuleMatches(rule, s)
  <2>1. rule.key \in Keys
    BY <1>1 DEF Contexts, Rules
  <2>2. r[rule.key] = s[rule.key]
    BY <1>1, <2>1 DEF LooksBack
  <2> QED
    BY <2>2 DEF RuleMatches
<1> QED
  BY <1>1 DEF Matches

LEMMA UnsetRule ==
    ASSUME NEW u \in Unsets
    PROVE  u.key \in Keys /\ u.context \in Contexts /\ LooksBack(u.key, u.context)
BY RulesAssumption

LEMMA GoesOn ==
    ASSUME turn \in Keys, NEW in, NEW next, GoOn(in, next)
    PROVE  /\ turn' \in Keys
           /\ \/ turn < N /\ turn' = turn + 1 /\ phase' = in
              \/ turn = N /\ turn' = 1 /\ phase' = next
BY RulesAssumption DEF GoOn, Keys

(* What is said of a key depends on no more than the request and what was said. *)
LEMMA SaidKept ==
    ASSUME UNCHANGED given, NEW k \in Keys, said'[k] = said[k]
    PROVE  /\ (Heard(k)' <=> Heard(k)) /\ (AsRead(k)' <=> AsRead(k)) /\ (AsMeant(k)' <=> AsMeant(k))
           /\ result'[k] = result[k] => (Kept(k)' <=> Kept(k))
BY DEF Heard, Asked, AsRead, ReadAs, AsMeant, Meant, Kept

(* The values the variables take keep them requests. *)
LEMMA TypeKept ==
    ASSUME TypeOK, UNCHANGED <<config, given, first, requests>>, turn' \in Keys,
           phase' \in {"read", "complete", "remember", "resolve", "finalise", "done", "refused"},
           result' \in Request, memory' \in Request, said' \in Request, taught' \in Request
    PROVE  TypeOK'
BY DEF TypeOK, config

(* One key of a request changes *)
LEMMA OneChanges ==
    ASSUME NEW r \in Request, NEW m \in Keys, NEW v \in Lists
    PROVE  /\ [r EXCEPT ![m] = v] \in Request
           /\ \A k \in Keys : [r EXCEPT ![m] = v][k] = IF k = m THEN v ELSE r[k]
BY DEF Request

LEMMA NothingIsRequest == Nothing \in Request
BY RulesAssumption DEF Nothing, Request

------------------------------------------------------------------------------
LEMMA InvInit == Init => Inv
<1> SUFFICES ASSUME Init PROVE Inv
  OBVIOUS
<1>1. N \in Nat \ {0}
  BY RulesAssumption
<1>2. TypeOK
  BY <1>1, NothingIsRequest DEF Init, TypeOK, Keys
<1>3. LastWins
  BY DEF Init, LastWins, Nothing
<1> QED
  BY <1>2, <1>3 DEF Init, Inv, Loops, ReadSoFar, Completing, Resolving, Finalising, Finished, Counted

LEMMA BeginKeeps ==
    ASSUME NEW request \in Request, Begin(request)
    PROVE  Loops' /\ turn' \in Keys
<1>1. ReadSoFar'
  BY DEF Begin, ReadSoFar, Nothing, Keys
<1>2. turn' \in Keys
  BY RulesAssumption DEF Begin, Keys
<1> QED
  BY <1>1, <1>2 DEF Begin, Loops, Completing, Resolving, Finalising, Finished, Counted

LEMMA StartKeeps == ASSUME Inv, NEW request \in Requests, Start(request) PROVE Inv'
<1>1. request \in Request
  BY RulesAssumption DEF Request
<1>2. Loops' /\ turn' \in Keys
  BY <1>1, BeginKeeps DEF Start
<1>3. TypeOK'
  BY <1>1, <1>2, NothingIsRequest DEF Start, Begin, Inv, TypeOK, config, history
<1>4. LastWins'
  BY DEF Start, Inv, LastWins, history
<1> QED
  BY <1>2, <1>3, <1>4 DEF Inv

LEMMA ExpandAgainKeeps == ASSUME Inv, ExpandAgain PROVE Inv'
<1>1. result \in Request
  BY DEF Inv, TypeOK
<1>2. Loops' /\ turn' \in Keys
  BY <1>1, BeginKeeps DEF ExpandAgain
<1>3. TypeOK'
  BY <1>1, <1>2, NothingIsRequest DEF ExpandAgain, Begin, Inv, TypeOK, config
<1>4. LastWins'
  BY DEF ExpandAgain, LastWins, Nothing
<1> QED
  BY <1>2, <1>3, <1>4 DEF Inv

LEMMA ResetKeeps == ASSUME Inv, Reset PROVE Inv'
<1>1. TypeOK'
  BY NothingIsRequest DEF Reset, Inv, TypeOK, config
<1>2. LastWins'
  BY DEF Reset, LastWins, Nothing
<1>3. \A k \in Keys : (Heard(k)' <=> Heard(k)) /\ (AsMeant(k)' <=> AsMeant(k))
  BY SaidKept DEF Reset
<1>4. Finished'
  BY <1>3 DEF Reset, Inv, Loops, Finished, Settled, UnsetDone, Matches, RuleMatches, config
<1> QED
  BY <1>1, <1>2, <1>4 DEF Reset, Inv, Loops, ReadSoFar, Completing, Resolving, Finalising, Counted

LEMMA RefuseKeeps ==
    ASSUME Inv, Refuse, UNCHANGED <<config, given, requests>>
    PROVE  Inv'
<1>1. TypeOK'
  BY TypeKept DEF Refuse, Inv, TypeOK, history
<1>2. LastWins'
  BY DEF Refuse, Inv, LastWins, history
<1> QED
  BY <1>1, <1>2 DEF Refuse, Inv, Loops, ReadSoFar, Completing, Resolving, Finalising, Finished, Counted

------------------------------------------------------------------------------
(* What the loop over the parameters leaves is complete for the next one: by   *)
(* the end of it every key is as the types read it, or not there.             *)

ReadOne(k) == Heard(k) /\ AsRead(k) /\ result[k] = said[k]

LEMMA NoneBeforeTheFirst ==
    /\ \A k \in Keys : ~(k < 1)
    /\ \A u \in Unsets : ~(u.key < 1)
<1>1. \A k \in Keys : ~(k < 1)
  BY DEF Keys
<1> QED
  BY <1>1, UnsetRule

LEMMA AfterReading ==
    ASSUME \A k \in Keys : ReadOne(k)', turn' = 1, phase' = AfterRead
    PROVE  Loops'
<1>1. phase' \in {"complete", "resolve"}
  BY DEF AfterRead
<1>2. Completing' /\ Resolving'
  BY NoneBeforeTheFirst DEF ReadOne, Completing, Resolving, Filled, Kept
<1> QED
  BY <1>1, <1>2 DEF Loops, ReadSoFar, Finalising, Finished, Counted

LEMMA ReadLoop ==
    ASSUME Inv, phase = "read", GoOn("read", AfterRead), UNCHANGED <<config, given>>,
           NEW m \in Keys, m = turn, NEW v \in Lists,
           result' = [result EXCEPT ![m] = v], said' = [said EXCEPT ![m] = v],
           Asked(m) <=> v # <<>>, v # <<off>>, v # <<>> => v \in ReadAs(m)
    PROVE  Loops'
<1>1. turn \in Keys /\ N \in Nat \ {0} /\ result \in Request /\ said \in Request
  BY RulesAssumption DEF Inv, TypeOK
<1>2. \A k \in Keys : IF k < turn THEN ReadOne(k) ELSE result[k] = <<>> /\ said[k] = <<>>
  BY DEF Inv, Loops, ReadSoFar, ReadOne
<1>3. \A k \in Keys : /\ result'[k] = IF k = m THEN v ELSE result[k]
                      /\ said'[k] = IF k = m THEN v ELSE said[k]
  BY <1>1, OneChanges
<1>4. \A k \in Keys : k < turn => ReadOne(k)'
  <2> SUFFICES ASSUME NEW k \in Keys, k < turn PROVE ReadOne(k)'
    OBVIOUS
  <2>1. k # m
    BY DEF Keys
  <2>2. said'[k] = said[k] /\ result'[k] = result[k] /\ ReadOne(k)
    BY <1>2, <1>3, <2>1
  <2> QED
    BY <2>2, SaidKept DEF ReadOne
<1>5. ReadOne(m)'
  <2>1. said'[m] = v /\ result'[m] = v
    BY <1>3
  <2>2. ASSUME NEW k \in Keys, said'[k] = v, k = m PROVE Heard(k)' /\ AsRead(k)'
    BY <2>2 DEF Heard, AsRead, Asked, ReadAs
  <2> QED
    BY <2>1, <2>2 DEF ReadOne
<1>6. \A k \in Keys : k > turn => result'[k] = <<>> /\ said'[k] = <<>>
  BY <1>1, <1>2, <1>3 DEF Keys
<1>7. CASE turn < N /\ turn' = turn + 1 /\ phase' = "read"
  <2>1. \A k \in Keys : /\ k < turn' <=> k < turn \/ k = m
                        /\ ~(k < turn') => k > turn
    BY <1>1, <1>7 DEF Keys
  <2>2. ReadSoFar'
    BY <1>4, <1>5, <1>6, <2>1 DEF ReadSoFar, ReadOne
  <2> QED
    BY <1>7, <2>2 DEF Loops, Completing, Resolving, Finalising, Finished, Counted
<1>8. CASE turn = N /\ turn' = 1 /\ phase' = AfterRead
  <2>1. \A k \in Keys : k < turn \/ k = m
    BY <1>1, <1>8 DEF Keys
  <2> QED
    BY <1>4, <1>5, <1>8, <2>1, AfterReading
<1> QED
  BY <1>1, <1>7, <1>8, GoesOn

(* A key that is not there, or off, leaves nothing. *)
LEMMA NotAskedLoop ==
    ASSUME Inv, phase = "read", GoOn("read", AfterRead), UNCHANGED <<config, given, result, said>>,
           ~Asked(turn)
    PROVE  Loops'
<1>1. turn \in Keys /\ result \in Request /\ said \in Request
  BY DEF Inv, TypeOK
<1>2. result[turn] = <<>> /\ said[turn] = <<>>
  BY <1>1 DEF Inv, Loops, ReadSoFar, Keys
<1>3. PICK m \in Keys : m = turn
  BY <1>1
<1>4. result' = [result EXCEPT ![m] = <<>>] /\ said' = [said EXCEPT ![m] = <<>>]
  BY <1>1, <1>2, <1>3 DEF Request
<1> QED
  BY <1>3, <1>4, ReadLoop, RulesAssumption

LEMMA ReadNothingKeeps == ASSUME Inv, ReadNothing PROVE Inv'
<1>1. turn \in Keys /\ TypeOK
  BY DEF Inv, TypeOK
<1>2. TypeOK'
  BY <1>1, GoesOn, TypeKept DEF ReadNothing, AfterRead, TypeOK, history
<1>3. LastWins'
  BY DEF ReadNothing, Inv, LastWins, history
<1> QED
  BY <1>2, <1>3, NotAskedLoop DEF ReadNothing, Inv, Asked

LEMMA ReadOffKeepsInv == ASSUME Inv, ReadOff PROVE Inv'
<1>1. turn \in Keys /\ TypeOK /\ {memory, taught} \subseteq Request
  BY DEF Inv, TypeOK
<1>2. memory' \in Request /\ taught' \in Request
  BY <1>1, OneChanges, RulesAssumption DEF ReadOff
<1>3. TypeOK'
  BY <1>1, <1>2, GoesOn, TypeKept DEF ReadOff, AfterRead, TypeOK
<1>4. LastWins'
  BY <1>1 DEF ReadOff, Inv, LastWins, Request
<1> QED
  BY <1>3, <1>4, NotAskedLoop DEF ReadOff, Inv, Asked

LEMMA ReadKeeps == ASSUME Inv, Read PROVE Inv'
<1> DEFINE v == ReadValues(turn, given[turn])
<1>1. turn \in Keys /\ TypeOK /\ result \in Request /\ said \in Request
  BY DEF Inv, TypeOK
<1>2. ASSUME v # <<>>, GoOn("read", AfterRead), UNCHANGED <<memory, history>>,
             result' = [result EXCEPT ![turn] = v], said' = [said EXCEPT ![turn] = v]
      PROVE  Inv'
  <2>1. v \in Lists /\ v # <<off>> /\ v \in ReadAs(turn)
    BY <1>1, <1>2, ReadGives DEF Read
  <2>2. TypeOK'
    <3>1. result' \in Request /\ said' \in Request
      BY <1>1, <1>2, <2>1, OneChanges
    <3> QED
      BY <1>1, <1>2, <3>1, GoesOn, TypeKept DEF Read, AfterRead, TypeOK, history
  <2>3. LastWins'
    BY <1>2 DEF Inv, LastWins, history
  <2>4. Loops'
    <3>1. PICK m \in Keys : m = turn
      BY <1>1
    <3> HIDE DEF v
    <3>2. Asked(m) <=> v # <<>>
      BY <1>2, <3>1 DEF Read
    <3> QED
      BY <1>2, <2>1, <3>1, <3>2, ReadLoop DEF Read
  <2> QED
    BY <2>2, <2>3, <2>4 DEF Inv
<1> QED
  BY <1>2, RefuseKeeps DEF Read

------------------------------------------------------------------------------
LEMMA CompleteKeeps == ASSUME Inv, Complete PROVE Inv'
<1>1. turn \in Keys /\ TypeOK /\ {result, memory} \subseteq Request
  BY DEF Inv, TypeOK
<1>2. PICK m \in Keys : m = turn
  BY <1>1
<1>3. PICK v \in Lists :
         /\ result' = [result EXCEPT ![m] = v]
         /\ \/ v = result[m]
            \/ result[m] = <<>> /\ memory[m] # <<>> /\ v = memory[m]
            \/ result[m] = <<>> /\ memory[m] = <<>> /\ v \in ValuesOf(Defaults, m)
  <2>1. result[m] \in Lists /\ memory[m] \in Lists
        /\ result = [result EXCEPT ![m] = result[m]]
    BY <1>1 DEF Request
  <2>2. ASSUME NEW d \in Matching(Defaults, m, result)
        PROVE  d.vals \in Lists /\ d.vals \in ValuesOf(Defaults, m)
    BY <2>2, RulesAssumption DEF Matching, ValuesOf
  <2>3. \/ result' = result
        \/ result[m] = <<>> /\ memory[m] # <<>> /\ result' = [result EXCEPT ![m] = memory[m]]
        \/ /\ result[m] = <<>> /\ memory[m] = <<>>
           /\ \E d \in Matching(Defaults, m, result) : result' = [result EXCEPT ![m] = d.vals]
    BY <1>2 DEF Complete
  <2> QED
    BY <2>1, <2>2, <2>3
<1>4. result' \in Request /\ \A k \in Keys : result'[k] = IF k = m THEN v ELSE result[k]
  BY <1>1, <1>3 DEF Request
<1>5. TypeOK'
  BY <1>1, <1>4, GoesOn, TypeKept DEF Complete, TypeOK, history
<1>6. LastWins'
  BY DEF Complete, Inv, LastWins, history
<1>7. \A k \in Keys : Heard(k)' /\ AsRead(k)' /\ Filled(k)'
  <2> SUFFICES ASSUME NEW k \in Keys PROVE Heard(k)' /\ AsRead(k)' /\ Filled(k)'
    OBVIOUS
  <2>1. Heard(k) /\ AsRead(k) /\ Filled(k) /\ memory' = memory /\ said' = said
    BY DEF Inv, Loops, Complete, Completing
  <2>2. Filled(k)'
    BY <1>3, <1>4, <2>1 DEF Filled
  <2> QED
    BY <2>1, <2>2, SaidKept DEF Complete
<1>8. phase' \in {"complete", "remember"} /\ Counted'
  BY <1>1, GoesOn DEF Complete, Counted
<1> QED
  BY <1>5, <1>6, <1>7, <1>8 DEF Inv, Loops, ReadSoFar, Completing, Resolving, Finalising, Finished

LEMMA RememberKeepsInv == ASSUME Inv, Remember PROVE Inv'
<1>1. TypeOK /\ {result, memory, taught, said} \subseteq Request /\ turn = 1 /\ turn \in Keys
  BY DEF Inv, Loops, TypeOK, Counted, Remember
<1>2. \A k \in Keys : Heard(k) /\ AsRead(k) /\ Filled(k)
  BY DEF Inv, Loops, Remember, Completing
<1>3. TypeOK'
  <2>1. memory' \in Request /\ taught' \in Request
    BY <1>1 DEF Remember, Request
  <2> QED
    BY <1>1, <2>1, TypeKept DEF Remember, TypeOK
<1>4. LastWins'
  <2> SUFFICES ASSUME NEW k \in Keys
               PROVE  IF taught'[k] # <<>> THEN memory'[k] = taught'[k]
                      ELSE memory'[k] \in {<<>>} \cup ValuesOf(Defaults, k)
    BY DEF LastWins
  <2>1. /\ memory'[k] = IF result[k] # <<>> THEN result[k] ELSE memory[k]
        /\ taught'[k] = IF said[k] # <<>> THEN said[k] ELSE taught[k]
    BY DEF Remember
  <2>2. IF taught[k] # <<>> THEN memory[k] = taught[k]
                            ELSE memory[k] \in {<<>>} \cup ValuesOf(Defaults, k)
    BY DEF Inv, LastWins
  <2> QED
    BY <1>2, <2>1, <2>2 DEF Filled
<1>5. Resolving'
  <2>1. \A k \in Keys : Heard(k)' /\ AsRead(k)' /\ Kept(k)'
    <3> SUFFICES ASSUME NEW k \in Keys PROVE Heard(k)' /\ AsRead(k)' /\ Kept(k)'
      OBVIOUS
    <3>1. Kept(k)
      BY <1>2 DEF Filled, Kept
    <3> QED
      BY <1>2, <3>1, SaidKept DEF Remember
  <2> QED
    BY <1>1, <2>1, NoneBeforeTheFirst DEF Resolving, Remember
<1> QED
  BY <1>3, <1>4, <1>5 DEF Inv, Loops, Remember, ReadSoFar, Completing, Finalising, Finished, Counted

------------------------------------------------------------------------------
(* Resolving a key changes that key only; what was said of it is resolved with it. *)
LEMMA ResolveLoop ==
    ASSUME Inv, phase = "resolve", GoOn("resolve", "finalise"), UNCHANGED <<config, given>>,
           NEW m \in Keys, m = turn, NEW v \in Lists, NEW s \in Lists,
           result' = [result EXCEPT ![m] = v], said' = [said EXCEPT ![m] = s],
           s \in {<<>>, v}, s # <<off>>, s # <<>> <=> said[m] # <<>>,
           s # <<>> => s \in Meant(m)
    PROVE  Loops'
<1>1. turn \in Keys /\ N \in Nat \ {0} /\ result \in Request /\ said \in Request
  BY RulesAssumption DEF Inv, TypeOK
<1>2. \A k \in Keys : Heard(k) /\ Kept(k) /\ (IF k < turn THEN AsMeant(k) ELSE AsRead(k))
  BY DEF Inv, Loops, Resolving
<1>3. \A k \in Keys : /\ result'[k] = IF k = m THEN v ELSE result[k]
                      /\ said'[k] = IF k = m THEN s ELSE said[k]
  BY <1>1, OneChanges
<1>4. \A k \in Keys : k # m => /\ Heard(k)' /\ Kept(k)'
                               /\ (AsMeant(k)' <=> AsMeant(k)) /\ (AsRead(k)' <=> AsRead(k))
  <2> SUFFICES ASSUME NEW k \in Keys, k # m
               PROVE  /\ Heard(k)' /\ Kept(k)'
                      /\ (AsMeant(k)' <=> AsMeant(k)) /\ (AsRead(k)' <=> AsRead(k))
    OBVIOUS
  <2>1. said'[k] = said[k] /\ result'[k] = result[k]
    BY <1>3
  <2> QED
    BY <1>2, <2>1, SaidKept
<1>5. Heard(m)' /\ Kept(m)' /\ AsMeant(m)'
  <2>1. said'[m] = s /\ result'[m] = v /\ Heard(m)
    BY <1>2, <1>3
  <2>2. ASSUME NEW k \in Keys, said'[k] = s, result'[k] = v, k = m, Heard(k)
        PROVE  Heard(k)' /\ Kept(k)' /\ AsMeant(k)'
    BY <2>2 DEF Heard, Kept, AsMeant, Asked, Meant, ReadAs
  <2> QED
    BY <2>1, <2>2
<1>6. CASE turn < N /\ turn' = turn + 1 /\ phase' = "resolve"
  <2>1. \A k \in Keys : k < turn' <=> k < turn \/ k = m
    BY <1>1, <1>6 DEF Keys
  <2>2. Resolving'
    BY <1>2, <1>4, <1>5, <2>1 DEF Resolving
  <2> QED
    BY <1>6, <2>2 DEF Loops, ReadSoFar, Completing, Finalising, Finished, Counted
<1>7. CASE turn = N /\ turn' = 1 /\ phase' = "finalise"
  <2>1. \A k \in Keys : k < turn \/ k = m
    BY <1>1, <1>7 DEF Keys
  <2>2. \A k \in Keys : Heard(k)' /\ Kept(k)' /\ AsMeant(k)'
    BY <1>2, <1>4, <1>5, <2>1
  <2>3. Finalising'
    BY <1>7, <2>2, NoneBeforeTheFirst DEF Finalising
  <2> QED
    BY <1>7, <2>3 DEF Loops, ReadSoFar, Completing, Resolving, Finished, Counted
<1> QED
  BY <1>1, <1>6, <1>7, GoesOn

LEMMA PassByKeeps == ASSUME Inv, PassBy PROVE Inv'
<1>1. turn \in Keys /\ TypeOK /\ result \in Request /\ said \in Request
  BY DEF Inv, TypeOK
<1>2. PICK m \in Keys : m = turn
  BY <1>1
<1>3. Heard(m) /\ Kept(m) /\ AsRead(m)
  BY <1>1, <1>2 DEF Inv, Loops, PassBy, Resolving, Keys
<1>4. /\ result' = [result EXCEPT ![m] = result[m]] /\ said' = [said EXCEPT ![m] = said[m]]
      /\ result[m] \in Lists /\ said[m] \in Lists
  BY <1>1 DEF PassBy, Request
<1>5. said[m] # <<>> => said[m] \in Meant(m)
  BY <1>3 DEF AsRead, Meant
<1>6. Loops'
  <2>1. said[m] \in {<<>>, result[m]} /\ said[m] # <<off>>
    BY <1>3 DEF Kept, Heard
  <2> QED
    BY <1>2, <1>4, <1>5, <2>1, ResolveLoop DEF PassBy
<1>7. TypeOK'
  BY <1>1, GoesOn, TypeKept DEF PassBy, TypeOK, history
<1>8. LastWins'
  BY DEF PassBy, Inv, LastWins, history
<1> QED
  BY <1>6, <1>7, <1>8 DEF Inv

LEMMA ResolveKeeps == ASSUME Inv, Resolve PROVE Inv'
<1> DEFINE v == Sense(Resolvers[turn], result[turn], result)
           s == IF said[turn] = <<>> THEN <<>> ELSE v
<1>1. turn \in Keys /\ TypeOK /\ result \in Request /\ said \in Request
  BY DEF Inv, TypeOK
<1>2. ASSUME v # <<>>, GoOn("resolve", "finalise"), UNCHANGED <<memory, history>>,
             result' = [result EXCEPT ![turn] = v], said' = [said EXCEPT ![turn] = s]
      PROVE  Inv'
  <2>1. Heard(turn) /\ Kept(turn) /\ AsRead(turn)
    BY <1>1 DEF Inv, Loops, Resolve, Resolving, Keys
  <2>2. v \in Lists /\ s \in Lists
    BY <1>1, ResolveGives, RulesAssumption
  <2>3. said[turn] # <<>> => v # <<off>> /\ v \in Meant(turn)
    BY <1>1, <1>2, <2>1, ResolveGives DEF Heard, Kept, AsRead
  <2>4. s \in {<<>>, v} /\ s # <<off>> /\ (s # <<>> <=> said[turn] # <<>>) /\ (s # <<>> => s \in Meant(turn))
    BY <1>2, <2>3
  <2>5. TypeOK'
    <3>1. result' \in Request /\ said' \in Request
      BY <1>1, <1>2, <2>2, OneChanges
    <3> QED
      BY <1>1, <1>2, <3>1, GoesOn, TypeKept DEF Resolve, TypeOK, history
  <2>6. LastWins'
    BY <1>2 DEF Inv, LastWins, history
  <2>7. Loops'
    <3>1. PICK m \in Keys : m = turn
      BY <1>1
    <3> HIDE DEF v, s
    <3> QED
      BY <1>2, <2>2, <2>4, <3>1, ResolveLoop DEF Resolve
  <2> QED
    BY <2>5, <2>6, <2>7 DEF Inv
<1> QED
  BY <1>2, RefuseKeeps DEF Resolve

------------------------------------------------------------------------------
(* Finalising a key may change that key only; what the rules make of it then
   stays, and the unset contexts of the keys before it do not see it. *)
LEMMA FinaliseLoop ==
    ASSUME Inv, phase = "finalise", GoOn("finalise", "done"), UNCHANGED <<config, given, said>>,
           NEW v \in Lists, NEW m \in Keys, m = turn, result' = [result EXCEPT ![m] = v],
           Settled(m)', \A u \in Unsets : u.key = m => UnsetDone(u)'
    PROVE  Loops'
<1>1. turn \in Keys /\ N \in Nat \ {0} /\ {result, result'} \subseteq Request
  BY RulesAssumption DEF Inv, TypeOK, Request
<1>2. \A k \in Keys : k # m => result'[k] = result[k]
  BY <1>1 DEF Request
<1>3. \A k \in Keys : Heard(k)' /\ AsMeant(k)'
  BY SaidKept DEF Inv, Loops, Finalising
<1>4. \A k \in Keys : k < turn \/ k = m => Settled(k)'
  <2> SUFFICES ASSUME NEW k \in Keys, k < turn PROVE Settled(k)'
    OBVIOUS
  <2>1. k # m
    BY <1>1 DEF Keys
  <2>2. Settled(k)
    BY DEF Inv, Loops, Finalising
  <2> QED
    BY <1>2, <2>1, <2>2 DEF Settled, config
<1>5. \A u \in Unsets : u.key < turn \/ u.key = m => UnsetDone(u)'
  <2> SUFFICES ASSUME NEW u \in Unsets, u.key < turn PROVE UnsetDone(u)'
    OBVIOUS
  <2>1. u.key \in Keys /\ u.context \in Contexts /\ LooksBack(u.key, u.context)
    BY <1>1, UnsetRule DEF Keys
  <2>2. UnsetDone(u)
    BY <2>1 DEF Inv, Loops, Finalising
  <2>3. \A j \in Keys : j <= u.key => result'[j] = result[j]
    BY <1>1, <1>2, <2>1 DEF Keys
  <2>4. Matches(u.context, result') <=> Matches(u.context, result)
    BY <1>1, <2>1, <2>3, MatchesIsLocal
  <2>5. Matches(u.context, result)' <=> Matches(u.context, result')
    BY DEF Matches, RuleMatches, config
  <2>6. result'[u.key] = result[u.key]
    BY <1>1, <2>1, <2>3 DEF Keys
  <2> QED
    BY <2>2, <2>4, <2>5, <2>6 DEF UnsetDone
<1>6. CASE turn < N /\ turn' = turn + 1 /\ phase' = "finalise"
  <2>1. \A k \in Keys : k < turn' <=> k < turn \/ k = m
    BY <1>1, <1>6 DEF Keys
  <2>2. \A k \in Keys : k < turn' => Settled(k)'
    BY <1>4, <2>1
  <2>3. \A k \in Keys : ~(k < turn') => Kept(k)'
    <3> SUFFICES ASSUME NEW k \in Keys, ~(k < turn') PROVE Kept(k)'
      OBVIOUS
    <3>1. k # m /\ ~(k < turn)
      BY <2>1
    <3> QED
      BY <1>2, <3>1, SaidKept DEF Inv, Loops, Finalising
  <2>4. \A u \in Unsets : u.key < turn' => UnsetDone(u)'
    BY <1>5, <2>1, UnsetRule
  <2>5. Finalising'
    BY <1>3, <2>2, <2>3, <2>4 DEF Finalising
  <2> QED
    BY <1>6, <2>5 DEF Loops, ReadSoFar, Completing, Resolving, Finished, Counted
<1>7. CASE turn = N /\ turn' = 1 /\ phase' = "done"
  <2>1. \A k \in Keys : k < turn \/ k = m
    BY <1>1, <1>7 DEF Keys
  <2>2. Finished'
    BY <1>3, <1>4, <1>5, <2>1, UnsetRule DEF Finished
  <2> QED
    BY <1>7, <2>2 DEF Loops, ReadSoFar, Completing, Resolving, Finalising, Counted
<1> QED
  BY <1>1, <1>6, <1>7, GoesOn

LEMMA FinaliseOffKeeps == ASSUME Inv, FinaliseOff PROVE Inv'
<1>0. PICK m \in Keys : m = turn
  BY DEF Inv, TypeOK
<1>1. turn \in Keys /\ TypeOK /\ result \in Request
  BY DEF Inv, TypeOK
<1>2. said[m] = <<>>
  <2>1. Heard(m) /\ Kept(m)
    BY <1>0, <1>1 DEF FinaliseOff, Inv, Loops, Finalising, Keys
  <2> QED
    BY <1>0, <2>1 DEF FinaliseOff, Heard, Kept
<1>3. result'[m] = <<>> /\ result' \in Request
  BY <1>0, <1>1, RulesAssumption DEF FinaliseOff, Request
<1>4. Settled(m)' /\ \A u \in Unsets : u.key = m => UnsetDone(u)'
  <2>1. ASSUME NEW k \in Keys, said[k] = <<>> PROVE Settled(k)'
    BY <2>1 DEF FinaliseOff, Settled
  <2> QED
    BY <1>2, <1>3, <2>1 DEF UnsetDone
<1>5. TypeOK'
  BY <1>1, <1>3, GoesOn, TypeKept DEF FinaliseOff, TypeOK, history
<1>6. LastWins'
  BY DEF FinaliseOff, Inv, LastWins, history
<1>7. Loops'
  BY <1>0, <1>4, FinaliseLoop, RulesAssumption DEF FinaliseOff
<1> QED
  BY <1>5, <1>6, <1>7 DEF Inv

LEMMA FinaliseKeeps == ASSUME Inv, Finalise PROVE Inv'
<1>0. PICK m \in Keys : m = turn
  BY DEF Inv, TypeOK
<1>1. turn \in Keys /\ TypeOK /\ result \in Request
  BY DEF Inv, TypeOK
<1>2. ASSUME ~Refused, GoOn("finalise", "done"), UNCHANGED <<memory, said, history>>,
             NEW v \in Lists, result' = [result EXCEPT ![m] = v],
             \/ v \in ValuesOf(Sets, m)
             \/ v = <<>> /\ Unset
             \/ v = result[m] /\ ~Unset
      PROVE  Inv'
  <2>1. result'[m] = v /\ result' \in Request
    BY <1>0, <1>1, <1>2 DEF Request
  <2>2. Kept(m)
    BY <1>0, <1>1 DEF Finalise, Inv, Loops, Finalising, Keys
  <2>3. Settled(m)'
    <3>1. Unset => ~strict
      BY <1>2 DEF Refused
    <3>2. \/ v \in ValuesOf(Sets, m)
          \/ ~strict /\ v = <<>>
          \/ said[m] = <<>> \/ v = said[m]
      BY <1>2, <2>2, <3>1 DEF Kept
    <3>3. ASSUME NEW k \in Keys, \/ result'[k] \in ValuesOf(Sets, k)
                                 \/ ~strict /\ result'[k] = <<>>
                                 \/ said[k] = <<>> \/ result'[k] = said[k]
          PROVE  Settled(k)'
      BY <1>2, <3>3 DEF Settled, Finalise, config
    <3> QED
      BY <2>1, <3>2, <3>3
  <2>4. ASSUME NEW u \in Unsets, u.key = m PROVE UnsetDone(u)'
    <3>1. CASE v = result[m] /\ ~Unset
      <4>1. result' = result
        BY <1>1, <1>2, <3>1 DEF Request
      <4>2. result[m] # <<>> => ~Matches(u.context, result)
        BY <1>0, <2>4, <3>1 DEF Unset, Matching
      <4>3. Matches(u.context, result)' <=> Matches(u.context, result)
        BY <4>1 DEF Finalise, Matches, RuleMatches, config
      <4> QED
        BY <2>4, <4>1, <4>2, <4>3 DEF UnsetDone
    <3>2. CASE v = <<>> \/ v \in ValuesOf(Sets, m)
      BY <2>1, <2>4, <3>2 DEF UnsetDone
    <3> QED
      BY <1>2, <3>1, <3>2
  <2>5. TypeOK'
    BY <1>1, <1>2, <2>1, GoesOn, TypeKept DEF Finalise, TypeOK, history
  <2>6. LastWins'
    BY <1>2 DEF Inv, LastWins, history
  <2>7. Loops'
    BY <1>0, <1>2, <2>3, <2>4, FinaliseLoop DEF Finalise
  <2> QED
    BY <2>5, <2>6, <2>7 DEF Inv
<1>3. result[m] \in Lists /\ result = [result EXCEPT ![m] = result[m]]
  BY <1>1 DEF Request
<1>4. \A s \in SetsOf(Left) : s.vals \in Lists /\ s.vals \in ValuesOf(Sets, m)
      /\ [Left EXCEPT ![m] = s.vals] = [result EXCEPT ![m] = s.vals]
  BY <1>0, <1>1, RulesAssumption DEF SetsOf, Matching, ValuesOf, Left, Request
<1>5. ASSUME ~Refused, GoOn("finalise", "done"), UNCHANGED <<memory, said, history>>,
             SetsOf(Left) = {}, result' = Left
      PROVE  Inv'
  <2>1. CASE Unset
    <3>1. result' = [result EXCEPT ![m] = <<>>]
      BY <1>0, <1>5, <2>1 DEF Left
    <3> QED
      BY <1>2, <1>5, <2>1, <3>1, RulesAssumption
  <2>2. CASE ~Unset
    BY <1>2, <1>3, <1>5, <2>2 DEF Left
  <2> QED
    BY <2>1, <2>2
<1>6. ASSUME ~Refused, GoOn("finalise", "done"), UNCHANGED <<memory, said, history>>,
             NEW s \in SetsOf(Left), result' = [result EXCEPT ![m] = s.vals]
      PROVE  Inv'
  BY <1>2, <1>4, <1>6
<1> QED
  BY <1>0, <1>5, <1>6, RefuseKeeps DEF Finalise

------------------------------------------------------------------------------
LEMMA InvAlways == Spec => []Inv
<1>1. Inv /\ [Next]_vars => Inv'
  <2>1. Inv /\ UNCHANGED vars => Inv'
    <3> SUFFICES ASSUME Inv, UNCHANGED vars PROVE Inv'
      OBVIOUS
    <3>1. TypeOK' /\ LastWins' /\ Counted'
      BY DEF vars, config, history, Inv, Loops, TypeOK, LastWins, Counted
    <3>2. \A k \in Keys : /\ (Heard(k)' <=> Heard(k)) /\ (AsRead(k)' <=> AsRead(k))
                          /\ (AsMeant(k)' <=> AsMeant(k)) /\ (Kept(k)' <=> Kept(k))
      BY SaidKept DEF vars
    <3>3. ReadSoFar' /\ Completing' /\ Resolving'
      BY <3>2 DEF vars, Inv, Loops, ReadSoFar, Completing, Resolving, Filled
    <3>4. Finalising' /\ Finished'
      BY <3>2 DEF vars, config, Inv, Loops, Finalising, Finished, Settled, UnsetDone, Matches, RuleMatches
    <3> QED
      BY <3>1, <3>3, <3>4 DEF Inv, Loops
  <2> QED
    BY <2>1, StartKeeps, ExpandAgainKeeps, ResetKeeps, ReadNothingKeeps, ReadOffKeepsInv, ReadKeeps,
       CompleteKeeps, RememberKeepsInv, PassByKeeps, ResolveKeeps, FinaliseOffKeeps, FinaliseKeeps
       DEF Next, Step
<1> QED
  BY <1>1, InvInit, PTL DEF Spec

(***************************************************************************)
(* Requests, expansions and memories give each key one of the lists that   *)
(* the types know: nothing a type refuses is ever stored.                  *)
(***************************************************************************)
THEOREM TypeCorrect == Spec => []TypeOK
BY InvAlways, PTL DEF Inv

(***************************************************************************)
(* Inheritance is what the last request read to its end gave for the key   *)
(* since it was last off, as it was read, or a default.                    *)
(***************************************************************************)
THEOREM InheritanceIsLastGiven == Spec => []LastWins
BY InvAlways, PTL DEF Inv

(***************************************************************************)
(* What a request gives is in its expansion, as the types read and resolve *)
(* it, unless a rule sets the key or drops it; in strict mode no rule      *)
(* drops it.                                                               *)
(***************************************************************************)
THEOREM GivenIsKept == Spec => []GivenWins
<1>1. Inv => GivenWins
  BY DEF Inv, Loops, Finished, Heard, AsMeant, Settled, GivenWins
<1> QED
  BY <1>1, InvAlways, PTL

(***************************************************************************)
(* For rules that look back, as parseModifier asserts, no finished request *)
(* has a key that one of its unset contexts forbids.                       *)
(***************************************************************************)
THEOREM UnsetsHold == Spec => []UnsetRespected
<1>1. Inv => UnsetRespected
  BY DEF Inv, Loops, Finished, UnsetDone, UnsetRespected
<1> QED
  BY <1>1, InvAlways, PTL
----------------------------------------------------------------------------
(* Proofs about AxisMatch, for any axis, any wind families and any tables: *)
(* nothing is asked for that is not there, and what is found for a         *)
(* parameter is that parameter, or the same one of another table.          *)

Params   == [table : Nat, value : Nat]
Winds    == [u : Params, v : Params, vo : Params, d : Params]

(* A parameter without its table *)
Bare(n) == n % 1000

(* A match: nothing, or one parameter of the axis, or one that is computed from
   fields of the axis. *)
IsMatch(m, axis) ==
    \/ m = NoMatch
    \/ \E p \in Params : m.found = <<p>> /\ (IF m.from = {} THEN p \in InAxis(axis) ELSE m.from \subseteq InAxis(axis))

(* What may be said of the parameter that was found for an identifier *)
Same(m, id)  == \A i \in DOMAIN m.found : ParamId(m.found[i]) = id
Alike(m, id) == \A i \in DOMAIN m.found : Bare(ParamId(m.found[i])) = Bare(id)

LEMMA Thousands == ASSUME NEW a \in Nat, NEW b \in Nat PROVE (a * 1000 + b) % 1000 = b % 1000
OBVIOUS

LEMMA OfATable ==
    ASSUME NEW t \in Nat, NEW id \in Nat
    PROVE  ReplaceTable(t, id) \in Nat /\ Bare(ReplaceTable(t, id)) = Bare(id)
<1>1. (id % 1000) \in 0 .. 999 /\ (id % 1000) % 1000 = id % 1000
  OBVIOUS
<1> QED
  BY <1>1, Thousands DEF ReplaceTable, Bare

(* The table of a parameter is a thousand of its identifier. *)
LEMMA IdKeepsNumber ==
    ASSUME NEW p \in Params
    PROVE  ParamId(p) \in Nat /\ Bare(ParamId(p)) = Bare(p.value)
<1>1. p.value \in Nat /\ p.table \in Nat /\ (p.value % 1000) \in Nat /\ (p.value % 1000) % 1000 = p.value % 1000
  BY DEF Params
<1>2. PICK t \in Nat : ParamId(p) = t * 1000 + (p.value % 1000)
  <2>1. (p.value \div 1000) \in Nat
    BY <1>1
  <2> QED
    BY <1>1, <2>1 DEF ParamId
<1> QED
  BY <1>1, <1>2, Thousands DEF Bare

LEMMA ParamOf ==
    ASSUME NEW t \in Nat, NEW n \in Nat
    PROVE  Param(t, n) \in Params /\ Bare(ParamId(Param(t, n))) = Bare(n)
<1>1. Param(t, n) \in Params /\ Param(t, n).value = n
  BY DEF Param, Params
<1> QED
  BY <1>1, IdKeepsNumber

LEMMA InTheAxis == ASSUME NEW axis \in Seq(Params), NEW p \in InAxis(axis) PROVE p \in Params
BY DEF InAxis

LEMMA WithIdIsThere ==
    ASSUME NEW axis \in Seq(Params), NEW id \in Nat, HasId(axis, id)
    PROVE  WithId(axis, id) \in InAxis(axis) /\ ParamId(WithId(axis, id)) = id
<1>1. PICK i \in DOMAIN axis : IsLast(axis, id, i) /\ WithId(axis, id) = axis[i]
  BY DEF HasId, WithId
<1> QED
  BY <1>1 DEF IsLast, InAxis

LEMMA FirstIsThere == ASSUME NEW places, Any(places) PROVE First(places) \in places
<1>1. \E i \in places : IsLeast(places, i)
  BY DEF Any
<1> QED
  BY <1>1 DEF First

LEMMA JustIsMatch ==
    ASSUME NEW axis \in Seq(Params), NEW p \in InAxis(axis), NEW id \in Nat, Bare(ParamId(p)) = Bare(id)
    PROVE  IsMatch(Just(p), axis) /\ Alike(Just(p), id) /\ (ParamId(p) = id => Same(Just(p), id))
BY InTheAxis DEF IsMatch, Just, Alike, Same

LEMMA ComputedIsMatch ==
    ASSUME NEW axis \in Seq(Params), NEW p \in Params, NEW vo \in InAxis(axis), NEW d \in InAxis(axis),
           NEW id \in Nat, Bare(ParamId(p)) = Bare(id)
    PROVE  /\ IsMatch(Computed(p, vo, d), axis) /\ Alike(Computed(p, vo, d), id)
           /\ ParamId(p) = id => Same(Computed(p, vo, d), id)
BY DEF IsMatch, Computed, Alike, Same

LEMMA NothingIsMatch ==
    ASSUME NEW axis, NEW id PROVE IsMatch(NoMatch, axis) /\ Alike(NoMatch, id) /\ Same(NoMatch, id)
BY DEF IsMatch, Alike, Same, NoMatch
------------------------------------------------------------------------------
LEMMA ExactWindMatches ==
    ASSUME NEW families \in Seq(Winds), NEW axis \in Seq(Params), NEW id \in Nat, NEW isStrict \in BOOLEAN
    PROVE  LET m == ExactWind(families, axis, id, isStrict)
           IN  IsMatch(m, axis) /\ Alike(m, id) /\ (isStrict => Same(m, id))
<1> DEFINE places == ExactFamilies(families, axis, id, isStrict)
           f      == families[First(places)]
           p      == IF IsU(f, id, isStrict) THEN f.u ELSE f.v
<1>1. CASE ~Any(places)
  BY <1>1, NothingIsMatch DEF ExactWind
<1>2. CASE Any(places)
  <2>1. First(places) \in places
    BY <1>2, FirstIsThere
  <2>2. First(places) \in DOMAIN families
        /\ (IsU(f, id, isStrict) \/ IsV(f, id, isStrict)) /\ {f.vo, f.d} \subseteq InAxis(axis)
    BY <2>1 DEF ExactFamilies
  <2>3. f \in Winds
    BY <2>2
  <2>4. p \in Params
    BY <2>3 DEF Winds
  <2>5. id = ParamId(p) \/ (~isStrict /\ id = Grib1Value(p))
    BY <2>2 DEF IsU, IsV
  <2>6. Bare(ParamId(p)) = Bare(id)
    <3>1. CASE id = ParamId(p)
      BY <3>1
    <3>2. CASE id = Grib1Value(p)
      <4>1. p.value \in Nat
        BY <2>4 DEF Params
      <4>2. (p.value % 1000) % 1000 = p.value % 1000
        BY <4>1
      <4>3. Bare(id) = Bare(p.value)
        BY <3>2, <4>2 DEF Bare, Grib1Value
      <4> QED
        BY <2>4, <4>3, IdKeepsNumber
    <3> QED
      BY <2>5, <3>1, <3>2
  <2>7. ExactWind(families, axis, id, isStrict) = Computed(p, f.vo, f.d)
    BY <1>2 DEF ExactWind
  <2>8. f.vo \in InAxis(axis) /\ f.d \in InAxis(axis)
    BY <2>2
  <2> HIDE DEF places, f, p
  <2> QED
    BY <2>4, <2>5, <2>6, <2>7, <2>8, ComputedIsMatch
<1> QED
  BY <1>1, <1>2

LEMMA PartialWindMatches ==
    ASSUME NEW families \in Seq(Winds), NEW dropTables \in Seq(Nat), NEW axis \in Seq(Params), NEW id \in Nat
    PROVE  /\ IsMatch(PartialWind(families, dropTables, axis, id), axis)
           /\ Alike(PartialWind(families, dropTables, axis, id), id)
<1> DEFINE places == PartialFamilies(families, dropTables, axis, id)
           f      == families[First(places)]
           tables == TablesWith(f, dropTables, axis)
           table  == dropTables[First(tables)]
           vo     == WithId(axis, ReplaceTable(table, ParamId(f.vo)))
           d      == WithId(axis, ReplaceTable(table, ParamId(f.d)))
           p      == IF vo.table > 0 THEN Param(table, id) ELSE Param(0, ReplaceTable(table, id))
<1>1. CASE ~Any(places)
  BY <1>1, NothingIsMatch DEF PartialWind
<1>2. CASE Any(places)
  <2>1. First(places) \in DOMAIN families /\ Any(tables)
    BY <1>2, FirstIsThere DEF PartialFamilies
  <2>2. f \in Winds
    BY <2>1
  <2>3. First(tables) \in DOMAIN dropTables
        /\ HasId(axis, ReplaceTable(table, ParamId(f.vo))) /\ HasId(axis, ReplaceTable(table, ParamId(f.d)))
    BY <2>1, FirstIsThere DEF TablesWith
  <2>4. table \in Nat
    BY <2>3
  <2>5. ReplaceTable(table, ParamId(f.vo)) \in Nat /\ ReplaceTable(table, ParamId(f.d)) \in Nat
    <3>1. f.vo \in Params /\ f.d \in Params
      BY <2>2 DEF Winds
    <3>2. ParamId(f.vo) \in Nat /\ ParamId(f.d) \in Nat
      BY <3>1, IdKeepsNumber
    <3> HIDE DEF table, f
    <3> QED
      BY <2>4, <3>2, OfATable
  <2>6. vo \in InAxis(axis) /\ d \in InAxis(axis)
    BY <2>3, <2>5, WithIdIsThere
  <2>7. p \in Params /\ Bare(ParamId(p)) = Bare(id)
    <3> HIDE DEF table, vo
    <3>1. Param(table, id) \in Params /\ Bare(ParamId(Param(table, id))) = Bare(id)
      BY <2>4, ParamOf
    <3>2. ReplaceTable(table, id) \in Nat /\ Bare(ReplaceTable(table, id)) = Bare(id)
      BY <2>4, OfATable
    <3>3. /\ Param(0, ReplaceTable(table, id)) \in Params
          /\ Bare(ParamId(Param(0, ReplaceTable(table, id)))) = Bare(id)
      BY <3>2, ParamOf
    <3> QED
      BY <3>1, <3>3
  <2>8. PartialWind(families, dropTables, axis, id) = Computed(p, vo, d)
    BY <1>2 DEF PartialWind
  <2> HIDE DEF places, f, tables, table, vo, d, p
  <2> QED
    BY <2>6, <2>7, <2>8, ComputedIsMatch
<1> QED
  BY <1>1, <1>2

LEMMA InTableMatches ==
    ASSUME NEW dropTables \in Seq(Nat), NEW axis \in Seq(Params), NEW id \in Nat
    PROVE  IsMatch(InTable(dropTables, axis, id), axis) /\ Alike(InTable(dropTables, axis, id), id)
<1> DEFINE places == {i \in DOMAIN dropTables : HasId(axis, ReplaceTable(dropTables[i], id))}
           table  == dropTables[First(places)]
<1>1. CASE ~Any(places)
  BY <1>1, NothingIsMatch DEF InTable
<1>2. CASE Any(places)
  <2>1. First(places) \in DOMAIN dropTables /\ HasId(axis, ReplaceTable(table, id))
    BY <1>2, FirstIsThere
  <2>2. table \in Nat
    BY <2>1
  <2>3. InTable(dropTables, axis, id) = Just(WithId(axis, ReplaceTable(table, id)))
    BY <1>2 DEF InTable
  <2> HIDE DEF places, table
  <2>4. ReplaceTable(table, id) \in Nat /\ Bare(ReplaceTable(table, id)) = Bare(id)
    BY <2>2, OfATable
  <2>5. /\ WithId(axis, ReplaceTable(table, id)) \in InAxis(axis)
        /\ ParamId(WithId(axis, ReplaceTable(table, id))) = ReplaceTable(table, id)
    BY <2>1, <2>4, WithIdIsThere
  <2> QED
    BY <2>3, <2>4, <2>5, JustIsMatch
<1> QED
  BY <1>1, <1>2

LEMMA InAnyTableMatches ==
    ASSUME NEW axis \in Seq(Params), NEW id \in Nat
    PROVE  IsMatch(InAnyTable(axis, id), axis) /\ Alike(InAnyTable(axis, id), id)
<1> DEFINE ids == {n \in {ParamId(p) : p \in InAxis(axis)} : n % 1000 = id % 1000 /\ HasId(axis, n)}
           n   == First(ids)
<1>1. CASE ~Any(ids)
  BY <1>1, NothingIsMatch DEF InAnyTable
<1>2. CASE Any(ids)
  <2> HIDE DEF n
  <2>1. Bare(n) = Bare(id) /\ HasId(axis, n) /\ n \in {ParamId(p) : p \in InAxis(axis)}
    <3>1. n \in ids
      BY <1>2, FirstIsThere, Zenon DEF n
    <3>2. QED
      BY <3>1, Zenon DEF Bare
  <2>2. n \in Nat
    BY <2>1, InTheAxis, IdKeepsNumber
  <2>3. InAnyTable(axis, id) = Just(WithId(axis, n))
    BY <1>2 DEF InAnyTable, n
  <2>4. WithId(axis, n) \in InAxis(axis) /\ ParamId(WithId(axis, n)) = n
    BY <2>1, <2>2, WithIdIsThere
  <2> HIDE DEF ids, n
  <2> QED
    BY <2>1, <2>3, <2>4, JustIsMatch
<1> QED
  BY <1>1, <1>2

LEMMA OrMatches ==
    ASSUME NEW axis, NEW id, NEW a, NEW b,
           IsMatch(a, axis) /\ Alike(a, id), IsMatch(b, axis) /\ Alike(b, id)
    PROVE  IsMatch(Or(a, b), axis) /\ Alike(Or(a, b), id)
BY DEF Or

(* What Match gives, in each mode *)
LEMMA Matched ==
    ASSUME NEW families \in Seq(Winds), NEW dropTables \in Seq(Nat), NEW axis \in Seq(Params),
           NEW r \in Params, NEW mode
    PROVE  LET m == Match(families, dropTables, axis, r, mode)
           IN  IsMatch(m, axis) /\ Alike(m, ParamId(r)) /\ (mode = "strict" => Same(m, ParamId(r)))
<1> DEFINE id      == ParamId(r)
           exact   == ExactWind(families, axis, id, mode = "strict")
           partial == Partial(families, dropTables, axis, id, mode)
           rest    == IF mode # "strict" /\ r.table = 0 /\ id < 1000 THEN partial ELSE NoMatch
           m       == Match(families, dropTables, axis, r, mode)
<1>1. id \in Nat
  BY IdKeepsNumber
<1>2. CASE r \in InAxis(axis)
  <2>1. m = Just(r)
    BY <1>2 DEF Match
  <2> QED
    BY <1>1, <1>2, <2>1, JustIsMatch
<1>3. CASE r \notin InAxis(axis) /\ HasId(axis, id)
  <2>1. m = Just(WithId(axis, id))
    BY <1>3 DEF Match
  <2>2. WithId(axis, id) \in InAxis(axis) /\ ParamId(WithId(axis, id)) = id
    BY <1>1, <1>3, WithIdIsThere
  <2> QED
    BY <1>1, <2>1, <2>2, JustIsMatch
<1>4. CASE r \notin InAxis(axis) /\ ~HasId(axis, id)
  <2>1. m = Or(exact, rest)
    BY <1>4 DEF Match
  <2>2. IsMatch(exact, axis) /\ Alike(exact, id) /\ (mode = "strict" => Same(exact, id))
    BY <1>1, ExactWindMatches
  <2>3. IsMatch(partial, axis) /\ Alike(partial, id)
    <3>1. IsMatch(InTable(dropTables, axis, id), axis) /\ Alike(InTable(dropTables, axis, id), id)
      BY <1>1, InTableMatches
    <3>2. /\ IsMatch(PartialWind(families, dropTables, axis, id), axis)
          /\ Alike(PartialWind(families, dropTables, axis, id), id)
      BY <1>1, PartialWindMatches
    <3> QED
      BY <1>1, <3>1, <3>2, OrMatches, InAnyTableMatches, NothingIsMatch DEF Partial
  <2>4. IsMatch(rest, axis) /\ Alike(rest, id) /\ (mode = "strict" => rest = NoMatch)
    BY <2>3, NothingIsMatch
  <2>5. IsMatch(m, axis) /\ Alike(m, id)
    <3> HIDE DEF id, exact, rest, m
    <3> QED
      BY <2>1, <2>2, <2>4, OrMatches
  <2>6. mode = "strict" => Same(m, id)
    BY <2>1, <2>2, <2>4, NothingIsMatch DEF Or
  <2> QED
    BY <2>5, <2>6
<1> QED
  BY <1>2, <1>3, <1>4

------------------------------------------------------------------------------
(***************************************************************************)
(* ParamID::normalise asks only for parameters that are in the axis, or    *)
(* for a wind whose vorticity and divergence are, and asks for those too.  *)
(***************************************************************************)
THEOREM OnlyWhatIsThere ==
    ASSUME NEW families \in Seq(Winds), NEW dropTables \in Seq(Nat), NEW axis \in Seq(Params),
           NEW req \in Seq(Params), NEW mode
    PROVE  LET matches == Normalise(families, dropTables, axis, req, mode)
           IN  \A p \in AskedFor(matches) :
                   p \in InAxis(axis) \/ \E i \in DOMAIN req :
                       /\ matches[i].found = <<p>> /\ matches[i].from # {}
                       /\ matches[i].from \subseteq InAxis(axis)
<1> DEFINE matches == Normalise(families, dropTables, axis, req, mode)
<1>1. \A i \in DOMAIN req : matches[i] = Match(families, dropTables, axis, req[i], mode) /\ IsMatch(matches[i], axis)
  BY Matched DEF Normalise
<1>2. DOMAIN matches = DOMAIN req
  BY DEF Normalise
<1> SUFFICES ASSUME NEW p \in AskedFor(matches)
             PROVE  p \in InAxis(axis) \/ \E i \in DOMAIN req :
                       /\ matches[i].found = <<p>> /\ matches[i].from # {}
                       /\ matches[i].from \subseteq InAxis(axis)
  OBVIOUS
<1>3. PICK i \in DOMAIN req : p \in InAxis(matches[i].found) \/ p \in matches[i].from
  BY <1>2 DEF AskedFor
<1> HIDE DEF matches
<1>4. CASE matches[i] = NoMatch
  BY <1>3, <1>4 DEF NoMatch, InAxis
<1>5. CASE \E q \in Params : matches[i].found = <<q>>
              /\ (IF matches[i].from = {} THEN q \in InAxis(axis) ELSE matches[i].from \subseteq InAxis(axis))
  <2>1. PICK q \in Params : matches[i].found = <<q>>
              /\ (IF matches[i].from = {} THEN q \in InAxis(axis) ELSE matches[i].from \subseteq InAxis(axis))
    BY <1>5
  <2>2. InAxis(<<q>>) = {q}
    BY DEF InAxis
  <2> QED
    BY <1>3, <2>1, <2>2
<1> QED
  BY <1>1, <1>4, <1>5 DEF IsMatch

(***************************************************************************)
(* What a parameter is matched with has its number, whatever the table;    *)
(* in a strict match (NormalisationMode::Strict) it has its identifier.    *)
(***************************************************************************)
THEOREM FoundIsMeant ==
    ASSUME NEW families \in Seq(Winds), NEW dropTables \in Seq(Nat), NEW axis \in Seq(Params),
           NEW req \in Seq(Params), NEW mode, NEW i \in DOMAIN req
    PROVE  LET m == Normalise(families, dropTables, axis, req, mode)[i]
           IN  \A j \in DOMAIN m.found :
                   /\ ParamId(m.found[j]) % 1000 = ParamId(req[i]) % 1000
                   /\ mode = "strict" => ParamId(m.found[j]) = ParamId(req[i])
BY Matched DEF Normalise, Alike, Same, Bare
=============================================================================
