---------------------------- MODULE MarsExpansion ----------------------------
(***************************************************************************)
(* metkit::mars::MarsExpansion with one MarsLanguage: requests are         *)
(* expanded one after another; each learns from those before it what it    *)
(* does not say itself (Type::inheritance_).  One expansion goes four      *)
(* times over the keys: it reads what the request gives, completes what is *)
(* missing, resolves what only the whole request can tell (pass2), and     *)
(* finalises by the rules of language.yaml and modifiers.yaml.             *)
(*                                                                         *)
(* A key is its place in typesByAxisOrder_; a request is the list of the   *)
(* values of each key, empty for a key it does not have.  What a type      *)
(* makes of a list is a constant here: module ValueTypes defines it.       *)
(* Only data keys and sinks: the post-processing keys that copy another    *)
(* one (`_resol') are left out.                                            *)
(***************************************************************************)
EXTENDS Integers, FiniteSets, Sequences

CONSTANTS N,           \* number of keys
          Lists,       \* lists of values
          off, all,    \* the values that are not for the types
          Multiple,    \* the keys whose type takes a list
          Readings,    \* what Type::expand makes of a list, see Sense
          Resolvers,   \* what pass2 makes of it; no sense for types without pass2
          Verbs,
          Defaults,    \* rules: [key, context, vals]
          Sets,        \* rules: [key, context, vals]
          Unsets,      \* rules: [key, context]
          Requests,    \* the requests that are expanded
          MaxRequests  \* bound: how many, one after another

Keys  == 1 .. N
In(list) == {list[i] : i \in DOMAIN list}

(* "list" is the verb that sets nothing; "first" is how the rules of param match. *)
Rules    == [key : Keys, kind : {"include", "exclude", "undefined", "defined", "first"}, vals : SUBSET UNION {In(l) : l \in Lists}]
Contexts == [verbs : SUBSET Verbs, rules : SUBSET Rules]

(* What the type of a key makes of a list, <<>> if it throws.  It may depend on
   the request: the first sense whose context matches is the one. *)
Meanings == {of \in [Lists -> Lists] : \A list \in Lists \ {<<off>>} : of[list] # <<off>>}
Senses   == Seq([context : Contexts, of : Meanings])

LooksBack(k, context) == \A rule \in context.rules : rule.key <= k

(* The last conjunct is the ASSERT of MarsLanguage::parseModifier. *)
ASSUME RulesAssumption ==
    /\ N \in Nat \ {0} /\ {<<>>, <<off>>, <<all>>} \subseteq Lists /\ off # all
    /\ Multiple \subseteq Keys
    /\ Readings \in [Keys -> Senses] /\ Resolvers \in [Keys -> Senses]
    /\ Requests \subseteq [Keys -> Lists]
    /\ Defaults \cup Sets \subseteq [key : Keys, context : Contexts, vals : Lists \ {<<>>}]
    /\ Unsets \subseteq [key : Keys, context : Contexts]
    /\ \A rule \in Defaults \cup Sets \cup Unsets : LooksBack(rule.key, rule.context)

VARIABLES verb, inherit, strict,   \* how the expansion was made
          phase,    \* the loop it is in, or the outcome
          turn,        \* the key whose turn it is
          given,    \* the request
          result,   \* its expansion
          memory,   \* inheritance_ of each type, empty if there is none
          said,     \* history: what the types made of what the request gives
          taught,   \* history: what the last request read to its end that had the key
                    \* gave for it, empty once a request switches the key off
          first,    \* history: the expansion that is now expanded again, if any
          requests  \* requests begun
config  == <<verb, inherit, strict>>
history == <<taught, first>>
vars    == <<config, phase, turn, given, result, memory, said, history, requests>>

Request == [Keys -> Lists]
Nothing == [k \in Keys |-> <<>>]

TypeOK ==
    /\ verb \in Verbs /\ inherit \in BOOLEAN /\ strict \in BOOLEAN
    /\ phase \in {"idle", "read", "complete", "remember", "resolve", "finalise", "done", "refused"}
    /\ turn \in Keys
    /\ given \in Request /\ result \in Request /\ memory \in Request
    /\ said \in Request /\ taught \in Request /\ first \in Request \cup {<<>>}
    /\ requests \in Nat

Init ==
    /\ verb \in Verbs /\ inherit \in BOOLEAN /\ strict \in BOOLEAN
    /\ phase = "idle" /\ turn = 1 /\ requests = 0 /\ first = <<>>
    /\ given = Nothing /\ result = Nothing /\ memory = Nothing /\ said = Nothing /\ taught = Nothing

Begin(request) ==
    /\ phase' = "read" /\ turn' = 1
    /\ given' = request /\ result' = Nothing /\ said' = Nothing

Start(request) ==
    /\ phase \in {"idle", "done", "refused"} /\ requests < MaxRequests /\ first = <<>>
    /\ requests' = requests + 1
    /\ Begin(request)
    /\ UNCHANGED <<config, memory, history>>

(* Whoever is sent an expansion may expand it again, with a language of its own. *)
ExpandAgain ==
    /\ phase = "done" /\ first = <<>>
    /\ first' = result /\ memory' = Nothing /\ taught' = Nothing
    /\ Begin(result)
    /\ UNCHANGED <<config, requests>>

(* MarsExpansion::reset *)
Reset ==
    /\ phase \in {"idle", "done", "refused"} /\ first = <<>>
    /\ memory' = Nothing /\ taught' = Nothing
    /\ UNCHANGED <<config, phase, turn, given, result, said, first, requests>>

Refuse == phase' = "refused" /\ UNCHANGED <<turn, result, memory, said, history>>

------------------------------------------------------------------------------
(* Contexts *)

RuleMatches(rule, request) ==
    LET values == In(request[rule.key]) IN
    \/ rule.kind = "include" /\ values \cap rule.vals # {}
    \/ rule.kind = "exclude" /\ values # {} /\ values \cap rule.vals = {}
    \/ rule.kind = "undefined" /\ values = {}
    \/ rule.kind = "defined" /\ values # {}
    \/ rule.kind = "first" /\ values # {} /\ request[rule.key][1] \in rule.vals

Matches(context, request) ==
    verb \in context.verbs /\ \A rule \in context.rules : RuleMatches(rule, request)

Matching(rules, k, request) == {r \in rules : r.key = k /\ Matches(r.context, request)}

------------------------------------------------------------------------------
(* The parameters of the request, in the order of the axes *)

IsAll(k, list) == list = <<all>> /\ k \in Multiple

IsSense(senses, i, request) ==
    Matches(senses[i].context, request) /\ \A j \in 1 .. i - 1 : ~Matches(senses[j].context, request)

Sense(senses, list, request) ==
    IF \E i \in DOMAIN senses : IsSense(senses, i, request)
    THEN senses[CHOOSE i \in DOMAIN senses : IsSense(senses, i, request)].of[list]
    ELSE <<>>

(* What reading makes of the list of a key that is not off. *)
ReadValues(k, list) == IF IsAll(k, list) THEN list ELSE Sense(Readings[k], list, result)

GoOn(in, next) ==
    IF turn < N THEN turn' = turn + 1 /\ phase' = in ELSE turn' = 1 /\ phase' = next
AfterRead == IF inherit THEN "complete" ELSE "resolve"

ReadNothing ==
    /\ phase = "read" /\ given[turn] = <<>> /\ GoOn("read", AfterRead)
    /\ UNCHANGED <<config, given, result, memory, said, history, requests>>

(* mutant: the type keeps its inheritance *)
ReadOffKeeps ==
    /\ phase = "read" /\ given[turn] = <<off>> /\ GoOn("read", AfterRead)
    /\ taught' = [taught EXCEPT ![turn] = <<>>]
    /\ UNCHANGED <<config, given, result, memory, said, first, requests>>

ReadOff ==
    /\ phase = "read" /\ given[turn] = <<off>> /\ GoOn("read", AfterRead)
    /\ memory' = [memory EXCEPT ![turn] = <<>>] /\ taught' = [taught EXCEPT ![turn] = <<>>]
    /\ UNCHANGED <<config, given, result, said, first, requests>>

Asked(k) == given[k] \notin {<<>>, <<off>>}

Read ==
    /\ phase = "read" /\ Asked(turn)
    /\ LET list == ReadValues(turn, given[turn]) IN
       \/ /\ list # <<>> /\ GoOn("read", AfterRead)
          /\ result' = [result EXCEPT ![turn] = list] /\ said' = [said EXCEPT ![turn] = list]
          /\ UNCHANGED <<memory, history>>
       \/ list = <<>> /\ Refuse
    /\ UNCHANGED <<config, given, requests>>

------------------------------------------------------------------------------
(* Type::setDefaults.  defaults_ is a map keyed by pointer: when several      *)
(* contexts match, whichever lies lowest in memory wins.                      *)

Complete ==
    /\ phase = "complete" /\ GoOn("complete", "remember")
    /\ \/ result[turn] # <<>> /\ UNCHANGED result
       \/ result[turn] = <<>> /\ memory[turn] # <<>> /\ result' = [result EXCEPT ![turn] = memory[turn]]
       \/ /\ result[turn] = <<>> /\ memory[turn] = <<>>
          /\ \/ Matching(Unsets, turn, result) # {} /\ UNCHANGED result
             \/ /\ Matching(Unsets, turn, result) = {}
                /\ \/ Matching(Defaults, turn, result) = {} /\ UNCHANGED result
                   \/ \E d \in Matching(Defaults, turn, result) :
                          result' = [result EXCEPT ![turn] = d.vals]
    /\ UNCHANGED <<config, given, memory, said, history, requests>>

(* setInheritance of every key the request has by now *)
Remember ==
    /\ phase = "remember" /\ phase' = "resolve"
    /\ memory' = [k \in Keys |-> IF result[k] # <<>> THEN result[k] ELSE memory[k]]
    /\ taught' = [k \in Keys |-> IF said[k] # <<>> THEN said[k] ELSE taught[k]]
    /\ UNCHANGED <<config, turn, given, result, said, first, requests>>

------------------------------------------------------------------------------
(* pass2 of the keys the request has.  The code takes them in the order of    *)
(* the request; only param looks at other keys, and at none that pass2 changes. *)

PassBy ==
    /\ phase = "resolve" /\ (result[turn] = <<>> \/ Resolvers[turn] = <<>>) /\ GoOn("resolve", "finalise")
    /\ UNCHANGED <<config, given, result, memory, said, history, requests>>

(* mutant: pass2 only of what the request itself gives *)
ResolveGiven ==
    /\ phase = "resolve" /\ result[turn] # <<>> /\ Resolvers[turn] # <<>>
    /\ LET list == IF given[turn] = <<>> THEN result[turn] ELSE Sense(Resolvers[turn], result[turn], result) IN
       \/ /\ list # <<>> /\ GoOn("resolve", "finalise")
          /\ result' = [result EXCEPT ![turn] = list]
          /\ said' = [said EXCEPT ![turn] = IF said[turn] = <<>> THEN <<>> ELSE list]
          /\ UNCHANGED <<memory, history>>
       \/ list = <<>> /\ Refuse
    /\ UNCHANGED <<config, given, requests>>

Resolve ==
    /\ phase = "resolve" /\ result[turn] # <<>> /\ Resolvers[turn] # <<>>
    /\ LET list == Sense(Resolvers[turn], result[turn], result) IN
       \/ /\ list # <<>> /\ GoOn("resolve", "finalise")
          /\ result' = [result EXCEPT ![turn] = list]
          /\ said' = [said EXCEPT ![turn] = IF said[turn] = <<>> THEN <<>> ELSE list]
          /\ UNCHANGED <<memory, history>>
       \/ list = <<>> /\ Refuse
    /\ UNCHANGED <<config, given, requests>>

------------------------------------------------------------------------------
(* Type::finalise *)

FinaliseOff ==
    /\ phase = "finalise" /\ result[turn] = <<off>> /\ GoOn("finalise", "done")
    /\ result' = [result EXCEPT ![turn] = <<>>]
    /\ UNCHANGED <<config, given, memory, said, history, requests>>

(* mutant: only what the request itself gives is looked at *)
UnsetIfGiven == given[turn] # <<>> /\ result[turn] # <<>> /\ Matching(Unsets, turn, result) # {}

Unset == result[turn] # <<>> /\ Matching(Unsets, turn, result) # {}

(* The key once its unset contexts were looked at *)
Left == IF Unset THEN [result EXCEPT ![turn] = <<>>] ELSE result

(* "list" sets nothing.  sets_ is a map keyed by pointer, too: of several that
   match, the last one stays. *)
SetsOf(request) == IF verb = "list" THEN {} ELSE Matching(Sets, turn, request)

(* mutant: in strict mode, too, what does not fit is dropped *)
RefusedNever == strict /\ result[turn] = <<>> /\ SetsOf(result) # {}

Refused == strict /\ (Unset \/ (result[turn] = <<>> /\ SetsOf(result) # {}))

Finalise ==
    /\ phase = "finalise" /\ result[turn] # <<off>>
    /\ \/ Refused /\ Refuse
       \/ /\ ~Refused /\ GoOn("finalise", "done")
          /\ \/ SetsOf(Left) = {} /\ result' = Left
             \/ \E s \in SetsOf(Left) : result' = [result EXCEPT ![turn] = s.vals]
          /\ UNCHANGED <<memory, said, history>>
    /\ UNCHANGED <<config, given, requests>>

Step ==
    \/ ReadNothing \/ ReadOff \/ Read \/ Complete \/ Remember
    \/ PassBy \/ Resolve \/ FinaliseOff \/ Finalise
Next == Step \/ Reset \/ ExpandAgain \/ \E request \in Requests : Start(request)
Spec == Init /\ [][Next]_vars

------------------------------------------------------------------------------
ValuesOf(rules, k) == {r.vals : r \in {q \in rules : q.key = k}}

(* What a later request inherits is what the last request that was read to its
   end gave for the key, or else a default: nothing of a request refused while
   it was read, nothing from before the key was off, nothing `set' by the rules,
   and a parameter as it was named, not as that request's context resolved it.
   (MarsLanguage::expand, setInheritance and reset) *)
LastWins ==
    \A k \in Keys :
        IF taught[k] # <<>> THEN memory[k] = taught[k]
                            ELSE memory[k] \in {<<>>} \cup ValuesOf(Defaults, k)

(* What the types may make of the list a request gives *)
SensesOf(senses, lists) == {senses[i].of[list] : i \in DOMAIN senses, list \in lists}
ReadAs(k)  == {given[k]} \cup SensesOf(Readings[k], {given[k]})
Meant(k)   == ReadAs(k) \cup SensesOf(Resolvers[k], ReadAs(k))

(* The expansion says what the request said, as the types read and resolve it,
   unless a rule sets the key; without strict a rule may also drop it, with
   strict it never does so silently. *)
GivenWins ==
    phase = "done" =>
        \A k \in Keys : Asked(k) =>
            /\ said[k] \in Meant(k) \ {<<>>}
            /\ \/ result[k] \in {said[k]} \cup ValuesOf(Sets, k)
               \/ ~strict /\ result[k] = <<>>

(* No key is left whose unset context matches the finished request, though it
   may have been inherited from a request of another kind, and the keys the
   context looks at may have been set after it was completed. *)
UnsetRespected ==
    phase = "done" =>
        \A u \in Unsets :
            result[u.key] # <<>> /\ Matches(u.context, result) => result[u.key] \in ValuesOf(Sets, u.key)

(* An expansion can be expanded again, by a server after its client, and
   nothing changes: every value means itself, and no rule that applied to the
   request applies once more to its expansion.  It may only be refused, for a key
   whose values depend on the rest of the request: it inherits them, unread, from
   a request of another class. *)
ExpandedOnce ==
    first # <<>> =>
        /\ phase = "refused" => Len(Readings[turn]) > 1
        /\ phase = "done" => result = first
=============================================================================
