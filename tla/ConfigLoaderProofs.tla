-------------------------- MODULE ConfigLoaderProofs --------------------------
(***************************************************************************)
(* What game_config_load makes of a document, proved for any texts, any    *)
(* strtoul and documents of any length.                                    *)
(***************************************************************************)
EXTENDS ConfigLoader, TLAPS, FiniteSetTheorems, SequenceTheorems

-----------------------------------------------------------------------------
(* The inductive invariant.                                                *)

Kinds == {"key", "value", "item"}

ConfigTyped ==
  /\ DOMAIN config = DOMAIN Defaults
  /\ config = [field \in DOMAIN config |-> config[field]]
  /\ \A key \in NumberKeys : config[key] \in Nat
  /\ config.enablePostProcessing \in BOOLEAN
  /\ config.cellSize[2] > 0

LoopTyped ==
  /\ stack \in Seq(Kinds) /\ events \in 0 .. MaxEvents
  /\ currentKey = <<>> \/ \E text \in Texts : currentKey = <<text>>
  /\ inMapping \in BOOLEAN /\ flat \in BOOLEAN
  /\ result \in {Running, 0, -1}

(* While there are only scalars, what current_key and in_mapping say is where   *)
(* the parser is: the last entry is the one whose value is awaited.        *)
FlatShape ==
  flat =>
    /\ stack \in {<<>>, <<"key">>, <<"value">>, <<"item">>}
    /\ inMapping <=> stack \in {<<"key">>, <<"value">>}
    /\ entries \in Seq(Seq(Texts))
    /\ stack = <<"value">> =>
         /\ entries # <<>> /\ entries[Len(entries)] = currentKey
         /\ \E text \in Texts : currentKey = <<text>>
    /\ stack # <<"value">> => currentKey = <<>>

NumbersMeant ==
  flat => \A key \in NumberKeys :
            config[key] = IF Meant(key) = <<>> THEN Defaults[key]
                          ELSE Number(Meant(key)[2])

SwitchMeant ==
  flat => (config.enablePostProcessing <=>
             /\ Meant("enablePostProcessing") # <<>>
             /\ Meant("enablePostProcessing")[2] \in {"true", "True", "1"})

IInv == ConfigTyped /\ LoopTyped /\ FlatShape /\ NumbersMeant /\ SwitchMeant

-----------------------------------------------------------------------------
(* Lemmas about the operators.                                             *)

(* The stack stays a sequence of its three kinds. *)
LEMMA AdvancedType ==
  ASSUME NEW open \in Seq(Kinds)
  PROVE  Advanced(open) \in Seq(Kinds)
<1>1. CASE open = <<>>
  BY <1>1 DEF Advanced
<1>2. CASE open # <<>>
  <2> DEFINE kind == open[Len(open)]
             next == CASE kind = "key" -> "value" [] kind = "value" -> "key" [] OTHER -> kind
  <2>1. Len(open) \in 1 .. Len(open) /\ kind \in Kinds
    BY <1>2
  <2>2. next \in Kinds
    BY <2>1 DEF Kinds
  <2>3. Advanced(open) = [open EXCEPT ![Len(open)] = next]
    BY <1>2, <2>1 DEF Advanced
  <2> HIDE DEF next
  <2>4. QED BY <2>1, <2>2, <2>3
<1>3. QED BY <1>1, <1>2

Fields == NumberKeys \cup {"enablePostProcessing", "cellSize"}

(* The fields of the configuration. *)
LEMMA ConfigFields == DOMAIN Defaults = Fields
BY DEF Defaults, Fields, NumberKeys

(* A setting keeps the type of its field and touches no other. *)
LEMMA StoredFacts ==
  ASSUME ConfigTyped, NEW key \in Texts, NEW text \in Texts, NEW c,
         c = Stored(config, key, text)
  PROVE  /\ DOMAIN c = DOMAIN Defaults
         /\ c = [field \in DOMAIN c |-> c[field]]
         /\ c.cellSize = config.cellSize
         /\ c.enablePostProcessing \in BOOLEAN
         /\ \A k \in NumberKeys : c[k] = IF k = key THEN Number(text) ELSE config[k]
         /\ c.enablePostProcessing <=>
              IF key = "enablePostProcessing" THEN text \in {"true", "True", "1"}
              ELSE config.enablePostProcessing
<1>1. CASE key = "enablePostProcessing"
  <2> DEFINE v == text \in {"true", "True", "1"}
  <2>1. c = [config EXCEPT !["enablePostProcessing"] = v]
    BY <1>1 DEF Stored
  <2>2. v \in BOOLEAN
    OBVIOUS
  <2> HIDE DEF v
  <2>3. /\ DOMAIN c = DOMAIN Defaults /\ c = [field \in DOMAIN c |-> c[field]]
        /\ \A g \in Fields : c[g] = IF g = "enablePostProcessing" THEN v ELSE config[g]
    <3>1. "enablePostProcessing" \in Fields
      BY DEF Fields
    <3>2. QED BY <2>1, <3>1, ConfigFields DEF ConfigTyped
  <2>4. c.enablePostProcessing = v /\ c.cellSize = config.cellSize
    BY <2>3 DEF Fields
  <2>5. \A k \in NumberKeys : c[k] = config[k] /\ k # key
    BY <1>1, <2>3 DEF Fields, NumberKeys
  <2>6. QED BY <1>1, <2>2, <2>3, <2>4, <2>5 DEF v
<1>2. CASE key \in NumberKeys
  <2>1. c = [config EXCEPT ![key] = Number(text)]
    BY <1>2 DEF Stored, NumberKeys
  <2>2. /\ DOMAIN c = DOMAIN Defaults /\ c = [field \in DOMAIN c |-> c[field]]
        /\ \A g \in Fields : c[g] = IF g = key THEN Number(text) ELSE config[g]
    <3>1. key \in Fields
      BY <1>2 DEF Fields
    <3>2. QED BY <2>1, <3>1, ConfigFields DEF ConfigTyped
  <2>3. /\ c.enablePostProcessing = config.enablePostProcessing
        /\ c.cellSize = config.cellSize /\ key # "enablePostProcessing"
    BY <1>2, <2>2 DEF Fields, NumberKeys
  <2>4. QED BY <2>2, <2>3 DEF Fields, ConfigTyped
<1>3. CASE key # "enablePostProcessing" /\ key \notin NumberKeys
  BY <1>3 DEF Stored, ConfigTyped
<1>4. QED BY <1>1, <1>2, <1>3

(* A nonempty set of positions has a last one. *)
LEMMA LastPosition ==
  ASSUME NEW n \in Nat, NEW S, S \subseteq 1 .. n, S # {}
  PROVE  \E i \in S : \A j \in S : j <= i
<1> DEFINE above(i) == {j \in S : i < j}
           T == {above(i) : i \in S}
<1>1. IsFiniteSet(S)
  <2>1. IsFiniteSet(1 .. n)
    BY FS_Interval
  <2>2. QED BY <2>1, FS_Subset
<1>2. PICK t \in T : \A u \in T : ~(<<u, t>> \in StrictSubsetOrdering(S))
  <2>1. IsWellFoundedOn(StrictSubsetOrdering(S), SUBSET S)
    BY <1>1, FS_StrictSubsetOrderingWellFounded, FS_FiniteSubsetsOfFinite
  <2>2. T \subseteq SUBSET S /\ T # {}
    OBVIOUS
  <2> HIDE DEF T
  <2>3. QED BY <2>1, <2>2, WFMin
<1>3. PICK i \in S : t = above(i)
  OBVIOUS
<1>4. ASSUME NEW j \in S, i < j
      PROVE  FALSE
  <2>1. \A k \in S : k \in Nat
    OBVIOUS
  <2>2. \A k \in S : j < k => i < k
    BY <1>4, <2>1
  <2>3. above(j) \subseteq above(i) /\ j \in above(i) /\ j \notin above(j)
    <3>1. above(j) \subseteq above(i)
      BY <2>2
    <3>2. j \in above(i)
      BY <1>4
    <3>3. j \notin above(j)
      BY <2>1
    <3>4. QED BY <3>1, <3>2, <3>3
  <2>4. <<above(j), above(i)>> \in StrictSubsetOrdering(S)
    BY <2>3 DEF StrictSubsetOrdering
  <2>5. QED BY <1>2, <1>3, <2>4
<1>5. \A j \in S : j <= i
  BY <1>4
<1>6. QED BY <1>5

(* Meant, of any entries: Meant(key) is LastSaid(entries, key). *)
Said(es, key) == {i \in DOMAIN es : Len(es[i]) = 2 /\ es[i][1] = key}

LastSaid(es, key) ==
  IF Said(es, key) = {} THEN <<>>
  ELSE es[CHOOSE i \in Said(es, key) : \A j \in Said(es, key) : j <= i]

(* What is meant is the last of what was said. *)
LEMMA LastSaidFacts ==
  ASSUME NEW es \in Seq(Seq(Texts)), NEW key
  PROVE  /\ Said(es, key) = {} => LastSaid(es, key) = <<>>
         /\ Said(es, key) # {} =>
              \E i \in Said(es, key) : \A j \in Said(es, key) : j <= i
         /\ \A i \in Said(es, key) :
              (\A j \in Said(es, key) : j <= i) => LastSaid(es, key) = es[i]
<1>1. Said(es, key) \subseteq 1 .. Len(es) /\ Len(es) \in Nat
  BY DEF Said
<1>2. Said(es, key) # {} => \E i \in Said(es, key) : \A j \in Said(es, key) : j <= i
  BY <1>1, LastPosition
<1>3. ASSUME NEW i \in Said(es, key), \A j \in Said(es, key) : j <= i
      PROVE  LastSaid(es, key) = es[i]
  <2> DEFINE c == CHOOSE k \in Said(es, key) : \A j \in Said(es, key) : j <= k
  <2>1. c \in Said(es, key) /\ \A j \in Said(es, key) : j <= c
    BY <1>3
  <2>2. LastSaid(es, key) = es[c]
    BY <1>3 DEF LastSaid
  <2> HIDE DEF c
  <2>3. c = i
    BY <1>1, <1>3, <2>1
  <2>4. QED BY <2>2, <2>3
<1>4. QED BY <1>2, <1>3 DEF LastSaid

(* A key without its value changes nothing that is meant. *)
LEMMA KeyNoted ==
  ASSUME NEW es \in Seq(Seq(Texts)), NEW text \in Texts,
         NEW new, new = Append(es, <<text>>)
  PROVE  /\ new \in Seq(Seq(Texts)) /\ new # <<>> /\ new[Len(new)] = <<text>>
         /\ \A key : LastSaid(new, key) = LastSaid(es, key)
<1> DEFINE n == Len(es)
<1>1. <<text>> \in Seq(Texts) /\ n \in Nat
  OBVIOUS
<1>2. /\ new \in Seq(Seq(Texts)) /\ Len(new) = n + 1
      /\ \A i \in 1 .. n : new[i] = es[i]
      /\ new[n + 1] = <<text>>
  BY <1>1
<1>3. DOMAIN es = 1 .. n /\ DOMAIN new = 1 .. n \cup {n + 1}
  BY <1>1, <1>2
<1>4. ASSUME NEW key
      PROVE  LastSaid(new, key) = LastSaid(es, key)
  <2>1. Said(new, key) = Said(es, key)
    BY <1>2, <1>3 DEF Said
  <2>2. CASE Said(es, key) = {}
    BY <2>1, <2>2 DEF LastSaid
  <2>3. CASE Said(es, key) # {}
    <3>1. PICK i \in Said(es, key) : \A j \in Said(es, key) : j <= i
      BY <2>3, LastSaidFacts
    <3>2. LastSaid(es, key) = es[i] /\ LastSaid(new, key) = new[i]
      BY <1>2, <2>1, <3>1, LastSaidFacts
    <3>3. i \in 1 .. n
      BY <1>3 DEF Said
    <3>4. QED BY <1>2, <3>2, <3>3
  <2>4. QED BY <2>2, <2>3
<1>5. QED BY <1>1, <1>2, <1>4

(* The entries with the value of the last key. *)
WithValue(es, k, text) == [es EXCEPT ![Len(es)] = <<k, text>>]

(* The value of the last key is what that key means from then on. *)
LEMMA ValueNoted ==
  ASSUME NEW es \in Seq(Seq(Texts)), es # <<>>, NEW k \in Texts, NEW text \in Texts,
         es[Len(es)] = <<k>>
  PROVE  /\ WithValue(es, k, text) \in Seq(Seq(Texts))
         /\ LastSaid(WithValue(es, k, text), k) = <<k, text>>
         /\ \A key : key # k =>
              LastSaid(WithValue(es, k, text), key) = LastSaid(es, key)
<1> DEFINE n == Len(es)
           new == WithValue(es, k, text)
<1>1. n \in Nat \ {0} /\ <<k, text>> \in Seq(Texts)
  OBVIOUS
<1>2. /\ DOMAIN es = 1 .. n /\ DOMAIN new = 1 .. n /\ new \in Seq(Seq(Texts))
      /\ \A i \in 1 .. n : i # n => new[i] = es[i]
      /\ new[n] = <<k, text>> /\ n \in 1 .. n
  BY <1>1 DEF WithValue
<1> HIDE DEF new
<1>3. /\ Len(<<k, text>>) = 2 /\ <<k, text>>[1] = k
      /\ Len(<<k>>) = 1
  OBVIOUS
<1>4. LastSaid(new, k) = <<k, text>>
  <2>1. n \in Said(new, k)
    BY <1>2, <1>3 DEF Said
  <2>2. \A j \in Said(new, k) : j <= n
    <3>1. Said(new, k) \subseteq 1 .. n
      BY <1>2 DEF Said
    <3>2. QED BY <1>1, <3>1
  <2>3. QED BY <1>2, <2>1, <2>2, LastSaidFacts
<1>5. ASSUME NEW key, key # k
      PROVE  LastSaid(new, key) = LastSaid(es, key)
  <2>1. n \notin Said(new, key) /\ n \notin Said(es, key)
    <3>1. new[n][1] = k /\ Len(es[n]) = 1
      BY <1>2, <1>3
    <3>2. QED BY <1>5, <3>1 DEF Said
  <2>2. Said(new, key) = Said(es, key)
    BY <1>2, <2>1 DEF Said
  <2>3. CASE Said(es, key) = {}
    BY <2>2, <2>3 DEF LastSaid
  <2>4. CASE Said(es, key) # {}
    <3>1. PICK i \in Said(es, key) : \A j \in Said(es, key) : j <= i
      BY <2>4, LastSaidFacts
    <3>2. LastSaid(es, key) = es[i] /\ LastSaid(new, key) = new[i]
      BY <1>2, <2>2, <3>1, LastSaidFacts
    <3>3. i \in 1 .. n /\ i # n
      BY <1>2, <2>1 DEF Said
    <3>4. QED BY <1>2, <3>2, <3>3
  <2>5. QED BY <2>3, <2>4
<1>6. QED BY <1>2, <1>4, <1>5 DEF new

(* Meant is LastSaid of the entries noted so far. *)
LEMMA MeantIsLastSaid ==
  \A key : Meant(key) = LastSaid(entries, key) /\ Meant(key)' = LastSaid(entries', key)
BY DEF Meant, LastSaid, Said

-----------------------------------------------------------------------------
(* Every event keeps each part.                                            *)

(* Every event keeps the configuration and the loop's variables typed. *)
LEMMA TypedStep ==
  ASSUME ConfigTyped, LoopTyped, [Event]_vars
  PROVE  ConfigTyped' /\ LoopTyped'
<1>1. ASSUME NEW text \in Texts, Scalar(text)
      PROVE  ConfigTyped' /\ LoopTyped'
  <2>1. stack' \in Seq(Kinds)
    BY <1>1, AdvancedType DEF Scalar, LoopTyped
  <2>2. events' \in 0 .. MaxEvents
    BY <1>1, ConfigAssumption DEF Scalar, LoopTyped, CanRead, Count, ConfigAssumption
  <2>3. CASE ~inMapping
    BY <1>1, <2>1, <2>2, <2>3 DEF Scalar, LoopTyped, ConfigTyped
  <2>4. CASE inMapping /\ currentKey = <<>>
    BY <1>1, <2>1, <2>2, <2>4 DEF Scalar, LoopTyped, ConfigTyped
  <2>5. CASE inMapping /\ currentKey # <<>>
    <3>1. PICK key \in Texts : currentKey = <<key>>
      BY <2>5 DEF LoopTyped
    <3>2. config' = Stored(config, key, text) /\ currentKey' = <<>>
      BY <1>1, <2>5, <3>1 DEF Scalar
    <3>3. Number(text) \in Nat
      BY ConfigAssumption DEF ConfigAssumption
    <3>4. ConfigTyped'
      BY <3>2, <3>3, StoredFacts DEF ConfigTyped
    <3>5. LoopTyped'
      BY <1>1, <2>1, <2>2, <3>2 DEF Scalar, LoopTyped
    <3>6. QED BY <3>4, <3>5
  <2>6. QED BY <2>3, <2>4, <2>5 DEF LoopTyped
<1>2. ASSUME NEW kind \in Kinds, Opens(kind), inMapping' \in BOOLEAN
      PROVE  ConfigTyped' /\ LoopTyped'
  <2>1. stack' \in Seq(Kinds)
    BY <1>2 DEF Opens, LoopTyped
  <2>2. events' \in 0 .. MaxEvents
    BY <1>2, ConfigAssumption DEF Opens, LoopTyped, CanRead, Count, ConfigAssumption
  <2>3. flat' \in BOOLEAN
    BY <1>2 DEF Opens, NoteOther
  <2>4. QED BY <1>2, <2>1, <2>2, <2>3 DEF Opens, LoopTyped, ConfigTyped
<1>6. CASE Alias
  <2>1. stack' \in Seq(Kinds)
    BY <1>6, AdvancedType DEF Alias, LoopTyped
  <2>2. events' \in 0 .. MaxEvents
    BY <1>6, ConfigAssumption DEF Alias, LoopTyped, CanRead, Count, ConfigAssumption
  <2>3. flat' \in BOOLEAN
    BY <1>6 DEF Alias, NoteOther
  <2>4. QED BY <1>6, <2>1, <2>2, <2>3 DEF Alias, LoopTyped, ConfigTyped
<1>3. ASSUME Closes, inMapping' \in BOOLEAN
      PROVE  ConfigTyped' /\ LoopTyped'
  <2>1. SubSeq(stack, 1, Len(stack) - 1) \in Seq(Kinds)
    BY <1>3 DEF Closes, LoopTyped
  <2>2. stack' \in Seq(Kinds)
    BY <1>3, <2>1, AdvancedType DEF Closes
  <2>3. QED BY <1>3, <2>2 DEF Closes, LoopTyped, ConfigTyped
<1>4. CASE StreamEnd
  <2>1. LoopTyped'
    BY <1>4 DEF StreamEnd, LoopTyped
  <2>2. CASE config.gridWidth > 0
    <3> DEFINE v == <<config.gameWidth, config.gridWidth>>
    <3>1. config' = [config EXCEPT !.cellSize = v]
      BY <1>4, <2>2 DEF StreamEnd
    <3>2. v[2] > 0
      BY <2>2
    <3> HIDE DEF v
    <3>3. /\ DOMAIN config' = DOMAIN Defaults
          /\ config' = [field \in DOMAIN config' |-> config'[field]]
          /\ \A g \in Fields : config'[g] = IF g = "cellSize" THEN v ELSE config[g]
      BY <3>1, ConfigFields DEF ConfigTyped, Fields
    <3>4. /\ config'.cellSize = v
          /\ config'.enablePostProcessing = config.enablePostProcessing
          /\ \A key \in NumberKeys : config'[key] = config[key]
      BY <3>3 DEF Fields, NumberKeys
    <3>5. QED BY <2>1, <3>2, <3>3, <3>4 DEF ConfigTyped
  <2>3. CASE ~(config.gridWidth > 0)
    BY <1>4, <2>1, <2>3 DEF StreamEnd, ConfigTyped
  <2>4. QED BY <2>2, <2>3
<1>5. CASE ParseError \/ UNCHANGED vars
  BY <1>5 DEF ParseError, vars, LoopTyped, ConfigTyped
<1>7. QED
  <2>1. MappingStart => Opens("key") /\ inMapping' \in BOOLEAN
    BY DEF MappingStart
  <2>2. SequenceStart => Opens("item") /\ inMapping' \in BOOLEAN
    BY DEF SequenceStart, LoopTyped
  <2>3. MappingEnd \/ SequenceEnd => Closes /\ inMapping' \in BOOLEAN
    BY DEF MappingEnd, SequenceEnd, LoopTyped
  <2>4. QED BY <1>1, <1>2, <1>3, <1>4, <1>5, <1>6, <2>1, <2>2, <2>3 DEF Event, Kinds

(* A key and its value. *)
LEMMA Pair ==
  ASSUME NEW k, NEW text
  PROVE  Append(<<k>>, text) = <<k, text>>
<1>1. <<k>> \in Seq({k, text}) /\ <<k, text>> \in Seq({k, text})
  OBVIOUS
<1>2. Append(<<k>>, text) \in Seq({k, text}) /\ Len(Append(<<k>>, text)) = 2
  BY <1>1
<1>3. \A i \in 1 .. 2 : Append(<<k>>, text)[i] = <<k, text>>[i]
  BY <1>1
<1>4. QED BY <1>1, <1>2, <1>3, SeqEqual

(* The stacks of a document with scalars only are four, and what is done *)
(* with each.                                                              *)
LEMMA FlatStacks ==
  /\ <<"key">> # <<>> /\ <<"value">> # <<>> /\ <<"item">> # <<>>
  /\ <<"key">> # <<"value">> /\ <<"key">> # <<"item">> /\ <<"value">> # <<"item">>
  /\ Advanced(<<>>) = <<>> /\ Advanced(<<"item">>) = <<"item">>
  /\ Advanced(<<"key">>) = <<"value">> /\ Advanced(<<"value">>) = <<"key">>
<1>1. \A kind : Len(<<kind>>) = 1 /\ <<kind>>[1] = kind
  OBVIOUS
<1>2. <<"key">>[1] = "key" /\ <<"value">>[1] = "value" /\ <<"item">>[1] = "item"
  BY <1>1
<1>3. /\ <<"key">> # <<>> /\ <<"value">> # <<>> /\ <<"item">> # <<>>
      /\ <<"key">> # <<"value">> /\ <<"key">> # <<"item">> /\ <<"value">> # <<"item">>
  <2>1. Len(<<>>) = 0
    OBVIOUS
  <2>2. QED BY <1>1, <1>2, <2>1
<1>4. Advanced(<<>>) = <<>>
  BY DEF Advanced
<1>5. ASSUME NEW kind
      PROVE  Advanced(<<kind>>) =
               << CASE kind = "key" -> "value" [] kind = "value" -> "key" [] OTHER -> kind >>
  BY <1>1 DEF Advanced
<1>6. QED BY <1>3, <1>4, <1>5

(* With scalars only, the loop keeps step with the parser. *)
LEMMA ShapeStep ==
  ASSUME LoopTyped, FlatShape, [Event]_vars
  PROVE  FlatShape'
<1> SUFFICES ASSUME flat'
             PROVE  FlatShape'
  BY DEF FlatShape
<1>1. ASSUME NEW text \in Texts, Scalar(text)
      PROVE  FlatShape'
  <2>1. flat
    BY <1>1 DEF Scalar
  <2>2. CASE stack = <<"key">>
    <3>1. inMapping /\ currentKey = <<>> /\ entries \in Seq(Seq(Texts))
      BY <2>1, <2>2 DEF FlatShape
    <3>2. stack' = <<"value">>
      BY <1>1, <2>2 DEF Scalar, Advanced
    <3>3. entries' = Append(entries, <<text>>)
      BY <1>1, <2>2 DEF Scalar, NoteEntry
    <3>4. currentKey' = <<text>> /\ inMapping'
      BY <1>1, <3>1 DEF Scalar
    <3>5. /\ entries' \in Seq(Seq(Texts)) /\ entries' # <<>>
          /\ entries'[Len(entries')] = <<text>>
      BY <3>1, <3>3, KeyNoted
    <3>6. QED BY <3>2, <3>4, <3>5 DEF FlatShape
  <2>3. CASE stack = <<"value">>
    <3>1. /\ inMapping /\ entries \in Seq(Seq(Texts))
          /\ entries # <<>> /\ entries[Len(entries)] = currentKey
      BY <2>1, <2>3 DEF FlatShape
    <3>2. PICK k \in Texts : currentKey = <<k>>
      BY <2>1, <2>3 DEF FlatShape
    <3>3. stack' = <<"key">>
      BY <1>1, <2>3 DEF Scalar, Advanced
    <3>4. entries' = [entries EXCEPT ![Len(entries)] = Append(@, text)]
      BY <1>1, <2>3 DEF Scalar, NoteEntry
    <3>5. entries' = WithValue(entries, k, text)
      <4>1. entries[Len(entries)] = <<k>>
        BY <3>1, <3>2
      <4>2. Append(entries[Len(entries)], text) = <<k, text>>
        BY <4>1, Pair
      <4>3. QED BY <3>4, <4>2 DEF WithValue
    <3>6. currentKey' = <<>> /\ inMapping'
      BY <1>1, <3>1, <3>2 DEF Scalar
    <3>7. entries' \in Seq(Seq(Texts))
      BY <3>1, <3>2, <3>5, ValueNoted
    <3>8. QED BY <3>3, <3>6, <3>7 DEF FlatShape
  <2>4. CASE stack \in {<<>>, <<"item">>}
    <3>1. ~inMapping /\ currentKey = <<>> /\ entries \in Seq(Seq(Texts))
      BY <2>1, <2>4, FlatStacks DEF FlatShape
    <3>2. stack' = stack
      BY <1>1, <2>4, FlatStacks DEF Scalar
    <3>3. entries' = entries
      BY <1>1, <2>4, FlatStacks DEF Scalar, NoteEntry
    <3>4. currentKey' = currentKey /\ inMapping' = inMapping
      BY <1>1, <3>1 DEF Scalar
    <3>5. QED BY <2>4, <3>1, <3>2, <3>3, <3>4, FlatStacks DEF FlatShape
  <2>5. QED BY <2>1, <2>2, <2>3, <2>4 DEF FlatShape
<1>2. CASE MappingStart \/ SequenceStart
  <2>1. flat /\ stack = <<>> /\ entries' = entries /\ currentKey' = currentKey
    BY <1>2, FlatStacks DEF MappingStart, SequenceStart, Opens, NoteOther
  <2>2. ~inMapping /\ currentKey = <<>> /\ entries \in Seq(Seq(Texts))
    BY <2>1 DEF FlatShape
  <2>3. \/ stack' = <<"key">> /\ inMapping'
        \/ stack' = <<"item">> /\ ~inMapping'
    <3>1. \A kind : Append(<<>>, kind) = <<kind>>
      OBVIOUS
    <3>2. QED BY <1>2, <2>1, <2>2, <3>1 DEF MappingStart, SequenceStart, Opens
  <2>4. inMapping' \in BOOLEAN
    BY <1>2, <2>2 DEF MappingStart, SequenceStart, LoopTyped
  <2>5. QED BY <2>1, <2>2, <2>3, <2>4 DEF FlatShape
<1>3. CASE MappingEnd \/ SequenceEnd
  <2>1. /\ flat /\ stack # <<>> /\ Innermost \in {"key", "item"}
        /\ stack' = Advanced(SubSeq(stack, 1, Len(stack) - 1))
        /\ entries' = entries /\ currentKey' = currentKey
    BY <1>3 DEF MappingEnd, SequenceEnd, Closes
  <2>2. stack \in {<<"key">>, <<"item">>}
    BY <2>1 DEF FlatShape, Innermost
  <2>3. stack' = <<>>
    <3>1. \A kind : SubSeq(<<kind>>, 1, Len(<<kind>>) - 1) = <<>>
      <4>1. ASSUME NEW kind
            PROVE  SubSeq(<<kind>>, 1, Len(<<kind>>) - 1) = <<>>
        <5>1. <<kind>> \in Seq({kind}) /\ Len(<<kind>>) - 1 = 0
          OBVIOUS
        <5>2. SubSeq(<<kind>>, 1, 0) = <<>>
          BY <5>1, SubSeqEmpty
        <5>3. QED BY <5>1, <5>2
      <4>2. QED BY <4>1
    <3>2. SubSeq(stack, 1, Len(stack) - 1) = <<>>
      BY <2>2, <3>1
    <3>3. QED BY <2>1, <3>2, FlatStacks
  <2>4. inMapping' = FALSE
    <3>1. CASE MappingEnd
      BY <3>1 DEF MappingEnd
    <3>2. CASE SequenceEnd
      <4>1. stack = <<"item">> /\ inMapping' = inMapping
        BY <2>2, <3>2 DEF SequenceEnd, Innermost
      <4>2. QED BY <2>1, <4>1 DEF FlatShape
    <3>3. QED BY <1>3, <3>1, <3>2
  <2>5. currentKey = <<>> /\ entries \in Seq(Seq(Texts))
    BY <2>1, <2>2 DEF FlatShape
  <2>6. QED BY <2>1, <2>3, <2>4, <2>5 DEF FlatShape
<1>4. CASE StreamEnd \/ ParseError \/ UNCHANGED vars
  BY <1>4 DEF StreamEnd, ParseError, vars, FlatShape
<1>5. CASE Alias
  <2>1. flat /\ stack = <<>>
    BY <1>5 DEF Alias, NoteOther
  <2>2. entries' = entries
    BY <1>5, <2>1, FlatStacks DEF Alias, NoteOther
  <2>3. stack' = stack
    BY <1>5, <2>1, FlatStacks DEF Alias
  <2>4. currentKey' = currentKey /\ inMapping' = inMapping
    BY <1>5 DEF Alias
  <2>5. QED BY <2>1, <2>2, <2>3, <2>4 DEF FlatShape
<1>6. QED BY <1>1, <1>2, <1>3, <1>4, <1>5 DEF Event

(* Every event keeps the numbers and the switch what the entries mean. *)
LEMMA MeantStep ==
  ASSUME IInv, [Event]_vars
  PROVE  NumbersMeant' /\ SwitchMeant'
<1> SUFFICES ASSUME flat'
             PROVE  NumbersMeant' /\ SwitchMeant'
  BY DEF NumbersMeant, SwitchMeant
<1> DEFINE Same ==
             /\ flat
             /\ \A key : LastSaid(entries', key) = LastSaid(entries, key)
             /\ \A key \in NumberKeys : config'[key] = config[key]
             /\ config'.enablePostProcessing = config.enablePostProcessing
<1>1. ASSUME Same
      PROVE  NumbersMeant' /\ SwitchMeant'
  <2>1. \A key : Meant(key)' = Meant(key)
    BY <1>1, MeantIsLastSaid
  <2>2. NumbersMeant'
    BY <1>1, <2>1 DEF IInv, NumbersMeant
  <2>3. SwitchMeant'
    BY <1>1, <2>1 DEF IInv, SwitchMeant
  <2>4. QED BY <2>2, <2>3
<1> HIDE DEF Same
<1>2. ASSUME NEW text \in Texts, Scalar(text)
      PROVE  NumbersMeant' /\ SwitchMeant'
  <2>1. flat
    BY <1>2 DEF Scalar
  <2>2. CASE stack = <<"key">>
    <3>1. inMapping /\ currentKey = <<>> /\ entries \in Seq(Seq(Texts))
      BY <2>1, <2>2 DEF IInv, FlatShape
    <3>2. entries' = Append(entries, <<text>>)
      BY <1>2, <2>2 DEF Scalar, NoteEntry
    <3>3. config' = config
      BY <1>2, <3>1 DEF Scalar
    <3>4. \A key : LastSaid(entries', key) = LastSaid(entries, key)
      BY <3>1, <3>2, KeyNoted
    <3>5. QED BY <1>1, <2>1, <3>3, <3>4 DEF Same
  <2>3. CASE stack = <<"value">>
    <3>1. /\ inMapping /\ entries \in Seq(Seq(Texts))
          /\ entries # <<>> /\ entries[Len(entries)] = currentKey
      BY <2>1, <2>3 DEF IInv, FlatShape
    <3>2. PICK k \in Texts : currentKey = <<k>>
      BY <2>1, <2>3 DEF IInv, FlatShape
    <3>3. entries' = WithValue(entries, k, text)
      <4>1. entries' = [entries EXCEPT ![Len(entries)] = Append(@, text)]
        BY <1>2, <2>3, FlatStacks DEF Scalar, NoteEntry
      <4>2. entries[Len(entries)] = <<k>>
        BY <3>1, <3>2
      <4>3. Append(entries[Len(entries)], text) = <<k, text>>
        BY <4>2, Pair
      <4>4. QED BY <4>1, <4>3 DEF WithValue
    <3>4. config' = Stored(config, k, text)
      BY <1>2, <3>1, <3>2 DEF Scalar
    <3>5. /\ LastSaid(entries', k) = <<k, text>>
          /\ \A key : key # k => LastSaid(entries', key) = LastSaid(entries, key)
      <4>1. entries[Len(entries)] = <<k>>
        BY <3>1, <3>2
      <4>2. LastSaid(entries', k) = <<k, text>>
        BY <3>1, <3>3, <4>1, ValueNoted
      <4>3. ASSUME NEW key, key # k
            PROVE  LastSaid(entries', key) = LastSaid(entries, key)
        BY <3>1, <3>3, <4>1, <4>3, ValueNoted
      <4>4. QED BY <4>2, <4>3
    <3>6. /\ Meant(k)' = <<k, text>>
          /\ \A key : key # k => Meant(key)' = Meant(key)
      BY <3>5, MeantIsLastSaid
    <3>7. /\ \A key \in NumberKeys :
               config'[key] = IF key = k THEN Number(text) ELSE config[key]
          /\ config'.enablePostProcessing <=>
               IF k = "enablePostProcessing" THEN text \in {"true", "True", "1"}
               ELSE config.enablePostProcessing
      BY <3>4, StoredFacts DEF IInv
    <3>8. <<k, text>> # <<>> /\ <<k, text>>[2] = text
      OBVIOUS
    <3>9. NumbersMeant'
      BY <2>1, <3>6, <3>7, <3>8 DEF IInv, NumbersMeant
    <3>10. SwitchMeant'
      <4>1. CASE k = "enablePostProcessing"
        BY <3>6, <3>7, <3>8, <4>1 DEF SwitchMeant
      <4>2. CASE k # "enablePostProcessing"
        BY <2>1, <3>6, <3>7, <4>2 DEF IInv, SwitchMeant
      <4>3. QED BY <4>1, <4>2
    <3>11. QED BY <3>9, <3>10
  <2>4. CASE stack \in {<<>>, <<"item">>}
    <3>1. ~inMapping
      BY <2>1, <2>4, FlatStacks DEF IInv, FlatShape
    <3>2. config' = config /\ entries' = entries
      BY <1>2, <2>4, <3>1, FlatStacks DEF Scalar, NoteEntry
    <3>3. QED BY <1>1, <2>1, <3>2 DEF Same
  <2>5. QED BY <2>1, <2>2, <2>3, <2>4 DEF IInv, FlatShape
<1>3. CASE MappingStart \/ SequenceStart \/ MappingEnd \/ SequenceEnd \/ Alias
  <2>1. flat /\ config' = config
    BY <1>3 DEF MappingStart, SequenceStart, MappingEnd, SequenceEnd, Opens, Closes, Alias,
         NoteOther
  <2>2. entries' = entries
    <3>1. CASE MappingStart \/ SequenceStart \/ Alias
      <4>1. stack = <<>>
        BY <3>1 DEF MappingStart, SequenceStart, Opens, Alias, NoteOther
      <4>2. QED BY <3>1, <4>1, FlatStacks DEF MappingStart, SequenceStart, Opens, Alias, NoteOther
    <3>2. CASE MappingEnd \/ SequenceEnd
      BY <3>2 DEF MappingEnd, SequenceEnd, Closes
    <3>3. QED BY <1>3, <3>1, <3>2
  <2>3. QED BY <1>1, <2>1, <2>2 DEF Same
<1>4. CASE StreamEnd
  <2>1. flat /\ entries' = entries
    BY <1>4 DEF StreamEnd
  <2>2. /\ \A key \in NumberKeys : config'[key] = config[key]
        /\ config'.enablePostProcessing = config.enablePostProcessing
    <3>1. \A g \in Fields : g # "cellSize" => config'[g] = config[g]
      BY <1>4, ConfigFields DEF StreamEnd, IInv, ConfigTyped
    <3>2. QED BY <3>1 DEF Fields, NumberKeys
  <2>3. QED BY <1>1, <2>1, <2>2 DEF Same
<1>5. CASE ParseError \/ UNCHANGED vars
  <2>1. flat /\ config' = config /\ entries' = entries
    BY <1>5 DEF ParseError, vars
  <2>2. QED BY <1>1, <2>1 DEF Same
<1>6. QED BY <1>2, <1>3, <1>4, <1>5 DEF Event

-----------------------------------------------------------------------------
(* The theorems.                                                           *)

(* The invariant holds before the first event. *)
LEMMA InitInv ==
  Init => IInv
<1> SUFFICES ASSUME Init
             PROVE  IInv
  OBVIOUS
<1>1. ConfigTyped
  <2>1. /\ DOMAIN config = DOMAIN Defaults
        /\ config = [field \in DOMAIN config |-> config[field]]
    BY DEF Init, Defaults
  <2>2. \A key \in NumberKeys : config[key] \in Nat
    BY DEF Init, Defaults, NumberKeys
  <2>3. config.enablePostProcessing \in BOOLEAN /\ config.cellSize[2] > 0
    BY DEF Init, Defaults
  <2>4. QED BY <2>1, <2>2, <2>3 DEF ConfigTyped
<1>2. LoopTyped
  <2>1. stack \in Seq(Kinds) /\ currentKey = <<>>
    BY DEF Init
  <2>2. events \in 0 .. MaxEvents
    BY ConfigAssumption DEF Init, ConfigAssumption
  <2>3. QED BY <2>1, <2>2 DEF Init, LoopTyped, Running
<1>3. FlatShape
  BY DEF Init, FlatShape
<1>4. \A key : Meant(key) = <<>>
  <2>1. entries = <<>>
    BY DEF Init
  <2>2. \A key : Said(entries, key) = {}
    BY <2>1 DEF Said
  <2>3. QED BY <2>2, MeantIsLastSaid DEF LastSaid
<1>5. NumbersMeant /\ SwitchMeant
  <2>1. config = Defaults /\ ~Defaults.enablePostProcessing
    BY DEF Init, Defaults
  <2>2. QED BY <1>4, <2>1 DEF NumbersMeant, SwitchMeant
<1>6. QED BY <1>1, <1>2, <1>3, <1>5 DEF IInv

(* The loop keeps the inductive invariant, whatever the document. *)
THEOREM ConfigInductive == Spec => []IInv
<1>1. Init => IInv
  BY InitInv
<1>2. IInv /\ [Event]_vars => IInv'
  <2> SUFFICES ASSUME IInv, [Event]_vars
               PROVE  IInv'
    OBVIOUS
  <2>1. ConfigTyped' /\ LoopTyped'
    BY TypedStep DEF IInv
  <2>2. FlatShape'
    BY ShapeStep DEF IInv
  <2>3. NumbersMeant' /\ SwitchMeant'
    BY MeantStep
  <2>4. QED BY <2>1, <2>2, <2>3 DEF IInv
<1>3. QED BY <1>1, <1>2, PTL DEF Spec

(* Whatever the document and wherever the parser fails, the configuration  *)
(* keeps its types and cell_size is no quotient by zero.                   *)
THEOREM ConfigTypeCorrect == Spec => []TypeOK
<1>1. IInv => TypeOK
  <2> SUFFICES ASSUME IInv
               PROVE  TypeOK
    OBVIOUS
  <2>1. Len(currentKey) <= 1
    <3>1. CASE currentKey = <<>>
      BY <3>1
    <3>2. ASSUME NEW text \in Texts, currentKey = <<text>>
          PROVE  Len(currentKey) <= 1
      BY <3>2
    <3>3. QED BY <3>1, <3>2 DEF IInv, LoopTyped
  <2>2. QED BY <2>1 DEF IInv, LoopTyped, ConfigTyped, TypeOK, Kinds
<1>2. QED BY <1>1, ConfigInductive, PTL

(* A document of scalars is obeyed to the letter: at every event, as long  *)
(* as no collection was nested in another and no alias used, the           *)
(* configuration is what the entries say so far.                           *)
THEOREM FlatDocumentsObeyed == Spec => []FlatDocumentObeyed
<1>1. IInv => FlatDocumentObeyed
  <2> SUFFICES ASSUME IInv, flat
               PROVE  FlatDocumentObeyed
    BY DEF FlatDocumentObeyed
  <2>1. currentKey # <<>> <=> (stack # <<>> /\ Innermost = "value")
    <3>1. stack \in {<<>>, <<"key">>, <<"value">>, <<"item">>}
      BY DEF IInv, FlatShape
    <3>2. (stack # <<>> /\ Innermost = "value") <=> stack = <<"value">>
      BY <3>1 DEF Innermost
    <3>3. stack = <<"value">> => currentKey # <<>>
      <4>1. \A text : <<text>> # <<>>
        OBVIOUS
      <4>2. QED BY <4>1 DEF IInv, FlatShape
    <3>4. QED BY <3>2, <3>3 DEF IInv, FlatShape
  <2>2. \A key \in NumberKeys :
          config[key] = IF Meant(key) = <<>> THEN Defaults[key]
                        ELSE Number(Meant(key)[2])
    BY DEF IInv, NumbersMeant
  <2>3. /\ config.enablePostProcessing \in BOOLEAN
        /\ config.enablePostProcessing <=>
             /\ Meant("enablePostProcessing") # <<>>
             /\ Meant("enablePostProcessing")[2] \in {"true", "True", "1"}
    BY DEF IInv, SwitchMeant, ConfigTyped
  <2>4. QED BY <2>1, <2>2, <2>3 DEF FlatDocumentObeyed
<1>2. QED BY <1>1, ConfigInductive, PTL
=============================================================================
