---------------------------- MODULE ConfigLoader ----------------------------
(***************************************************************************)
(* game_config_load: one loop over the events of a YAML parser, which      *)
(* tells keys from values by current_key and in_mapping alone.  The parser *)
(* (libyaml) is external: it reports some well-formed document, event by   *)
(* event, or an error at any point.                                        *)
(***************************************************************************)
EXTENDS Integers, Sequences

CONSTANTS
  Texts,      (* the scalars a document may contain                        *)
  Number(_),  (* strtoul of a text: 0 for one that is no number            *)
  MaxEvents   (* bound: the events of a document, not counting what closes *)
              (* its collections                                           *)

ASSUME ConfigAssumption ==
  /\ MaxEvents \in Nat
  /\ \A text \in Texts : Number(text) \in Nat

VARIABLES
  stack,      (* external: the collections that are open, the innermost    *)
              (* last; in a mapping the next scalar is a "key" or a        *)
              (* "value", a sequence has "item"s                           *)
  events,     (* external: the events that are left                        *)
  config,     (* *config                                                   *)
  currentKey, (* current_key: <<>> for NULL, or the text in a sequence     *)
  inMapping,  (* in_mapping                                                *)
  result,     (* what the call returned, Running before                    *)
  flat,       (* history: the collections have held scalars only, no       *)
              (* collection and no alias                                   *)
  entries     (* history: the entries of the mappings that are not nested: *)
              (* <<key, value>>, <<key>> as long as there is no scalar for *)
              (* a value, and without the key when that is no scalar       *)

vars == <<stack, events, config, currentKey, inMapping, result, flat, entries>>

Running == 1

NumberKeys == {"gridWidth", "gridHeight", "maxClients", "gameWidth", "gameHeight"}

(* cell_size is the quotient of the two numbers. *)
Defaults ==
  [gridWidth |-> 100, gridHeight |-> 100, maxClients |-> 60,
   gameWidth |-> 1000, gameHeight |-> 1000,
   enablePostProcessing |-> FALSE, cellSize |-> <<1000, 100>>]

Bug_Stored(c, key, text) ==
  IF key = "enablePostProcessing"
  THEN [c EXCEPT !.enablePostProcessing = @ \/ text \in {"true", "True", "1"}]
  ELSE IF key \in NumberKeys THEN [c EXCEPT ![key] = Number(text)] ELSE c

(* The configuration with one setting more; other keys are passed over. *)
Stored(c, key, text) ==
  IF key = "enablePostProcessing"
  THEN [c EXCEPT !.enablePostProcessing = text \in {"true", "True", "1"}]
  ELSE IF key \in NumberKeys THEN [c EXCEPT ![key] = Number(text)] ELSE c

-----------------------------------------------------------------------------
(* The parser.                                                             *)

Innermost == stack[Len(stack)]

(* A node has been read: in a mapping it was a key or a value. *)
Advanced(open) ==
  IF open = <<>> THEN open
  ELSE [open EXCEPT ![Len(open)] =
          CASE @ = "key" -> "value" [] @ = "value" -> "key" [] OTHER -> @]

CanRead == result = Running /\ events > 0

Count == events' = events - 1

NoteEntry(text) ==
  entries' = IF stack = <<"key">> THEN Append(entries, <<text>>)
             ELSE IF stack = <<"value">>
             THEN [entries EXCEPT ![Len(entries)] = Append(@, text)]
             ELSE entries

(* A node that is no scalar. *)
NoteOther ==
  /\ flat' = (flat /\ stack = <<>>)
  /\ entries' = IF stack = <<"key">> THEN Append(entries, <<>>) ELSE entries

-----------------------------------------------------------------------------
(* The loop, one event each.                                               *)

Scalar(text) ==
  /\ CanRead /\ Count
  /\ stack' = Advanced(stack)
  /\ NoteEntry(text)
  /\ IF ~inMapping THEN UNCHANGED <<config, currentKey>>
     ELSE IF currentKey = <<>> THEN currentKey' = <<text>> /\ UNCHANGED config
     ELSE currentKey' = <<>> /\ config' = Stored(config, currentKey[1], text)
  /\ UNCHANGED <<inMapping, result, flat>>

(* An alias of another node, a key or a value as well: the default branch  *)
(* passes over it, and current_key stays what it was.                      *)
Alias ==
  /\ CanRead /\ Count /\ NoteOther
  /\ stack' = Advanced(stack)
  /\ UNCHANGED <<config, currentKey, inMapping, result>>

Opens(kind) ==
  /\ CanRead /\ Count /\ NoteOther
  /\ stack' = Append(stack, kind)
  /\ UNCHANGED <<config, currentKey, result>>

MappingStart == Opens("key") /\ inMapping' = TRUE

SequenceStart == Opens("item") /\ UNCHANGED inMapping

Closes ==
  /\ result = Running /\ stack # <<>>
  /\ stack' = Advanced(SubSeq(stack, 1, Len(stack) - 1))
  /\ UNCHANGED <<events, config, currentKey, result, flat, entries>>

MappingEnd == Closes /\ Innermost = "key" /\ inMapping' = FALSE

SequenceEnd == Closes /\ Innermost = "item" /\ UNCHANGED inMapping

Bug_StreamEnd ==
  /\ result = Running /\ stack = <<>>
  /\ result' = 0
  /\ config' = [config EXCEPT !.cellSize = <<config.gameWidth, config.gridWidth>>]
  /\ UNCHANGED <<stack, events, currentKey, inMapping, flat, entries>>

StreamEnd ==
  /\ result = Running /\ stack = <<>>
  /\ result' = 0
  /\ config' = IF config.gridWidth > 0
               THEN [config EXCEPT !.cellSize = <<config.gameWidth, config.gridWidth>>]
               ELSE config
  /\ UNCHANGED <<stack, events, currentKey, inMapping, flat, entries>>

(* What has been stored by then stays stored. *)
ParseError ==
  /\ CanRead
  /\ result' = -1
  /\ UNCHANGED <<stack, events, config, currentKey, inMapping, flat, entries>>

Init ==
  /\ stack = <<>> /\ events = MaxEvents
  /\ config = Defaults
  /\ currentKey = <<>> /\ inMapping = FALSE
  /\ result = Running
  /\ flat = TRUE /\ entries = <<>>

Event ==
  \/ \E text \in Texts : Scalar(text)
  \/ Alias
  \/ MappingStart \/ MappingEnd \/ SequenceStart \/ SequenceEnd
  \/ StreamEnd \/ ParseError

Spec == Init /\ [][Event]_vars

-----------------------------------------------------------------------------
(* Properties.                                                             *)

(* The configuration keeps its types, and no quotient is taken by zero.    *)
TypeOK ==
  /\ stack \in Seq({"key", "value", "item"}) /\ events \in 0 .. MaxEvents
  /\ DOMAIN config = DOMAIN Defaults
  /\ \A key \in NumberKeys : config[key] \in Nat
  /\ config.enablePostProcessing \in BOOLEAN
  /\ config.cellSize[2] > 0
  /\ Len(currentKey) <= 1 /\ inMapping \in BOOLEAN
  /\ result \in {Running, 0, -1}

(* What the entries say, read as YAML is: a later one replaces an earlier. *)
Meant(key) ==
  LET said == {i \in DOMAIN entries : Len(entries[i]) = 2 /\ entries[i][1] = key}
  IN  IF said = {} THEN <<>>
      ELSE entries[CHOOSE i \in said : \A j \in said : j <= i]

(* As long as a mapping has held scalars only, the loop takes keys for     *)
(* keys and values for values, and the configuration is at every moment    *)
(* what the document has said so far, with the defaults for the rest.      *)
(* Nothing is said of a document once it has nested a collection in        *)
(* another or used an alias: settings after that can be lost.              *)
FlatDocumentObeyed ==
  flat =>
    /\ (currentKey # <<>>) = (stack # <<>> /\ Innermost = "value")
    /\ \A key \in NumberKeys :
         config[key] = IF Meant(key) = <<>> THEN Defaults[key]
                       ELSE Number(Meant(key)[2])
    /\ config.enablePostProcessing =
         (Meant("enablePostProcessing") # <<>>
          /\ Meant("enablePostProcessing")[2] \in {"true", "True", "1"})
=============================================================================
