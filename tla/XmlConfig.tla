------------------------------ MODULE XmlConfig ------------------------------
(***************************************************************************)
(* The parser of the sensor's configuration page                           *)
(* (core/src/detail/xml_config.cpp), fed every document of up to MaxTokens *)
(* tokens, one token per step of the loop of extract_required_fields().    *)
(* A token is a tag, a piece of text, skipped markup (a comment or a       *)
(* processing instruction) or markup the loop throws at; a text token      *)
(* stands for character data and for CDATA, which are appended alike.      *)
(* The document read so far is kept to compare the outcome with Meaning,   *)
(* which says what a document means without reading it in order.           *)
(***************************************************************************)
EXTENDS Integers, Sequences, FiniteSets, Functions

CONSTANTS
  Pages,                \* sets of fields to look at together
  OtherTags,            \* names of other elements
  kMaximumFieldLength,
  MaxTokens             \* bound: tokens of a document

Optional == "prodname"
Counts   == {"cfgcpf", "cfgcpt"}
Units    == {"scfgfu", "scfgtu"}
Blank    == " "
Invalid  == <<>>   \* no value; a value is a sequence that is not empty

ASSUME XmlConstants ==
  /\ UNION Pages \subseteq {Optional} \cup Counts \cup Units
  /\ OtherTags \cap UNION Pages = {}
  /\ kMaximumFieldLength \in Nat /\ MaxTokens \in Nat

VARIABLES
  kRequiredTags,   \* constant in the code: all fields; here those of a page
  document,   \* history: the tokens read
  elements,   \* names of the open elements, innermost last
  seen,
  fields,     \* fields[tag]: the text collected for it
  outcome,
  configuration   \* configuration[tag]: the value of a parsed field

parserVars == <<kRequiredTags, document, elements, seen, fields, outcome, configuration>>

(* The characters that tell values of the page's fields apart.             *)
Characters == IF kRequiredTags \cap Units = {} THEN {Blank, "0", "1"} ELSE {"N", "-", "m"}

Names  == kRequiredTags \cup OtherTags
Tags   == [kind : {"open", "close", "empty"}, name : Names]
Tokens == Tags \cup [kind : {"text"}, name : Characters]
               \cup [kind : {"skipped", "malformed"}, name : {""}]

ParserInit ==
  /\ kRequiredTags \in Pages
  /\ document = <<>>
  /\ elements = <<>>
  /\ seen = {}
  /\ fields = [tag \in kRequiredTags |-> <<>>]
  /\ outcome = "reading"
  /\ configuration = [tag \in kRequiredTags |-> Invalid]

-----------------------------------------------------------------------------
(* Values                                                                  *)

trim_ascii_whitespace(value) ==
  LET solid == {i \in DOMAIN value : value[i] # Blank} IN
  IF solid = {} THEN <<>>
  ELSE SubSeq(value, CHOOSE i \in solid : \A j \in solid : i <= j,
                     CHOOSE i \in solid : \A j \in solid : i >= j)

Digit(character) == IF character = "1" THEN 1 ELSE 0

(* Of texts over the characters of an instance, the positive numbers are   *)
(* those of digits that are not all zero: a sign, or anything after the    *)
(* digits, makes the stream fail, stop early or give no positive number.   *)
(* The digits are read one after the other.                                *)
parse_positive_count(value) ==
  LET read[i \in 0 .. Len(value)] ==
        IF i = 0 THEN 0 ELSE 10 * read[i - 1] + Digit(value[i])
  IN  IF Range(value) \subseteq {"0", "1"} /\ "1" \in Range(value)
      THEN <<read[Len(value)]>> ELSE Invalid

normalize_torque_spelling(value) ==
  CASE value = <<"N", "m">>      -> <<"N", "-", "m">>
    [] value = <<"N", "m", "m">> -> <<"N", "-", "m", "m">>
    [] OTHER                     -> value

(* The units whose spellings these characters can form.                    *)
parse_force_unit(value) == IF value = <<"N">> THEN <<"Newton">> ELSE Invalid

parse_torque_unit(value) ==
  LET spelling == normalize_torque_spelling(value) IN
  CASE spelling = <<"N", "-", "m">>      -> <<"NewtonMeter">>
    [] spelling = <<"N", "-", "m", "m">> -> <<"NewtonMillimeter">>
    [] OTHER                             -> Invalid

ParseField(tag, value) ==
  CASE tag \in Counts  -> parse_positive_count(value)
    [] tag = "scfgfu"  -> parse_force_unit(value)
    [] tag = "scfgtu"  -> parse_torque_unit(value)
    [] OTHER           -> value

-----------------------------------------------------------------------------
(* extract_required_fields()                                               *)

back(stack)     == stack[Len(stack)]
pop_back(stack) == SubSeq(stack, 1, Len(stack) - 1)

InRequired == elements # <<>> /\ back(elements) \in kRequiredTags

append_required_text(character) ==
  fields' = IF InRequired
            THEN [fields EXCEPT ![back(elements)] = Append(@, character)]
            ELSE fields

Throw == outcome' = "DiscoveryError" /\ UNCHANGED <<elements, seen, fields>>

(* Mutant: a closing tag closes the innermost element, whatever its name.  *)
CloseAny(name) ==
  IF elements = <<>> THEN Throw
  ELSE elements' = pop_back(elements) /\ UNCHANGED <<seen, fields, outcome>>

(* Lines 166-175.                                                          *)
CloseTag(name) ==
  IF elements = <<>> \/ (elements # <<>> /\ back(elements) # name) THEN Throw
  ELSE elements' = pop_back(elements) /\ UNCHANGED <<seen, fields, outcome>>

(* Lines 177-203.                                                          *)
OpenTag(kind, name) ==
  IF InRequired \/ name \in seen THEN Throw
  ELSE /\ seen' = seen \cup ({name} \cap kRequiredTags)
       /\ elements' = IF kind = "open" THEN Append(elements, name) ELSE elements
       /\ UNCHANGED <<fields, outcome>>

(* One turn of the loop of lines 122-204.                                  *)
ReadToken(token) ==
  /\ outcome = "reading" /\ Len(document) < MaxTokens
  /\ document' = Append(document, token)
  /\ UNCHANGED configuration
  /\ CASE token.kind = "text"      -> /\ append_required_text(token.name)
                                      /\ UNCHANGED <<elements, seen, outcome>>
       [] token.kind = "skipped"   -> UNCHANGED <<elements, seen, fields, outcome>>
       [] token.kind = "malformed" -> Throw
       [] token.kind = "close"     -> CloseTag(token.name)
       [] OTHER                    -> OpenTag(token.kind, token.name)

(* Lines 210-228 for one field.                                            *)
FieldValue(tag) ==
  LET value == trim_ascii_whitespace(fields[tag]) IN
  IF tag \notin seen THEN IF tag = Optional THEN <<"ATI Net F/T">> ELSE Invalid
  ELSE IF Len(value) > kMaximumFieldLength THEN Invalid ELSE ParseField(tag, value)

Balanced == elements = <<>>

(* Lines 206-230 and parse_sensor_configuration(): a field without a value *)
(* is an error like any other.                                             *)
Finish ==
  /\ outcome = "reading"
  /\ LET values == [tag \in kRequiredTags |-> FieldValue(tag)] IN
     IF Balanced /\ \A tag \in kRequiredTags : values[tag] # Invalid
     THEN outcome' = "parsed" /\ configuration' = values
     ELSE outcome' = "DiscoveryError" /\ UNCHANGED configuration
  /\ UNCHANGED <<document, elements, seen, fields>>

ParserNext ==
  /\ Finish \/ \E token \in Tokens : ReadToken(token)
  /\ UNCHANGED kRequiredTags

ParserSpec == ParserInit /\ [][ParserNext]_parserVars

-----------------------------------------------------------------------------
(* What a document means                                                   *)

Depth(d, i) ==
  Cardinality({j \in 1 .. i : d[j].kind = "open"})
  - Cardinality({j \in 1 .. i : d[j].kind = "close"})

(* The tag at j is closed by the tag at i.                                 *)
Matches(d, j, i) ==
  /\ j < i /\ d[j].kind = "open" /\ d[i].kind = "close" /\ d[j].name = d[i].name
  /\ Depth(d, i) = Depth(d, j) - 1
  /\ \A k \in j .. i - 1 : Depth(d, k) >= Depth(d, j)

WellNested(d) ==
  \A k \in DOMAIN d :
    /\ d[k].kind # "malformed"
    /\ d[k].kind = "open" => \E i \in DOMAIN d : Matches(d, k, i)
    /\ d[k].kind = "close" => \E j \in DOMAIN d : Matches(d, j, k)

Occurrences(d, tag) ==
  {i \in DOMAIN d : d[i].kind \in {"open", "empty"} /\ d[i].name = tag}

(* Where the elements called tag have their content.                       *)
Inside(d, tag) ==
  {k \in DOMAIN d : \E j, i \in DOMAIN d :
     Matches(d, j, i) /\ d[j].name = tag /\ j < k /\ k < i}

(* What the tokens at these positions say, in order.                       *)
InOrder(d, positions) ==
  [n \in 1 .. Cardinality(positions) |->
     d[CHOOSE k \in positions : Cardinality({m \in positions : m <= k}) = n].name]

Text(d, tag) == InOrder(d, {k \in Inside(d, tag) : d[k].kind = "text"})

PowerOfTen[n \in Nat] == IF n = 0 THEN 1 ELSE 10 * PowerOfTen[n - 1]

(* A number by the weight of its digits, a unit by the list of its names.  *)
Number(value) ==
  LET sum[i \in 0 .. Len(value)] ==
        IF i = 0 THEN 0 ELSE sum[i - 1] + Digit(value[i]) * PowerOfTen[Len(value) - i]
  IN  sum[Len(value)]

Unit(value) ==
  CASE value = <<"N">>                                        -> <<"Newton">>
    [] value \in {<<"N", "m">>, <<"N", "-", "m">>}            -> <<"NewtonMeter">>
    [] value \in {<<"N", "m", "m">>, <<"N", "-", "m", "m">>}  -> <<"NewtonMillimeter">>
    [] OTHER                                                  -> Invalid

Meaning(d, tag) ==
  LET value == trim_ascii_whitespace(Text(d, tag)) IN
  IF Occurrences(d, tag) = {} THEN IF tag = Optional THEN <<"ATI Net F/T">> ELSE Invalid
  ELSE CASE tag \in Counts -> IF Range(value) \subseteq {"0", "1"} /\ Number(value) > 0
                              THEN <<Number(value)>> ELSE Invalid
         [] tag \in Units  -> IF (Unit(value) = <<"Newton">>) = (tag = "scfgfu")
                              THEN Unit(value) ELSE Invalid
         [] OTHER          -> value

Acceptable(d) ==
  /\ WellNested(d)
  /\ \A tag \in kRequiredTags :
       /\ Cardinality(Occurrences(d, tag)) \in (IF tag = Optional THEN {0, 1} ELSE {1})
       /\ \A k \in Inside(d, tag) : d[k].kind \in {"text", "skipped"}
       /\ Len(trim_ascii_whitespace(Text(d, tag))) <= kMaximumFieldLength
       /\ Meaning(d, tag) # Invalid

-----------------------------------------------------------------------------
(* Properties                                                              *)

(* The loop with its stack accepts exactly the documents that are well     *)
(* nested and hold every calibration field once, with text only and a      *)
(* usable value, and gives each field the value the document gives it.     *)
(* Damaged documents, truncated ones included, are DiscoveryErrors.        *)
ParserCorrect ==
  /\ outcome = "parsed" =>
       /\ Acceptable(document)
       /\ \A tag \in kRequiredTags : configuration[tag] = Meaning(document, tag)
  /\ outcome = "DiscoveryError" => ~Acceptable(document)
=============================================================================
