--------------------------- MODULE MCParallelParse ---------------------------
(***************************************************************************)
(* Instances of ParallelParse: a declaration block as in MapCSS, tokenised *)
(* from every text of at most MaxLength offsets.                           *)
(***************************************************************************)
EXTENDS BlockGrammar

CONSTANT space

ASSUME InstanceAssumption == BlockTables

MCToken == {open, close, key, semi, space, EOF, Error}
MCRule  == {BlockRule, MoreRule, OneRule, DeclRule}

\* At an offset: nothing is recognised, one token, or a long token that the
\* delegate may turn down for a short one.
Short(t)  == <<[token |-> t, len |-> 1]>>
Ambiguous == <<[token |-> key, len |-> 2], [token |-> semi, len |-> 1]>>
Cells     == {<<>>, Ambiguous} \cup { Short(t) : t \in {open, close, key, semi, space} }

MCInputs == {<<>>} \cup
  UNION { { text \in [1..n -> Cells] : text[n] # Ambiguous } : n \in 1..MaxLength }

\* Texts of tokens of the grammar only, and texts for the error paths.
BlockTexts == UNION { [1..n -> { Short(t) : t \in {open, close, key, semi} }] : n \in 0..MaxLength }

\* ... that a parser gets somewhere with before an error.
OpenTexts == { text \in MCInputs : text # <<>> /\ text[1] \in {<<>>, Short(open)} }

\* White space is consumed and not produced, as in the delegates of the project.
MCReplacement(t) == IF t = space THEN {<<>>} ELSE {<<t>>}

\* ... and a delegate that may drop the error tokens too.
ErrorsDropped(t) == MCReplacement(t) \cup (IF t = Error THEN {<<>>} ELSE {})

\* Delegates that go on somewhere further right or stop, but that the texts
\* with an unrecognised start do not have; that are absent; and
\* -[OSPMapCSSParser tokeniser:didNotFindTokenOnInput:position:error:].
SkippingOffsets(text, p) ==
  IF text[1] = <<>> THEN {} ELSE (p + 1)..Len(text) \cup {NotFound}
NoOffsets(text, p) == {}
OSPMapCSSOffsets(text, p) == {1}

\* No delegate; and one that may answer anything: it inserts ';' where that is
\* acceptable, or an error token.
DefaultRecovery(acceptable, head) == {[type |-> "none", token |-> Nil]}
AnyRecovery(acceptable, head) ==
  {[type |-> x, token |-> Nil] : x \in {"none", "remove", "bail"}}
  \cup {[type |-> "add", token |-> t] : t \in (acceptable \cap {semi}) \cup {Error}}
=============================================================================
