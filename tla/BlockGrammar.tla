----------------------------- MODULE BlockGrammar -----------------------------
(***************************************************************************)
(* The tables of a declaration block of MapCSS, "{ k; k; }", and the       *)
(* delegate of -[OSPMapCSSParser parse:]: a grammar to run the parser of   *)
(* ParallelParse on.                                                       *)
(*                                                                         *)
(*   rule ::= '{' ds '}'     ds ::= ds d | d     d ::= key ';'             *)
(***************************************************************************)
EXTENDS ParallelParse

CONSTANTS
  open, close, key, semi,   \* names of tokens
  MaxLength,                \* bound on the declarations of a block
  Malformed                 \* any object that is not a part of a block

BlockRule == [name |-> "rule", size |-> 3]
MoreRule  == [name |-> "ds",   size |-> 2]
OneRule   == [name |-> "ds",   size |-> 1]
DeclRule  == [name |-> "d",    size |-> 2]

ShiftTo(s)  == [kind |-> "shift", to |-> s]
ReduceBy(r) == [kind |-> "reduce", rule |-> r]
AcceptIt    == [kind |-> "accept"]

BlockActions(s, t) ==
  CASE s = 0 /\ t = open                -> ShiftTo(2)
    [] s = 1 /\ t = EOF                 -> AcceptIt
    [] s \in {2, 3} /\ t = key          -> ShiftTo(5)
    [] s = 3 /\ t = close               -> ShiftTo(7)
    [] s = 4 /\ t \in {key, close}      -> ReduceBy(OneRule)
    [] s = 5 /\ t = semi                -> ShiftTo(6)
    [] s = 6 /\ t \in {key, close}      -> ReduceBy(DeclRule)
    [] s = 7 /\ t = EOF                 -> ReduceBy(BlockRule)
    [] s = 8 /\ t \in {key, close}      -> ReduceBy(MoreRule)
    [] OTHER                            -> NoAction

BlockGotos(s, n) ==
  CASE s = 0 /\ n = "rule" -> 1
    [] s = 2 /\ n = "ds"   -> 3
    [] s = 2 /\ n = "d"    -> 4
    [] s = 3 /\ n = "d"    -> 8
    [] OTHER               -> 0

\* The object of a subtree is the sequence of its tokens.
Decls(n) == [i \in 1..(2 * n) |-> IF \E j \in 1..n : i = 2 * j THEN semi ELSE key]
Block(n) == <<open>> \o Decls(n) \o <<close>>

DeclObjects  == { Decls(n) : n \in 1..MaxLength }
BlockObjects == DeclObjects \cup { Block(n) : n \in 1..MaxLength } \cup {Malformed}

BlockResult(rule, objects) ==
  CASE rule = DeclRule /\ objects = <<key, semi>> -> objects
    [] rule = OneRule /\ objects[1] \in DeclObjects -> objects[1]
    [] rule = MoreRule /\ {objects[1], objects[2]} \subseteq DeclObjects
         /\ objects[1] \o objects[2] \in DeclObjects -> objects[1] \o objects[2]
    [] rule = BlockRule /\ objects[1] = open /\ objects[2] \in DeclObjects
         /\ objects[3] = close -> <<open>> \o objects[2] \o <<close>>
    [] OTHER -> Malformed

\* -[OSPMapCSSParser parser:didEncounterErrorOnInput:expecting:]: supplies a
\* missing ';' before '}' and stops otherwise.  (It would supply a ',' before
\* '{' in a list of selectors, which no state of these tables accepts.)
OSPMapCSSRecovery(acceptable, head) ==
  IF head = close /\ semi \in acceptable
  THEN {[type |-> "add", token |-> semi]}
  ELSE {[type |-> "bail", token |-> Nil]}

\* The parser has these tables, and the tokens and objects are told apart.
BlockTables ==
  /\ {open, close, key, semi} \subseteq Token \ {EOF}
  /\ open # close /\ open # key /\ open # semi
  /\ close # key /\ close # semi /\ key # semi
  /\ NoAction # AcceptIt /\ NoAction \notin { ShiftTo(s) : s \in StateNum } \cup { ReduceBy(r) : r \in Rule }
  /\ StateNum = 0..8 /\ Rule = {BlockRule, MoreRule, OneRule, DeclRule}
  /\ \A s \in StateNum, t \in Token : ActionTable(s, t) = BlockActions(s, t)
  /\ \A s \in StateNum, r \in Rule : GotoTable(s, r.name) = BlockGotos(s, r.name)
  /\ Object = BlockObjects /\ Nil \notin Object
  /\ \A r \in Rule : \A objects \in [1..r.size -> Token \cup {Nil} \cup Object] :
       Result(r, objects) = BlockResult(r, objects)

\* ... and the parser's delegate is OSPMapCSSParser's.  As many tokens as may
\* be produced hold no more declarations than there are objects for.
BlockParse ==
  /\ BlockTables
  /\ MaxProduced \in Nat /\ MaxLength \in Nat /\ MaxProduced < 2 * MaxLength
  /\ \A acceptable \in SUBSET Token, head \in Token \cup {Nil} :
       Recovery(acceptable, head) = OSPMapCSSRecovery(acceptable, head)

-----------------------------------------------------------------------------
\* A block of n declarations, the last of which may lack its ';'.
Parses(ts) ==
  \E n \in 1..MaxLength :
    \/ ts = Block(n) \o <<EOF>>
    \/ ts = <<open>> \o Decls(n - 1) \o <<key, close, EOF>>

(* A parse in parallel with the tokeniser answers what the grammar says of *)
(* the whole text: an object exactly when the tokens are a block and EOF   *)
(* (the last ';' may be missing: the delegate supplies it), and the object *)
(* holds the tokens in their order.                                        *)
ParallelParseIsCorrect ==
  pcP = "returned" =>
    /\ result # Nil => Parses(produced) /\ \E n \in 1..MaxLength : result = Block(n)
    /\ Parses(produced) => result # Nil
===============================================================================
