---------------------------- MODULE ParallelParse ----------------------------
(***************************************************************************)
(* A CPTokeniser and a CPShiftReduceParser joined by a CPTokenStream, each *)
(* on a thread of its own: -[OSPMapCSSParser parse:] tokenises on a global *)
(* dispatch queue while the caller's thread parses.                        *)
(*                                                                         *)
(* Abstracted: a text is what the recognisers answer at each of its        *)
(* offsets; line and column numbers and error texts are left out; the      *)
(* object of a stack entry is whatever the parser's delegate builds        *)
(* (Result).                                                               *)
(***************************************************************************)
EXTENDS TokenStream

CONSTANTS
  EOF,             \* name of CPEOFToken
  Error,           \* name of CPErrorToken
  Inputs,          \* texts: text[p+1] = <<[token, len], ...>>, the recognisers'
                   \* matches at offset p, in the order of their priority
  NotFound,        \* NSNotFound, larger than the length of any text
  ErrorOffsets(_,_),  \* offsets tokeniser:didNotFindTokenOnInput: may answer for
                   \* a text and an offset; {} when the delegate lacks it
  MayReject,       \* the delegate implements tokeniser:shouldConsumeToken:
  Replacement(_),  \* the sequences the delegate may push for a token
  PushesArrays,    \* ... through tokeniser:willProduceToken: (pushTokens:), or at
                   \* most one token through ...requestsToken:pushedOntoStream:
  FinishToken,     \* what tokeniserWillFinish:stream: pushes, or Nil
  MaxProduced,     \* bound on the tokens produced
  StateNum,        \* states of the parser's tables, 0 the initial one
  ActionTable(_,_),\* ActionTable(s, name): [kind, to], [kind, rule], [kind] or NoAction
  GotoTable(_,_),  \* GotoTable(s, nonterminal), 0 where the table has no entry
  NoAction,
  Rule,            \* rules: [name, size], size the length of the right side
  Object,          \* objects of stack entries
  Result(_,_),     \* the object built for a rule and the objects of its right side
  Recovery(_,_)    \* answers of parser:didEncounterErrorOnInput:expecting: for
                   \* the acceptable names and the first token of the stream

\* Only the tokeniser itself produces EOF.
ASSUME TokenAssumption ==
  /\ EOF \in Token /\ Error \in Token /\ EOF # Error
  /\ FinishToken \in (Token \ {EOF}) \cup {Nil}
  /\ \A t \in Token \ {EOF} : Replacement(t) \subseteq Seq(Token \ {EOF})
  /\ PushesArrays \in BOOLEAN
  /\ ~PushesArrays => \A t \in Token \ {EOF} : \A ts \in Replacement(t) : Len(ts) <= 1

ASSUME TextAssumption ==
  /\ NotFound \in Nat
  /\ \A text \in Inputs :
       /\ Len(text) < NotFound
       /\ text \in Seq(Seq([token : Token \ {EOF}, len : Nat \ {0}]))
       /\ \A p \in 0..Len(text)-1 :
            /\ \A i \in 1..Len(text[p+1]) : p + text[p+1][i].len <= Len(text)
            /\ ErrorOffsets(text, p) \subseteq Nat

ASSUME TableAssumption ==
  /\ StateNum \subseteq Nat /\ 0 \in StateNum
  /\ \A s \in StateNum, t \in Token :
       LET a == ActionTable(s, t) IN
       a # NoAction => \/ a.kind = "shift" /\ a.to \in StateNum
                       \/ a.kind = "reduce" /\ a.rule \in Rule
                       \/ a.kind = "accept"
  /\ \A r \in Rule : r.size \in Nat
  /\ \A s \in StateNum, r \in Rule : GotoTable(s, r.name) \in StateNum
  /\ \A r \in Rule : \A objects \in [1..r.size -> Token \cup {Nil} \cup Object] :
       Result(r, objects) \in Object

VARIABLES
  \* the tokeniser's thread
  input,      \* the text
  offset,     \* currentTokenOffset
  pcT,        \* where the thread is
  produced,   \* history: every token pushed
  \* the parser's thread
  stack,         \* stateStack
  nextToken,     \* the token under consideration
  hasErrorToken, \* nextToken comes from a recovery action, not from the stream
  pcP,
  result,        \* what parse: returned
  consumed       \* history: every token popped

tokeniserVars == <<input, offset, pcT, produced>>
parserVars    == <<stack, nextToken, hasErrorToken, pcP, result, consumed>>
vars          == <<streamVars, tokeniserVars, parserVars>>

InputLength == Len(input)

-----------------------------------------------------------------------------
(* The tokeniser: -[CPTokeniser tokenise:into:].                           *)

\* addToken:toStream: - the delegate may replace the token by others.
AddToken(token) ==
  \E ts \in Replacement(token) :
    /\ Len(produced) + Len(ts) <= MaxProduced
    /\ IF PushesArrays THEN PushTokens(ts)
       ELSE IF ts = <<>> THEN UNCHANGED streamVars
       ELSE PushToken(Head(ts))
    /\ produced' = produced \o ts

Matches == input[offset + 1]

\* A recogniser matches and the delegate takes its token; it may have
\* turned down those of the recognisers before it.
Recognise ==
  /\ pcT = "scan" /\ offset < InputLength
  /\ \E i \in 1..Len(Matches) :
       /\ i = 1 \/ MayReject
       /\ AddToken(Matches[i].token)
       /\ offset' = offset + Matches[i].len
  /\ UNCHANGED <<input, pcT, parserVars>>

NotRecognised ==
  pcT = "scan" /\ offset < InputLength /\ (Matches = <<>> \/ MayReject)

\* No token at this offset: the delegate says where to go on, NotFound to stop.
HandleError ==
  /\ NotRecognised
  /\ \E newOffset \in ErrorOffsets(input, offset) :
       /\ offset' = newOffset
       /\ AddToken(Error)
       /\ pcT' = IF newOffset = NotFound THEN "break" ELSE "scan"
  /\ UNCHANGED <<input, parserVars>>

\* ... and without such a delegate the tokeniser gives up where it is.
GiveUp ==
  /\ NotRecognised
  /\ ErrorOffsets(input, offset) = {}
  /\ AddToken(Error)
  /\ pcT' = "break"
  /\ UNCHANGED <<input, offset, parserVars>>

\* Mutant: off by one.
LoopEndedLate == pcT = "break" \/ (pcT = "scan" /\ InputLength < offset)

LoopEnded == pcT = "break" \/ (pcT = "scan" /\ InputLength <= offset)

WillFinish ==
  /\ LoopEnded /\ InputLength <= offset
  /\ IF FinishToken = Nil
     THEN UNCHANGED <<streamVars, produced>>
     ELSE PushToken(FinishToken) /\ produced' = Append(produced, FinishToken)
  /\ pcT' = "eof"
  /\ UNCHANGED <<input, offset, parserVars>>

\* Mutant: the delegate's last token comes after the EOF.
PushEOFBeforeLast ==
  /\ pcT = "eof"
  /\ PushTokens(<<EOF, FinishToken>>) /\ produced' = produced \o <<EOF, FinishToken>>
  /\ pcT' = "close"
  /\ UNCHANGED <<input, offset, parserVars>>

PushEOF ==
  /\ pcT = "eof"
  /\ PushToken(EOF) /\ produced' = Append(produced, EOF)
  /\ pcT' = "close"
  /\ UNCHANGED <<input, offset, parserVars>>

Close ==
  /\ pcT = "close" \/ (LoopEnded /\ offset < InputLength)
  /\ CloseTokenStream
  /\ pcT' = "done"
  /\ UNCHANGED <<input, offset, produced, parserVars>>

Tokeniser == Recognise \/ HandleError \/ GiveUp \/ WillFinish \/ PushEOF \/ Close

-----------------------------------------------------------------------------
(* The parser: -[CPShiftReduceParser parse:].                              *)

\* The state of [stateStack lastObject]; messages to nil answer 0.
TopState == IF stack = <<>> THEN 0 ELSE stack[Len(stack)].state

Action == IF nextToken = Nil THEN NoAction ELSE ActionTable(TopState, nextToken)

AcceptableTokenNames == {t \in Token : ActionTable(TopState, t) # NoAction}

\* The blocking peekToken at the start and after every pop or shift.
Peek ==
  /\ pcP = "peek"
  /\ PeekToken
  /\ nextToken' = FirstToken
  /\ hasErrorToken' = FALSE
  /\ pcP' = "act"
  /\ UNCHANGED <<stack, result, consumed, tokeniserVars>>

\* Mutant: the array is not asked for its count.
PopUnchecked ==
  /\ pcP = "pop"
  /\ PopToken
  /\ consumed' = Append(consumed, FirstToken)
  /\ pcP' = "peek"
  /\ UNCHANGED <<stack, nextToken, hasErrorToken, result, tokeniserVars>>

\* The popToken of a shift, or of a recovery that removes the token.
Pop ==
  /\ pcP = "pop"
  /\ PopToken
  /\ consumed' = IF tokens = <<>> THEN consumed ELSE Append(consumed, Head(tokens))
  /\ pcP' = "peek"
  /\ UNCHANGED <<stack, nextToken, hasErrorToken, result, tokeniserVars>>

\* Mutant: shifting an inserted token takes one from the stream too.
ShiftAndPop ==
  /\ pcP = "act" /\ Action # NoAction /\ Action.kind = "shift"
  /\ stack' = Append(stack, [object |-> nextToken, state |-> Action.to])
  /\ pcP' = "pop"
  /\ UNCHANGED <<nextToken, hasErrorToken, result, consumed, streamVars, tokeniserVars>>

Shift ==
  /\ pcP = "act" /\ Action # NoAction /\ Action.kind = "shift"
  /\ stack' = Append(stack, [object |-> nextToken, state |-> Action.to])
  /\ pcP' = IF hasErrorToken THEN "peek" ELSE "pop"
  /\ UNCHANGED <<nextToken, hasErrorToken, result, consumed, streamVars, tokeniserVars>>

Reduce ==
  /\ pcP = "act" /\ Action # NoAction /\ Action.kind = "reduce"
  /\ Action.rule.size <= Len(stack)   \* (true of tables built from a grammar)
  /\ LET rule     == Action.rule
         below    == SubSeq(stack, 1, Len(stack) - rule.size)
         right    == SubSeq(stack, Len(stack) - rule.size + 1, Len(stack))
         state    == IF below = <<>> THEN 0 ELSE below[Len(below)].state
     IN stack' = Append(below,
                   [object |-> Result(rule, [i \in 1..rule.size |-> right[i].object]),
                    state  |-> GotoTable(state, rule.name)])
  /\ UNCHANGED <<nextToken, hasErrorToken, pcP, result, consumed, streamVars, tokeniserVars>>

Return(value) ==
  /\ pcP' = "returned"
  /\ result' = value
  /\ UNCHANGED <<stack, nextToken, hasErrorToken, consumed, streamVars, tokeniserVars>>

Accept ==
  /\ pcP = "act" /\ Action # NoAction /\ Action.kind = "accept"
  /\ Return(IF stack = <<>> THEN Nil ELSE stack[Len(stack)].object)

\* error:expecting: - the delegate (or the default, which only logs) looks at
\* the stream with peekToken, which would block if it were not Available.
Recovers(type, token) ==
  /\ pcP = "act" /\ Action = NoAction
  /\ condition = Available
  /\ [type |-> type, token |-> token] \in Recovery(AcceptableTokenNames, FirstToken)

\* No recovery action on an error token: unwind to a rule that takes it.
Unwind ==
  /\ Recovers("none", Nil)
  /\ nextToken = Error /\ stack # <<>>
  /\ stack' = SubSeq(stack, 1, Len(stack) - 1)
  /\ UNCHANGED <<nextToken, hasErrorToken, pcP, result, consumed, streamVars, tokeniserVars>>

GiveUpParse ==
  /\ Recovers("none", Nil)
  /\ nextToken # Error \/ stack = <<>>
  /\ Return(Nil)

\* Mutant: the inserted token passes for one of the stream.
AddUnmarked ==
  /\ \E token \in Token : Recovers("add", token) /\ nextToken' = token
  /\ UNCHANGED <<stack, hasErrorToken, pcP, result, consumed, streamVars, tokeniserVars>>

RecoverByAdding ==
  /\ \E token \in Token : Recovers("add", token) /\ nextToken' = token
  /\ hasErrorToken' = TRUE
  /\ UNCHANGED <<stack, pcP, result, consumed, streamVars, tokeniserVars>>

RecoverByRemoving ==
  /\ Recovers("remove", Nil)
  /\ pcP' = "pop"
  /\ UNCHANGED <<stack, nextToken, hasErrorToken, result, consumed, streamVars, tokeniserVars>>

Bail ==
  /\ Recovers("bail", Nil)
  /\ Return(Nil)

Recover == Unwind \/ GiveUpParse \/ RecoverByAdding \/ RecoverByRemoving \/ Bail

Parser == Peek \/ Pop \/ Shift \/ Reduce \/ Accept \/ Recover

-----------------------------------------------------------------------------
Init ==
  /\ StreamInit(<<>>)
  /\ input \in Inputs
  /\ offset = 0 /\ pcT = "scan" /\ produced = <<>>
  /\ stack = <<[object |-> Nil, state |-> 0]>>
  /\ nextToken = Nil /\ hasErrorToken = FALSE
  /\ pcP = "peek" /\ result = Nil /\ consumed = <<>>

Next == Tokeniser \/ Parser

Spec == Init /\ [][Next]_vars

\* Both threads are scheduled: the dispatch queue's and the caller's.
FairSpec == Spec /\ WF_vars(Tokeniser) /\ WF_vars(Parser)

-----------------------------------------------------------------------------
Entry == [object : Token \cup {Nil} \cup Object, state : StateNum]

TypeOK ==
  /\ StreamTypeOK
  /\ input \in Inputs
  /\ offset \in Nat
  /\ pcT \in {"scan", "break", "eof", "close", "done"}
  /\ produced \in Seq(Token)
  /\ stack \in Seq(Entry)
  /\ nextToken \in Token \cup {Nil}
  /\ hasErrorToken \in BOOLEAN
  /\ pcP \in {"peek", "act", "pop", "returned"}
  /\ result \in Token \cup {Nil} \cup Object
  /\ consumed \in Seq(Token)

(* No token is lost, duplicated or reordered between the two threads: what *)
(* the parser has popped followed by what the stream holds is what the     *)
(* tokeniser has pushed.                                                   *)
Fifo == produced = consumed \o tokens

(* While the parser weighs a token it has only peeked at, the stream still *)
(* starts with it, although the other thread goes on pushing; and the peek *)
(* of the error report and the pop after a shift cannot block.             *)
PeekedTokenStays ==
  /\ pcP \in {"act", "pop"} => condition = Available
  /\ pcP = "act" /\ ~hasErrorToken => nextToken = FirstToken

(* What the parser takes for the end of the tokens is their end, though the *)
(* other thread decides on it: behind an EOF that it weighs or has taken    *)
(* there is nothing and the tokeniser, its delegate's last token included,  *)
(* adds nothing; and a stream that is only empty for the moment does not    *)
(* pass for a closed one.  (Whether the text was all tokenised is another   *)
(* matter: see EOFMeansTokenised.)                                          *)
EndIsFinal ==
  /\ \A i \in 1..Len(produced) :
       produced[i] = EOF => i = Len(produced) /\ pcT \in {"close", "done"}
  /\ pcP = "act" /\ ~hasErrorToken =>
       /\ nextToken = EOF => tokens = <<EOF>>
       /\ nextToken = Nil => isClosed /\ consumed = produced

(* CPTokeniser.h:173: "If the entire input is tokenised a CPEOFToken is     *)
(* added to the end of the result token stream.  If not, the token stream   *)
(* ends with no EOF token."  A delegate that stops the tokeniser answers    *)
(* NSNotFound, which passes CPTokeniser.m:185 as an offset beyond the text. *)
EOFMeansTokenised == (\E i \in 1..Len(produced) : produced[i] = EOF) => offset <= InputLength

(* parse: returns, whatever the tokeniser meets: the parser is not left    *)
(* waiting for a token that never comes.                                   *)
ParserReturns == <>(pcP = "returned")

(* CPTokenStream.h:51 says of peekToken: "This method will not block       *)
(* waiting for a token to become available."                               *)
PeekNeverBlocks == pcP = "peek" => condition = Available

(* CPTokeniser.h:62 asks the delegate for "a new location in the input     *)
(* stream to start tokenising from again": after an error the tokeniser    *)
(* goes on to the right of it, and no text is tokenised twice.             *)
ErrorsAreSkipped == [][offset' >= offset]_vars

(* The tokeniser reaches the end of every text and closes the stream.      *)
StreamIsClosed == <>isClosed

=============================================================================
