------------------------ MODULE ParallelParse_proofs ------------------------
(***************************************************************************)
(* Proofs about ParallelParse, for every text, table and delegate; and for *)
(* the tables of BlockGrammar, that the parse in parallel is correct.      *)
(***************************************************************************)
EXTENDS BlockGrammar, SequenceTheorems, TLAPS

-----------------------------------------------------------------------------
(* The inductive invariant.                                                *)

\* Where the tokeniser stands, and whether it announced the end of the text.
HasNoEOF(s) == \A i \in 1..Len(s) : s[i] # EOF
EndsWithEOF == /\ produced # <<>> /\ produced[Len(produced)] = EOF
               /\ \A i \in 1..Len(produced) - 1 : produced[i] # EOF

EOFInv ==
  /\ isClosed <=> pcT = "done"
  /\ pcT \in {"scan", "break", "eof"} => HasNoEOF(produced)
  /\ pcT \in {"eof", "close"} => InputLength <= offset
  /\ pcT = "close" => EndsWithEOF
  /\ pcT = "done" => \/ InputLength <= offset /\ EndsWithEOF
                     \/ offset < InputLength /\ HasNoEOF(produced)

StreamInv == ConditionMatchesContents /\ Fifo

IInv == TypeOK /\ StreamInv /\ PeekedTokenStays /\ EOFInv

-----------------------------------------------------------------------------
(* The tokeniser appends to the stream and to the history alike.           *)
Grows(ts) ==
  /\ tokens' = tokens \o ts
  /\ produced' = produced \o ts
  /\ isClosed' = isClosed
  /\ condition' = IF isClosed \/ tokens' # <<>> THEN Available ELSE Unavailable

(* addToken:toStream: appends what the delegate made of the token, and     *)
(* leaves the lock in the condition that fits.                             *)
LEMMA AddTokenGrows ==
  ASSUME TypeOK, ConditionMatchesContents, NEW token \in Token \ {EOF}, AddToken(token)
  PROVE  \E ts \in Seq(Token \ {EOF}) : Grows(ts)
<1>1. PICK ts \in Replacement(token) :
        /\ IF PushesArrays THEN PushTokens(ts)
           ELSE IF ts = <<>> THEN UNCHANGED streamVars
           ELSE PushToken(Head(ts))
        /\ produced' = produced \o ts
  BY DEF AddToken
<1>2. ts \in Seq(Token \ {EOF})
  BY TokenAssumption
<1>3. Grows(ts)
  <2>1. CASE PushesArrays
    BY <1>1, <2>1 DEF PushTokens, Grows, UnlockCondition
  <2>2. CASE ~PushesArrays /\ ts = <<>>
    <3>1. tokens \o <<>> = tokens
      BY ConcatEmptySeq DEF TypeOK, StreamTypeOK
    <3>2. QED
      BY <1>1, <2>2, <3>1 DEF Grows, streamVars, ConditionMatchesContents, TypeOK, StreamTypeOK,
         Available, Unavailable
  <2>3. CASE ~PushesArrays /\ ts # <<>>
    <3>1. Len(ts) = 1
      <4>1. Len(ts) <= 1
        BY <1>1, <2>3, TokenAssumption
      <4>2. Len(ts) \in Nat \ {0}
        BY <1>2, <2>3, EmptySeq
      <4>3. \A n \in Nat \ {0} : n <= 1 => n = 1
        OBVIOUS
      <4>4. QED
        BY <4>1, <4>2, <4>3
    <3>1a. ts = <<Head(ts)>> /\ Head(ts) \in Token
      BY <1>2, <3>1
    <3>2. Append(tokens, Head(ts)) = tokens \o ts
      BY <3>1a, AppendIsConcat DEF TypeOK, StreamTypeOK
    <3>3. Append(tokens, Head(ts)) # <<>>
      BY <3>1a, AppendProperties DEF TypeOK, StreamTypeOK
    <3>4. QED
      BY <1>1, <2>3, <3>2, <3>3 DEF PushToken, Grows
  <2>4. QED
    BY <2>1, <2>2, <2>3
<1>4. QED
  BY <1>2, <1>3

(* A push of a token grows the stream by it.                               *)
LEMMA PushTokenGrows ==
  ASSUME TypeOK, NEW token \in Token, PushToken(token), produced' = Append(produced, token)
  PROVE  Grows(<<token>>)
<1>1. Append(tokens, token) = tokens \o <<token>> /\ Append(tokens, token) # <<>>
  BY AppendIsConcat, AppendProperties DEF TypeOK, StreamTypeOK
<1>2. Append(produced, token) = produced \o <<token>>
  BY AppendIsConcat DEF TypeOK
<1>3. QED
  BY <1>1, <1>2 DEF PushToken, Grows

(* Growth keeps the order, the lock condition and the head of the stream.  *)
LEMMA GrowsKeepsStream ==
  ASSUME TypeOK, StreamInv, NEW ts \in Seq(Token), Grows(ts), UNCHANGED consumed
  PROVE  /\ StreamTypeOK' /\ produced' \in Seq(Token) /\ StreamInv'
         /\ condition = Available => condition' = Available
         /\ condition = Available /\ ~isClosed => FirstToken' = FirstToken
<1>1. /\ tokens \in Seq(Token) /\ produced \in Seq(Token) /\ consumed \in Seq(Token)
      /\ isClosed \in BOOLEAN
  BY DEF TypeOK, StreamTypeOK
<1>2. tokens' \in Seq(Token) /\ produced' \in Seq(Token)
  BY <1>1, ConcatProperties DEF Grows
<1>3. StreamTypeOK'
  BY <1>1, <1>2 DEF Grows, StreamTypeOK, Available, Unavailable
<1>4. ConditionMatchesContents'
  BY DEF Grows, ConditionMatchesContents, Available, Unavailable
<1>5. Fifo'
  <2>1. produced' = (consumed \o tokens) \o ts
    BY DEF Grows, StreamInv, Fifo
  <2>2. (consumed \o tokens) \o ts = consumed \o (tokens \o ts)
    BY ONLY <1>1, ts \in Seq(Token), ConcatAssociative
  <2>3. QED
    BY <2>1, <2>2 DEF Grows, Fifo
<1>6. tokens # <<>> => tokens' # <<>> /\ Head(tokens') = Head(tokens)
  BY <1>1 DEF Grows
<1>7. condition = Available <=> (isClosed \/ tokens # <<>>)
  BY DEF StreamInv, ConditionMatchesContents
<1>8. condition = Available => condition' = Available
  BY <1>6, <1>7 DEF Grows
<1>9. condition = Available /\ ~isClosed => FirstToken' = FirstToken
  BY <1>6, <1>7 DEF FirstToken
<1>10. QED
  BY <1>2, <1>3, <1>4, <1>5, <1>8, <1>9 DEF StreamInv

(* What the delegate replaces a token by has no EOF.                       *)
LEMMA GrowsWithoutEOF ==
  ASSUME TypeOK, HasNoEOF(produced), NEW ts \in Seq(Token \ {EOF}), Grows(ts)
  PROVE  ts \in Seq(Token) /\ HasNoEOF(produced')
<1>1. ts \in Seq(Token)
  OBVIOUS
<1>2. \A i \in 1..Len(ts) : ts[i] # EOF
  OBVIOUS
<1>3. produced \in Seq(Token)
  BY DEF TypeOK
<1>4. Len(produced) \in Nat /\ Len(ts) \in Nat
  BY <1>1, <1>3, LenProperties
<1>5. \A i \in 1..Len(produced \o ts) : (produced \o ts)[i] # EOF
  BY <1>1, <1>2, <1>3, <1>4, ConcatProperties DEF HasNoEOF
<1>6. QED
  BY <1>1, <1>5 DEF Grows, HasNoEOF

(* A step of the tokeniser that appends keeps all but its own part of the  *)
(* invariant.                                                              *)
LEMMA AppendingStep ==
  ASSUME IInv, ~isClosed, NEW ts \in Seq(Token), Grows(ts), UNCHANGED parserVars
  PROVE  /\ StreamTypeOK' /\ produced' \in Seq(Token) /\ StreamInv' /\ PeekedTokenStays'
         /\ isClosed' = isClosed
<1>1. UNCHANGED <<consumed, pcP, hasErrorToken, nextToken>>
  BY DEF parserVars
<1>2. /\ StreamTypeOK' /\ produced' \in Seq(Token) /\ StreamInv'
      /\ condition = Available => condition' = Available
      /\ condition = Available /\ ~isClosed => FirstToken' = FirstToken
  BY <1>1, GrowsKeepsStream DEF IInv
<1>3. PeekedTokenStays'
  BY <1>1, <1>2 DEF IInv, PeekedTokenStays
<1>4. QED
  BY <1>2, <1>3 DEF Grows

(* The tables answer what the parser can use.                              *)
LEMMA MatchIsToken ==
  ASSUME TypeOK, offset < InputLength, NEW i \in 1..Len(Matches)
  PROVE  Matches[i].token \in Token \ {EOF} /\ Matches[i].len \in Nat \ {0}
<1>1. input \in Seq(Seq([token : Token \ {EOF}, len : Nat \ {0}])) /\ offset \in Nat
  BY TextAssumption DEF TypeOK
<1>2. offset + 1 \in 1..Len(input)
  BY <1>1 DEF InputLength
<1>3. Matches \in Seq([token : Token \ {EOF}, len : Nat \ {0}])
  BY <1>1, <1>2 DEF Matches
<1>4. Matches[i] \in [token : Token \ {EOF}, len : Nat \ {0}]
  BY <1>3, ElementOfSeq
<1>5. QED
  BY <1>4

(* The state the parser is in is one of the table's.                       *)
LEMMA TopStateInStates ==
  ASSUME TypeOK
  PROVE  TopState \in StateNum
<1>1. CASE stack = <<>>
  BY <1>1, TableAssumption DEF TopState
<1>2. CASE stack # <<>>
  <2>1. stack[Len(stack)] \in Entry
    BY <1>2, EmptySeq DEF TypeOK
  <2>2. QED
    BY <1>2, <2>1 DEF TopState, Entry
<1>3. QED
  BY <1>1, <1>2

(* What the table answers is an entry for a token.                         *)
LEMMA ActionIsEntry ==
  ASSUME TypeOK, Action # NoAction
  PROVE  /\ nextToken \in Token
         /\ Action.kind = "shift" => Action.to \in StateNum
         /\ Action.kind = "reduce" => Action.rule \in Rule
<1>1. nextToken \in Token /\ Action = ActionTable(TopState, nextToken)
  BY DEF Action, TypeOK
<1>2. TopState \in StateNum
  BY TopStateInStates
<1>3. \/ Action.kind = "shift" /\ Action.to \in StateNum
      \/ Action.kind = "reduce" /\ Action.rule \in Rule
      \/ Action.kind = "accept"
  BY <1>1, <1>2, TableAssumption
<1>4. QED
  BY <1>1, <1>3

-----------------------------------------------------------------------------
(* A parse starts with an empty open stream.                               *)
LEMMA InvInit == Init => IInv
<1> SUFFICES ASSUME Init PROVE IInv
  OBVIOUS
<1>1. TypeOK
  <2>1. <<>> \in Seq(Token)
    OBVIOUS
  <2>2. [object |-> Nil, state |-> 0] \in Entry
    BY TableAssumption DEF Entry
  <2>3. stack \in Seq(Entry)
    BY <2>2 DEF Init
  <2>4. QED
    BY <2>1, <2>3 DEF Init, TypeOK, StreamInit, StreamTypeOK, UnlockCondition, Available, Unavailable
<1>2. StreamInv
  BY DEF Init, StreamInit, UnlockCondition, StreamInv, ConditionMatchesContents, Fifo,
     Available, Unavailable
<1>3. PeekedTokenStays /\ EOFInv
  BY DEF Init, StreamInit, PeekedTokenStays, EOFInv, HasNoEOF
<1>4. QED
  BY <1>1, <1>2, <1>3 DEF IInv

(* The tokeniser's steps.                                                  *)
LEMMA InvTokeniser == IInv /\ Tokeniser => IInv'
<1> SUFFICES ASSUME IInv, Tokeniser PROVE IInv'
  OBVIOUS
<1> USE DEF InputLength
<1>1. TypeOK /\ StreamInv /\ PeekedTokenStays /\ EOFInv /\ ConditionMatchesContents
  BY DEF IInv, StreamInv
<1>2. /\ input \in Inputs /\ Len(input) \in Nat /\ offset \in Nat
      /\ offset < Len(input) => ErrorOffsets(input, offset) \subseteq Nat
      /\ \A o \in Nat : o < Len(input) => ErrorOffsets(input, o) \subseteq Nat
  <2>1. input \in Inputs /\ offset \in Nat
    BY <1>1 DEF TypeOK
  <2>2. Len(input) \in Nat
    BY <2>1, TextAssumption, LenProperties
  <2>3. \A o \in Nat : o < Len(input) => o \in 0..Len(input)-1
    BY <2>2
  <2>4. QED
    BY <2>1, <2>2, <2>3, TextAssumption
<1>3. \A ts : Grows(ts) /\ ts \in Seq(Token) /\ ~isClosed /\ UNCHANGED parserVars =>
        /\ StreamTypeOK' /\ produced' \in Seq(Token) /\ StreamInv' /\ PeekedTokenStays'
        /\ isClosed' = isClosed
  BY AppendingStep
<1>4. CASE Recognise
  <2>1. pcT = "scan" /\ offset < Len(input) /\ UNCHANGED <<input, pcT>> /\ UNCHANGED parserVars
    BY <1>4 DEF Recognise
  <2>2. PICK i \in 1..Len(Matches) :
          AddToken(Matches[i].token) /\ offset' = offset + Matches[i].len
    BY <1>4 DEF Recognise
  <2>3. Matches[i].token \in Token \ {EOF} /\ Matches[i].len \in Nat \ {0}
    BY <1>1, <2>1, MatchIsToken
  <2>4. PICK ts \in Seq(Token \ {EOF}) : Grows(ts)
    BY <1>1, <2>2, <2>3, AddTokenGrows
  <2>5. ~isClosed /\ HasNoEOF(produced)
    BY <1>1, <2>1 DEF EOFInv
  <2>6. ts \in Seq(Token) /\ HasNoEOF(produced')
    BY <1>1, <2>4, <2>5, GrowsWithoutEOF
  <2>7. StreamTypeOK' /\ produced' \in Seq(Token) /\ StreamInv' /\ PeekedTokenStays' /\ ~isClosed'
    BY <1>3, <2>1, <2>4, <2>5, <2>6
  <2>8. offset' \in Nat
    BY <1>2, <2>2, <2>3
  <2>9. TypeOK'
    BY <1>1, <2>1, <2>7, <2>8 DEF TypeOK, parserVars
  <2>10. EOFInv'
    BY <2>1, <2>6, <2>7 DEF EOFInv, HasNoEOF
  <2>11. QED
    BY <2>7, <2>9, <2>10 DEF IInv
<1>5. CASE HandleError \/ GiveUp
  <2>1. /\ pcT = "scan" /\ offset < Len(input) /\ UNCHANGED input /\ UNCHANGED parserVars
        /\ AddToken(Error)
        /\ pcT' \in {"scan", "break"}
    BY <1>5 DEF HandleError, GiveUp, NotRecognised
  <2>2. offset' \in Nat
    BY <1>2, <1>5, <2>1 DEF HandleError, GiveUp
  <2>3. PICK ts \in Seq(Token \ {EOF}) : Grows(ts)
    BY <1>1, <2>1, AddTokenGrows, TokenAssumption
  <2>4. ~isClosed /\ HasNoEOF(produced)
    BY <1>1, <2>1 DEF EOFInv
  <2>5. ts \in Seq(Token) /\ HasNoEOF(produced')
    BY <1>1, <2>3, <2>4, GrowsWithoutEOF
  <2>6. StreamTypeOK' /\ produced' \in Seq(Token) /\ StreamInv' /\ PeekedTokenStays' /\ ~isClosed'
    BY <1>3, <2>1, <2>3, <2>4, <2>5
  <2>7. TypeOK'
    BY <1>1, <2>1, <2>2, <2>6 DEF TypeOK, parserVars
  <2>8. EOFInv'
    BY <2>1, <2>5, <2>6 DEF EOFInv, HasNoEOF
  <2>9. QED
    BY <2>6, <2>7, <2>8 DEF IInv
<1>6. CASE WillFinish
  <2>1. /\ pcT \in {"scan", "break"} /\ Len(input) <= offset /\ pcT' = "eof"
        /\ UNCHANGED <<input, offset>> /\ UNCHANGED parserVars
    BY <1>6 DEF WillFinish, LoopEnded
  <2>2. ~isClosed /\ HasNoEOF(produced)
    BY <1>1, <2>1 DEF EOFInv
  <2>3. PICK ts \in Seq(Token \ {EOF}) : Grows(ts)
    <3>1. CASE FinishToken = Nil
      <4>1. tokens \o <<>> = tokens /\ produced \o <<>> = produced
        BY <1>1, ConcatEmptySeq DEF TypeOK, StreamTypeOK
      <4>2. Grows(<<>>)
        BY <1>1, <1>6, <3>1, <4>1 DEF WillFinish, Grows, streamVars, ConditionMatchesContents,
           TypeOK, StreamTypeOK, Available, Unavailable
      <4>3. <<>> \in Seq(Token \ {EOF})
        OBVIOUS
      <4>4. QED
        BY <4>2, <4>3
    <3>2. CASE FinishToken # Nil
      <4>1. FinishToken \in Token \ {EOF}
        BY <3>2, TokenAssumption
      <4>2. Grows(<<FinishToken>>)
        BY <1>1, <1>6, <3>2, <4>1, PushTokenGrows DEF WillFinish
      <4>3. <<FinishToken>> \in Seq(Token \ {EOF})
        BY <4>1
      <4>4. QED
        BY <4>2, <4>3
    <3>3. QED
      BY <3>1, <3>2
  <2>4. ts \in Seq(Token) /\ HasNoEOF(produced')
    BY <1>1, <2>2, <2>3, GrowsWithoutEOF
  <2>5. StreamTypeOK' /\ produced' \in Seq(Token) /\ StreamInv' /\ PeekedTokenStays' /\ ~isClosed'
    BY <1>3, <2>1, <2>2, <2>3, <2>4
  <2>6. TypeOK'
    BY <1>1, <2>1, <2>5 DEF TypeOK, parserVars
  <2>7. EOFInv'
    BY <2>1, <2>4, <2>5 DEF EOFInv, HasNoEOF
  <2>8. QED
    BY <2>5, <2>6, <2>7 DEF IInv
<1>7. CASE PushEOF
  <2>1. /\ pcT = "eof" /\ pcT' = "close" /\ PushToken(EOF) /\ produced' = Append(produced, EOF)
        /\ UNCHANGED <<input, offset>> /\ UNCHANGED parserVars
    BY <1>7 DEF PushEOF
  <2>2. ~isClosed /\ HasNoEOF(produced) /\ Len(input) <= offset
    BY <1>1, <2>1 DEF EOFInv
  <2>3. Grows(<<EOF>>) /\ <<EOF>> \in Seq(Token)
    BY <1>1, <2>1, PushTokenGrows, TokenAssumption
  <2>4. StreamTypeOK' /\ produced' \in Seq(Token) /\ StreamInv' /\ PeekedTokenStays' /\ ~isClosed'
    BY <1>3, <2>1, <2>2, <2>3
  <2>5. EndsWithEOF'
    <3>1. produced \in Seq(Token) /\ EOF \in Token
      BY <1>1, TokenAssumption DEF TypeOK
    <3>2. /\ Len(produced) \in Nat
          /\ produced' # <<>> /\ Len(produced') = Len(produced) + 1
          /\ \A i \in 1..Len(produced) : produced'[i] = produced[i]
          /\ produced'[Len(produced) + 1] = EOF
      BY <2>1, <3>1, AppendProperties, LenProperties
    <3>3. QED
      BY <2>2, <3>2 DEF EndsWithEOF, HasNoEOF
  <2>6. TypeOK'
    BY <1>1, <2>1, <2>4 DEF TypeOK, parserVars
  <2>7. EOFInv'
    BY <2>1, <2>2, <2>4, <2>5 DEF EOFInv
  <2>8. QED
    BY <2>4, <2>6, <2>7 DEF IInv
<1>8. CASE Close
  <2>1. /\ pcT' = "done" /\ CloseTokenStream /\ UNCHANGED <<input, offset, produced>>
        /\ UNCHANGED parserVars
        /\ pcT = "close" \/ (pcT \in {"scan", "break"} /\ offset < Len(input))
    BY <1>8 DEF Close, LoopEnded
  <2>2. UNCHANGED <<tokens, consumed, pcP, hasErrorToken, nextToken>> /\ FirstToken' = FirstToken
    BY <2>1 DEF CloseTokenStream, parserVars, FirstToken
  <2>3. TypeOK'
    BY <1>1, <2>1 DEF CloseTokenStream, TypeOK, StreamTypeOK, parserVars, Available, Unavailable
  <2>4. StreamInv'
    BY <1>1, <2>1, <2>2 DEF CloseTokenStream, StreamInv, ConditionMatchesContents, Fifo
  <2>5. PeekedTokenStays'
    BY <1>1, <2>1, <2>2 DEF CloseTokenStream, PeekedTokenStays
  <2>6. EOFInv'
    BY <1>1, <2>1 DEF CloseTokenStream, EOFInv, HasNoEOF, EndsWithEOF
  <2>7. QED
    BY <2>3, <2>4, <2>5, <2>6 DEF IInv
<1>9. QED
  BY <1>4, <1>5, <1>6, <1>7, <1>8 DEF Tokeniser

(* The entries that a reduction takes off the top of the stack.            *)
LEMMA TopOfStack ==
  ASSUME NEW S, NEW s \in Seq(S), NEW n \in Nat, n <= Len(s), NEW i \in 1..n
  PROVE  SubSeq(s, Len(s) - n + 1, Len(s))[i] \in S
<1>1. Len(s) \in Nat
  BY LenProperties
<1> DEFINE m == Len(s) - n + 1
<1>2. m \in Int /\ Len(s) \in Int /\ \A j \in m..Len(s) : j \in 1..Len(s)
  BY <1>1
<1>3. \A j \in m..Len(s) : s[j] \in S
  BY <1>2, ElementOfSeq
<1>4. i \in 1..Len(s) - m + 1 /\ m + i - 1 \in m..Len(s)
  BY <1>1
<1> HIDE DEF m
<1>5. SubSeq(s, m, Len(s))[i] = s[m + i - 1]
  BY <1>2, <1>3, <1>4, SubSeqProperties
<1>6. QED
  BY <1>3, <1>4, <1>5 DEF m

(* The parser's steps.  Those that leave the stream alone keep the         *)
(* stream's part of the invariant and the tokeniser's.                     *)
LEMMA InvParser == IInv /\ Parser => IInv'
<1> SUFFICES ASSUME IInv, Parser PROVE IInv'
  OBVIOUS
<1>1. TypeOK /\ StreamInv /\ PeekedTokenStays /\ EOFInv /\ ConditionMatchesContents
  BY DEF IInv, StreamInv
<1>2. /\ tokens \in Seq(Token) /\ consumed \in Seq(Token) /\ stack \in Seq(Entry)
      /\ Len(stack) \in Nat
  BY <1>1, LenProperties DEF TypeOK, StreamTypeOK
<1>3. ASSUME UNCHANGED streamVars, UNCHANGED tokeniserVars, UNCHANGED consumed
      PROVE  StreamInv' /\ EOFInv' /\ FirstToken' = FirstToken
  BY <1>1, <1>3 DEF streamVars, tokeniserVars, StreamInv, ConditionMatchesContents, Fifo, EOFInv,
     HasNoEOF, EndsWithEOF, InputLength, FirstToken
<1>4. CASE Peek
  <2>1. /\ condition = Available /\ UNCHANGED streamVars /\ UNCHANGED tokeniserVars
        /\ nextToken' = FirstToken /\ hasErrorToken' = FALSE /\ pcP' = "act"
        /\ UNCHANGED <<stack, result, consumed>>
    BY <1>4 DEF Peek, PeekToken, streamVars
  <2>2. FirstToken \in Token \cup {Nil}
    BY <1>2, HeadTailProperties DEF FirstToken
  <2>3. TypeOK'
    BY <1>1, <2>1, <2>2 DEF TypeOK, StreamTypeOK, streamVars, tokeniserVars
  <2>4. StreamInv' /\ EOFInv' /\ FirstToken' = FirstToken
    BY <1>3, <2>1
  <2>5. PeekedTokenStays'
    BY <2>1, <2>4 DEF PeekedTokenStays, streamVars
  <2>6. QED
    BY <2>3, <2>4, <2>5 DEF IInv
<1>5. CASE Pop
  <2>1. /\ PopToken /\ UNCHANGED tokeniserVars /\ pcP' = "peek"
        /\ consumed' = IF tokens = <<>> THEN consumed ELSE Append(consumed, Head(tokens))
        /\ UNCHANGED <<stack, nextToken, hasErrorToken, result>>
    BY <1>5 DEF Pop
  <2>2. CASE tokens = <<>>
    <3>1. UNCHANGED <<tokens, isClosed, consumed>> /\ condition' = condition
      BY <1>1, <2>1, <2>2 DEF PopToken, UnlockCondition, ConditionMatchesContents
    <3>2. StreamInv' /\ EOFInv'
      BY <1>3, <2>1, <3>1 DEF streamVars
    <3>3. TypeOK' /\ PeekedTokenStays'
      BY <1>1, <2>1, <3>1 DEF TypeOK, StreamTypeOK, tokeniserVars, PeekedTokenStays
    <3>4. QED
      BY <3>2, <3>3 DEF IInv
  <2>3. CASE tokens # <<>>
    <3>1. Head(tokens) \in Token /\ Tail(tokens) \in Seq(Token)
      BY <1>2, <2>3, HeadTailProperties
    <3>2. consumed' \in Seq(Token) /\ tokens' \in Seq(Token)
      BY <1>2, <2>1, <2>3, <3>1, AppendProperties DEF PopToken
    <3>3. TypeOK'
      BY <1>1, <2>1, <3>2 DEF TypeOK, StreamTypeOK, tokeniserVars, PopToken, UnlockCondition,
         Available, Unavailable
    <3>4. ConditionMatchesContents'
      BY <2>1 DEF PopToken, UnlockCondition, ConditionMatchesContents, Available, Unavailable
    <3>5. Fifo'
      <4>1. tokens = <<Head(tokens)>> \o Tail(tokens)
        BY <1>2, <2>3, <3>1
      <4>2. consumed' = consumed \o <<Head(tokens)>>
        BY <1>2, <2>1, <2>3, <3>1, AppendIsConcat
      <4>3. (consumed \o <<Head(tokens)>>) \o Tail(tokens) = consumed \o (<<Head(tokens)>> \o Tail(tokens))
        BY <1>2, <3>1, ConcatAssociative
      <4>4. produced' = produced /\ tokens' = Tail(tokens)
        BY <2>1, <2>3 DEF PopToken, tokeniserVars
      <4>5. QED
        BY <1>1, <4>1, <4>2, <4>3, <4>4 DEF StreamInv, Fifo
    <3>6. PeekedTokenStays'
      BY <2>1 DEF PeekedTokenStays
    <3>7. EOFInv'
      BY <1>1, <2>1 DEF PopToken, EOFInv, HasNoEOF, EndsWithEOF, InputLength, tokeniserVars
    <3>8. QED
      BY <3>3, <3>4, <3>5, <3>6, <3>7 DEF IInv, StreamInv
  <2>4. QED
    BY <2>2, <2>3
<1>6. ASSUME UNCHANGED streamVars, UNCHANGED tokeniserVars, UNCHANGED consumed, pcP = "act",
             UNCHANGED <<nextToken, hasErrorToken>> \/ hasErrorToken' = TRUE
      PROVE  StreamInv' /\ EOFInv' /\ PeekedTokenStays'
  <2>1. StreamInv' /\ EOFInv' /\ FirstToken' = FirstToken
    BY <1>3, <1>6
  <2>2. PeekedTokenStays'
    BY <1>1, <1>6, <2>1 DEF PeekedTokenStays, streamVars
  <2>3. QED
    BY <2>1, <2>2
<1>7. CASE Shift
  <2>1. /\ pcP = "act" /\ Action # NoAction /\ Action.kind = "shift"
        /\ stack' = Append(stack, [object |-> nextToken, state |-> Action.to])
        /\ pcP' \in {"peek", "pop"}
        /\ UNCHANGED <<nextToken, hasErrorToken, result, consumed>>
        /\ UNCHANGED streamVars /\ UNCHANGED tokeniserVars
    BY <1>7 DEF Shift
  <2>2. [object |-> nextToken, state |-> Action.to] \in Entry
    BY <1>1, <2>1, ActionIsEntry DEF Entry
  <2>3. stack' \in Seq(Entry)
    BY <1>2, <2>1, <2>2, AppendProperties
  <2>4. TypeOK'
    BY <1>1, <2>1, <2>3 DEF TypeOK, StreamTypeOK, streamVars, tokeniserVars
  <2>5. QED
    BY <1>6, <2>1, <2>4 DEF IInv
<1>8. CASE Reduce
  <2> DEFINE rule  == Action.rule
             below == SubSeq(stack, 1, Len(stack) - rule.size)
             right == SubSeq(stack, Len(stack) - rule.size + 1, Len(stack))
             state == IF below = <<>> THEN 0 ELSE below[Len(below)].state
             objects == [i \in 1..rule.size |-> right[i].object]
  <2>1. /\ pcP = "act" /\ Action # NoAction /\ Action.kind = "reduce" /\ rule.size <= Len(stack)
        /\ stack' = Append(below, [object |-> Result(rule, objects), state |-> GotoTable(state, rule.name)])
        /\ UNCHANGED <<nextToken, hasErrorToken, pcP, result, consumed>>
        /\ UNCHANGED streamVars /\ UNCHANGED tokeniserVars
    BY <1>8 DEF Reduce
  <2>2. rule \in Rule /\ rule.size \in Nat
    BY <1>1, <2>1, ActionIsEntry, TableAssumption
  <2> HIDE DEF rule
  <2>3. \A i \in 1..Len(stack) : stack[i] \in Entry
    BY <1>2
  <2>4. below \in Seq(Entry)
    BY <1>2, <2>2, <2>3, SubSeqProperties
  <2>5. state \in StateNum
    <3>1. CASE below = <<>>
      BY <3>1, TableAssumption
    <3>2. CASE below # <<>>
      <4> HIDE DEF below
      <4>1. below[Len(below)] \in Entry
        BY <2>4, <3>2, EmptySeq
      <4>2. QED
        BY <3>2, <4>1 DEF Entry
    <3>3. QED
      BY <3>1, <3>2
  <2>6. objects \in [1..rule.size -> Token \cup {Nil} \cup Object]
    <3>1. \A i \in 1..rule.size : right[i] \in Entry
      BY <1>2, <2>1, <2>2, TopOfStack
    <3>2. \A i \in 1..rule.size : right[i].object \in Token \cup {Nil} \cup Object
      BY <3>1 DEF Entry
    <3>3. QED
      BY <3>2
  <2> HIDE DEF below, state, objects
  <2>7. [object |-> Result(rule, objects), state |-> GotoTable(state, rule.name)] \in Entry
    BY <2>2, <2>5, <2>6, TableAssumption DEF Entry
  <2>8. stack' \in Seq(Entry)
    BY <2>1, <2>4, <2>7, AppendProperties
  <2>9. TypeOK'
    BY <1>1, <2>1, <2>8 DEF TypeOK, StreamTypeOK, streamVars, tokeniserVars
  <2>10. QED
    BY <1>6, <2>1, <2>9 DEF IInv
<1>9. CASE Accept \/ GiveUpParse \/ Bail
  <2>1. PICK value \in Token \cup {Nil} \cup Object : pcP = "act" /\ Return(value)
    <3>1. CASE Accept
      <4>1. stack # <<>> => stack[Len(stack)] \in Entry
        BY <1>2, EmptySeq
      <4>2. QED
        BY <3>1, <4>1 DEF Accept, Entry
    <3>2. CASE GiveUpParse \/ Bail
      BY <3>2 DEF GiveUpParse, Bail, Recovers
    <3>3. QED
      BY <1>9, <3>1, <3>2
  <2>2. TypeOK'
    BY <1>1, <2>1 DEF Return, TypeOK, StreamTypeOK, streamVars, tokeniserVars
  <2>3. QED
    BY <1>6, <2>1, <2>2 DEF Return, IInv
<1>10. CASE Unwind
  <2>1. /\ pcP = "act" /\ stack # <<>> /\ stack' = SubSeq(stack, 1, Len(stack) - 1)
        /\ UNCHANGED <<nextToken, hasErrorToken, pcP, result, consumed>>
        /\ UNCHANGED streamVars /\ UNCHANGED tokeniserVars
    BY <1>10 DEF Unwind, Recovers
  <2>2. stack' \in Seq(Entry)
    BY <1>2, <2>1, ElementOfSeq, SubSeqProperties
  <2>3. TypeOK'
    BY <1>1, <2>1, <2>2 DEF TypeOK, StreamTypeOK, streamVars, tokeniserVars
  <2>4. QED
    BY <1>6, <2>1, <2>3 DEF IInv
<1>11. CASE RecoverByAdding \/ RecoverByRemoving
  <2>1. /\ pcP = "act" /\ pcP' \in {"act", "pop"} /\ nextToken' \in Token \cup {Nil}
        /\ UNCHANGED <<nextToken, hasErrorToken>> \/ hasErrorToken' = TRUE
        /\ hasErrorToken' \in BOOLEAN
        /\ UNCHANGED <<stack, result, consumed>>
        /\ UNCHANGED streamVars /\ UNCHANGED tokeniserVars
    BY <1>1, <1>11 DEF RecoverByAdding, RecoverByRemoving, Recovers, TypeOK
  <2>2. TypeOK'
    BY <1>1, <2>1 DEF TypeOK, StreamTypeOK, streamVars, tokeniserVars
  <2>3. QED
    BY <1>6, <2>1, <2>2 DEF IInv
<1>12. QED
  BY <1>4, <1>5, <1>7, <1>8, <1>9, <1>10, <1>11 DEF Parser, Recover

(* Doing nothing keeps the invariant.                                      *)
LEMMA InvStutter == IInv /\ UNCHANGED vars => IInv'
<1> SUFFICES ASSUME IInv, UNCHANGED vars PROVE IInv'
  OBVIOUS
<1>1. UNCHANGED streamVars /\ UNCHANGED tokeniserVars /\ UNCHANGED parserVars
  BY DEF vars
<1>2. TypeOK'
  BY <1>1 DEF IInv, TypeOK, StreamTypeOK, streamVars, tokeniserVars, parserVars
<1>3. StreamInv'
  BY <1>1 DEF IInv, StreamInv, ConditionMatchesContents, Fifo, streamVars, tokeniserVars, parserVars
<1>4. PeekedTokenStays'
  BY <1>1 DEF IInv, PeekedTokenStays, FirstToken, streamVars, parserVars
<1>5. EOFInv'
  BY <1>1 DEF IInv, EOFInv, HasNoEOF, EndsWithEOF, InputLength, streamVars, tokeniserVars
<1>6. QED
  BY <1>2, <1>3, <1>4, <1>5 DEF IInv

(* The inductive invariant holds of every behaviour.                       *)
THEOREM Invariance == Spec => []IInv
<1>1. IInv /\ [Next]_vars => IInv'
  BY InvTokeniser, InvParser, InvStutter DEF Next
<1>2. QED
  BY InvInit, <1>1, PTL DEF Spec

-----------------------------------------------------------------------------
(* Every value has its type, for every text, table and delegate that the   *)
(* assumptions allow.                                                      *)
THEOREM TypeCorrect == Spec => []TypeOK
<1>1. IInv => TypeOK
  BY DEF IInv
<1>2. QED
  BY Invariance, <1>1, PTL

(* No token is lost, duplicated or reordered between the threads.          *)
THEOREM FifoCorrect == Spec => []Fifo
<1>1. IInv => Fifo
  BY DEF IInv, StreamInv
<1>2. QED
  BY Invariance, <1>1, PTL

(* No method of the stream releases its lock with the wrong condition: a   *)
(* waiting reader is always let in when there is a token or none will come. *)
THEOREM ConditionCorrect == Spec => []ConditionMatchesContents
<1>1. IInv => ConditionMatchesContents
  BY DEF IInv, StreamInv
<1>2. QED
  BY Invariance, <1>1, PTL

(* What the parser peeked at is still the head of the stream when it acts. *)
THEOREM PeekedTokenCorrect == Spec => []PeekedTokenStays
<1>1. IInv => PeekedTokenStays
  BY DEF IInv
<1>2. QED
  BY Invariance, <1>1, PTL

-----------------------------------------------------------------------------
(* The parse of a declaration block, by the tables of BlockGrammar.        *)

\* The stack at each point of a block, with n whole declarations in the list.
Entries(object, state) == [object |-> object, state |-> state]
Base == <<Entries(Nil, 0)>>
Opening == Append(Base, Entries(open, 2))
List(n) == IF n = 0 THEN Opening ELSE Append(Opening, Entries(Decls(n), 3))

Points == {"start", "list", "key", "semi", "decl", "close", "block"}

StackAt(point, n) ==
  CASE point = "start" -> Base
    [] point = "list"  -> List(n)
    [] point = "key"   -> Append(List(n), Entries(key, 5))
    [] point = "semi"  -> Append(Append(List(n), Entries(key, 5)), Entries(semi, 6))
    [] point = "decl"  -> Append(List(n), Entries(Decls(1), IF n = 0 THEN 4 ELSE 8))
    [] point = "close" -> Append(List(n), Entries(close, 7))
    [] point = "block" -> Append(Base, Entries(Block(n), 1))

\* What was read up to there, if no ';' was supplied ...
Opened(n) == <<open>> \o Decls(n)
Read(point, n) ==
  CASE point = "start" -> <<>>
    [] point = "list"  -> Opened(n)
    [] point = "key"   -> Append(Opened(n), key)
    [] point \in {"semi", "decl"}   -> Opened(n + 1)
    [] point \in {"close", "block"} -> Append(Opened(n), close)

\* ... and if one was: the '}' it was supplied for comes next, or was read.
HeadIs(t) == tokens # <<>> /\ Head(tokens) = t
BeforeClose(point, n, read) ==
  \/ point \in {"semi", "decl"} /\ read = Append(Opened(n), key)
  \/ point = "list" /\ n > 0 /\ read = Append(Opened(n - 1), key)
AfterClose(point, n, read) ==
  point \in {"close", "block"} /\ read = Append(Append(Opened(n - 1), key), close)

At(point, n) ==
  /\ point \in Points /\ n \in Nat
  /\ point \in {"close", "block"} => n > 0
  /\ stack = StackAt(point, n)

\* Where the parser is when it looks at the next token.
Parsed(point, n) ==
  /\ At(point, n)
  /\ \/ consumed = Read(point, n)
     \/ BeforeClose(point, n, consumed) /\ HeadIs(close)
     \/ AfterClose(point, n, consumed)

\* ... and when it has shifted one that is still in the stream.
Shifted(point, n) ==
  /\ At(point, n) /\ tokens # <<>>
  /\ \/ Append(consumed, Head(tokens)) = Read(point, n)
     \/ AfterClose(point, n, Append(consumed, Head(tokens)))

\* Whatever is still tokenised, the text is not a block.
Doomed ==
  \A rest \in Seq(Token) : (isClosed => rest = <<>>) => ~Parses(produced \o rest)

ParseInv ==
  /\ pcP \in {"peek", "act"} => \E point \in Points, n \in Nat : Parsed(point, n)
  /\ pcP = "act" /\ hasErrorToken =>
       nextToken = semi /\ HeadIs(close) /\ \E n \in Nat : stack = StackAt("key", n)
  /\ pcP = "pop" => \E point \in Points, n \in Nat : Shifted(point, n)
  /\ pcP = "returned" =>
       \/ result # Nil /\ Parses(produced) /\ \E n \in 1..MaxLength : result = Block(n)
       \/ result = Nil /\ Doomed

-----------------------------------------------------------------------------
(* Sequences of declarations.                                              *)

(* n declarations are 2n tokens, the keys at the odd places.               *)
LEMMA DeclsAt ==
  ASSUME BlockTables, NEW n \in Nat
  PROVE  /\ Decls(n) \in Seq(Token) /\ Len(Decls(n)) = 2 * n
         /\ \A j \in 1..n : Decls(n)[2 * j - 1] = key /\ Decls(n)[2 * j] = semi
<1>1. key \in Token /\ semi \in Token
  BY DEF BlockTables
<1>2. 2 * n \in Nat
  OBVIOUS
<1>3. Decls(n) \in [1..(2 * n) -> Token]
  BY <1>1 DEF Decls
<1>4. Decls(n) \in Seq(Token) /\ Len(Decls(n)) = 2 * n
  BY <1>2, <1>3
<1>5. ASSUME NEW j \in 1..n
      PROVE  Decls(n)[2 * j - 1] = key /\ Decls(n)[2 * j] = semi
  <2>1. 2 * j - 1 \in 1..(2 * n) /\ 2 * j \in 1..(2 * n) /\ j \in Int
    OBVIOUS
  <2>2. \A k \in Int : 2 * j - 1 # 2 * k
    BY <2>1
  <2> QED  BY <2>1, <2>2 DEF Decls
<1> QED  BY <1>4, <1>5

(* One token more.                                                         *)
LEMMA AppendAt ==
  ASSUME NEW s \in Seq(Token), NEW t \in Token, NEW k \in Nat, Len(s) = k
  PROVE  /\ Append(s, t) \in Seq(Token) /\ Len(Append(s, t)) = k + 1
         /\ Append(s, t)[k + 1] = t
         /\ \A i \in 1..k : Append(s, t)[i] = s[i]
  BY AppendProperties

(* Two tokens more.                                                        *)
LEMMA AppendTwice ==
  ASSUME NEW s \in Seq(Token), NEW t \in Token, NEW u \in Token
  PROVE  Append(Append(s, t), u) = s \o <<t, u>>
<1>1. <<t>> \in Seq(Token) /\ <<u>> \in Seq(Token) /\ Append(s, t) \in Seq(Token)
  BY AppendProperties
<1>2. Append(s, t) = s \o <<t>> /\ Append(Append(s, t), u) = Append(s, t) \o <<u>>
  BY <1>1, AppendIsConcat
<1>3. (s \o <<t>>) \o <<u>> = s \o (<<t>> \o <<u>>)
  BY <1>1, ConcatAssociative
<1>4. <<t>> \o <<u>> = <<t, u>>
  <2>1. Append(<<t>>, u) = <<t>> \o <<u>>
    BY <1>1, AppendIsConcat
  <2>2. /\ Append(<<t>>, u) \in Seq(Token) /\ Len(Append(<<t>>, u)) = Len(<<t>>) + 1
        /\ \A i \in 1..Len(<<t>>) : Append(<<t>>, u)[i] = <<t>>[i]
        /\ Append(<<t>>, u)[Len(<<t>>) + 1] = u
    BY <1>1, AppendProperties
  <2>3. /\ Len(<<t>>) = 1 /\ <<t>>[1] = t /\ Len(<<t, u>>) = 2
        /\ <<t, u>>[1] = t /\ <<t, u>>[2] = u /\ <<t, u>> \in Seq(Token)
    OBVIOUS
  <2>4. \A i \in 1..2 : Append(<<t>>, u)[i] = <<t, u>>[i]
    BY <2>2, <2>3
  <2>5. Append(<<t>>, u) = <<t, u>>
    <3> DEFINE a == Append(<<t>>, u)
               b == <<t, u>>
    <3>1. /\ a \in Seq(Token) /\ b \in Seq(Token) /\ Len(a) = 2 /\ Len(b) = 2
          /\ \A i \in 1..2 : a[i] = b[i]
      BY <2>2, <2>3, <2>4
    <3> HIDE DEF a, b
    <3>2. a = b
      BY <3>1, SeqEqual
    <3> QED  BY <3>2 DEF a, b
  <2> QED  BY <2>1, <2>5
<1> QED  BY <1>2, <1>3, <1>4

(* What an opened block of n declarations holds.                           *)
LEMMA OpenedAt ==
  ASSUME BlockTables, NEW n \in Nat
  PROVE  /\ Opened(n) \in Seq(Token) /\ Len(Opened(n)) = 2 * n + 1
         /\ Opened(n)[1] = open
         /\ \A j \in 1..n : Opened(n)[2 * j] = key /\ Opened(n)[2 * j + 1] = semi
<1>1. /\ Decls(n) \in Seq(Token) /\ Len(Decls(n)) = 2 * n
      /\ \A j \in 1..n : Decls(n)[2 * j - 1] = key /\ Decls(n)[2 * j] = semi
  BY DeclsAt
<1>2. open \in Token /\ <<open>> \in Seq(Token) /\ Len(<<open>>) = 1 /\ <<open>>[1] = open
  BY DEF BlockTables
<1>3. /\ Opened(n) \in Seq(Token) /\ Len(Opened(n)) = 2 * n + 1
      /\ \A i \in 1..(2 * n + 1) :
           Opened(n)[i] = IF i <= 1 THEN <<open>>[i] ELSE Decls(n)[i - 1]
  <2> DEFINE o == <<open>>
             d == Decls(n)
  <2>1. o \in Seq(Token) /\ Len(o) = 1 /\ d \in Seq(Token) /\ Len(d) = 2 * n
    BY <1>1, <1>2
  <2> HIDE DEF o, d
  <2>2. /\ o \o d \in Seq(Token) /\ Len(o \o d) = 2 * n + 1
        /\ \A i \in 1..(2 * n + 1) : (o \o d)[i] = IF i <= 1 THEN o[i] ELSE d[i - 1]
    <3>1. /\ o \o d \in Seq(Token) /\ Len(o \o d) = Len(o) + Len(d)
          /\ \A i \in 1..Len(o) + Len(d) :
               (o \o d)[i] = IF i <= Len(o) THEN o[i] ELSE d[i - Len(o)]
      BY <2>1, ConcatProperties
    <3>2. Len(o) = 1 /\ Len(o) + Len(d) = 2 * n + 1
      BY <2>1
    <3> QED  BY <3>1, <3>2
  <2> QED  BY <2>2 DEF Opened, o, d
<1>4. Opened(n)[1] = open
  BY <1>2, <1>3
<1>5. ASSUME NEW j \in 1..n
      PROVE  Opened(n)[2 * j] = key /\ Opened(n)[2 * j + 1] = semi
  <2>1. /\ 2 * j \in 1..(2 * n + 1) /\ 2 * j + 1 \in 1..(2 * n + 1)
        /\ ~(2 * j <= 1) /\ ~(2 * j + 1 <= 1) /\ (2 * j + 1) - 1 = 2 * j
    OBVIOUS
  <2> QED  BY <1>1, <1>3, <2>1
<1> QED  BY <1>3, <1>4, <1>5

(* One more declaration.                                                   *)
LEMMA DeclsNext ==
  ASSUME BlockTables, NEW n \in Nat
  PROVE  /\ Decls(n) \o Decls(1) = Decls(n + 1)
         /\ Append(Append(Opened(n), key), semi) = Opened(n + 1)
<1>1. /\ Decls(n) \in Seq(Token) /\ Len(Decls(n)) = 2 * n
      /\ Decls(1) \in Seq(Token) /\ Len(Decls(1)) = 2
      /\ Decls(n + 1) \in Seq(Token) /\ Len(Decls(n + 1)) = 2 * n + 2
      /\ Decls(1)[1] = key /\ Decls(1)[2] = semi
      /\ Decls(n + 1)[2 * n + 1] = key /\ Decls(n + 1)[2 * n + 2] = semi
  <2>1. \A k \in Nat :
          /\ Decls(k) \in Seq(Token) /\ Len(Decls(k)) = 2 * k
          /\ \A j \in 1..k : Decls(k)[2 * j - 1] = key /\ Decls(k)[2 * j] = semi
    BY DeclsAt
  <2>2. /\ 1 \in 1..1 /\ n + 1 \in 1..(n + 1) /\ n + 1 \in Nat /\ 1 \in Nat
        /\ 2 * (n + 1) = 2 * n + 2 /\ 2 * (n + 1) - 1 = 2 * n + 1
        /\ 2 * 1 = 2 /\ 2 * 1 - 1 = 1
    OBVIOUS
  <2>3. /\ Decls(n + 1) \in Seq(Token) /\ Len(Decls(n + 1)) = 2 * (n + 1)
        /\ Decls(n + 1)[2 * (n + 1) - 1] = key /\ Decls(n + 1)[2 * (n + 1)] = semi
    BY <2>1, <2>2
  <2>4. /\ Decls(1) \in Seq(Token) /\ Len(Decls(1)) = 2 * 1
        /\ Decls(1)[2 * 1 - 1] = key /\ Decls(1)[2 * 1] = semi
    BY <2>1, <2>2
  <2>5. Decls(n) \in Seq(Token) /\ Len(Decls(n)) = 2 * n
    BY <2>1
  <2> QED  BY <2>2, <2>3, <2>4, <2>5
<1>2. ASSUME NEW i \in 1..(2 * n) PROVE Decls(n + 1)[i] = Decls(n)[i]
  <2>1. i \in 1..(2 * (n + 1))
    OBVIOUS
  <2>2. (\E j \in 1..(n + 1) : i = 2 * j) <=> (\E j \in 1..n : i = 2 * j)
    OBVIOUS
  <2> QED  BY <2>1, <2>2 DEF Decls
<1>3. Decls(n) \o Decls(1) = Decls(n + 1)
  <2> DEFINE a == Decls(n)
             b == Decls(1)
             c == Decls(n + 1)
  <2>1. /\ a \in Seq(Token) /\ Len(a) = 2 * n /\ b \in Seq(Token) /\ Len(b) = 2
        /\ c \in Seq(Token) /\ Len(c) = 2 * n + 2
        /\ b[1] = key /\ b[2] = semi /\ c[2 * n + 1] = key /\ c[2 * n + 2] = semi
        /\ \A i \in 1..(2 * n) : c[i] = a[i]
    BY <1>1, <1>2
  <2> HIDE DEF a, b, c
  <2>2. /\ a \o b \in Seq(Token) /\ Len(a \o b) = 2 * n + 2
        /\ \A i \in 1..(2 * n + 2) : (a \o b)[i] = IF i <= 2 * n THEN a[i] ELSE b[i - 2 * n]
    <3>1. /\ a \o b \in Seq(Token) /\ Len(a \o b) = Len(a) + Len(b)
          /\ \A i \in 1..Len(a) + Len(b) :
               (a \o b)[i] = IF i <= Len(a) THEN a[i] ELSE b[i - Len(a)]
      BY <2>1, ConcatProperties
    <3>2. Len(a) = 2 * n /\ Len(a) + Len(b) = 2 * n + 2
      BY <2>1
    <3> QED  BY <3>1, <3>2
  <2>3. ASSUME NEW i \in 1..(2 * n + 2) PROVE (a \o b)[i] = c[i]
    <3>1. CASE i <= 2 * n
      BY <2>1, <2>2, <3>1
    <3>2. CASE i = 2 * n + 1
      BY <2>1, <2>2, <3>2
    <3>3. CASE i = 2 * n + 2
      BY <2>1, <2>2, <3>3
    <3>4. i <= 2 * n \/ i = 2 * n + 1 \/ i = 2 * n + 2
      OBVIOUS
    <3> QED  BY <3>1, <3>2, <3>3, <3>4
  <2>4. a \o b = c
    BY <2>1, <2>2, <2>3, SeqEqual
  <2> QED  BY <2>4 DEF a, b, c
<1>4. Append(Append(Opened(n), key), semi) = Opened(n + 1)
  <2> DEFINE a == Opened(n)
             c == Opened(n + 1)
  <2>1. key \in Token /\ semi \in Token /\ open \in Token
    BY DEF BlockTables
  <2>2. /\ a \in Seq(Token) /\ Len(a) = 2 * n + 1
        /\ c \in Seq(Token) /\ Len(c) = 2 * n + 3
    <3>1. n + 1 \in Nat /\ 2 * (n + 1) + 1 = 2 * n + 3
      OBVIOUS
    <3> QED  BY <3>1, OpenedAt
  <2>3. c = <<open>> \o (Decls(n) \o Decls(1)) /\ Decls(1) = <<key, semi>>
    <3>1. Decls(1) = <<key, semi>>
      BY <1>1, <2>1, SeqEqual
    <3> QED  BY <1>3, <3>1 DEF Opened
  <2>4. <<open>> \o (Decls(n) \o <<key, semi>>) = a \o <<key, semi>>
    <3>1. <<open>> \in Seq(Token) /\ <<key, semi>> \in Seq(Token) /\ Decls(n) \in Seq(Token)
      BY <1>1, <2>1
    <3>2. (<<open>> \o Decls(n)) \o <<key, semi>> = <<open>> \o (Decls(n) \o <<key, semi>>)
      BY <3>1, ConcatAssociative
    <3> QED  BY <3>2 DEF Opened
  <2> HIDE DEF a, c
  <2>5. Append(Append(a, key), semi) = a \o <<key, semi>>
    BY <2>1, <2>2, AppendTwice
  <2> QED  BY <2>3, <2>4, <2>5 DEF a, c
<1> QED  BY <1>3, <1>4

(* A block is an opened one and a '}'.                                     *)
LEMMA BlockIsOpened ==
  ASSUME BlockTables, NEW n \in Nat
  PROVE  Block(n) = Append(Opened(n), close)
<1>1. Opened(n) \in Seq(Token) /\ close \in Token
  BY OpenedAt DEF BlockTables
<1>2. Append(Opened(n), close) = Opened(n) \o <<close>>
  BY <1>1, AppendIsConcat
<1> QED  BY <1>2 DEF Block, Opened

(* One declaration is two tokens.                                          *)
LEMMA DeclsOne ==
  ASSUME BlockTables
  PROVE  Decls(1) = <<key, semi>>
<1>1. /\ Decls(1) \in Seq(Token) /\ Len(Decls(1)) = 2 * 1
      /\ \A j \in 1..1 : Decls(1)[2 * j - 1] = key /\ Decls(1)[2 * j] = semi
  BY DeclsAt
<1>2. 1 \in 1..1 /\ 2 * 1 = 2 /\ 2 * 1 - 1 = 1
  OBVIOUS
<1>3. Decls(1)[1] = key /\ Decls(1)[2] = semi /\ Len(Decls(1)) = 2
  BY <1>1, <1>2
<1>4. key \in Token /\ semi \in Token
  BY DEF BlockTables
<1> QED  BY <1>1, <1>3, <1>4, SeqEqual

-----------------------------------------------------------------------------
(* What may follow what in the text of a block.                            *)

(* The tokens of a whole block, place by place.                            *)
LEMMA WholeBlockAt ==
  ASSUME BlockTables, EOF \in Token, NEW m \in Nat, NEW ts, ts = Block(m) \o <<EOF>>
  PROVE  /\ ts \in Seq(Token) /\ Len(ts) = 2 * m + 3
         /\ ts[1] = open /\ ts[2 * m + 2] = close /\ ts[2 * m + 3] = EOF
         /\ \A j \in 1..m : ts[2 * j] = key /\ ts[2 * j + 1] = semi
<1> DEFINE o == Opened(m)
<1>1. /\ o \in Seq(Token) /\ Len(o) = 2 * m + 1 /\ o[1] = open
      /\ \A j \in 1..m : o[2 * j] = key /\ o[2 * j + 1] = semi
  BY OpenedAt
<1>2. close \in Token /\ open \in Token
  BY DEF BlockTables
<1>3. ts = Append(Append(o, close), EOF)
  <2>1. Block(m) = Append(o, close)
    BY <1>1, <1>2, BlockIsOpened
  <2>2. Append(o, close) \in Seq(Token)
    BY <1>1, <1>2, AppendProperties
  <2> QED  BY <2>1, <2>2, AppendIsConcat
<1> HIDE DEF o
<1>4. /\ Append(o, close) \in Seq(Token) /\ Len(Append(o, close)) = 2 * m + 2
      /\ Append(o, close)[2 * m + 2] = close
      /\ \A i \in 1..(2 * m + 1) : Append(o, close)[i] = o[i]
  <2>1. /\ Append(o, close) \in Seq(Token) /\ Len(Append(o, close)) = Len(o) + 1
        /\ Append(o, close)[Len(o) + 1] = close
        /\ \A i \in 1..Len(o) : Append(o, close)[i] = o[i]
    BY <1>1, <1>2, AppendAt
  <2>2. Len(o) = 2 * m + 1 /\ Len(o) + 1 = 2 * m + 2
    BY <1>1
  <2> QED  BY <2>1, <2>2
<1> DEFINE b == Append(o, close)
<1> HIDE DEF b
<1>5. /\ ts \in Seq(Token) /\ Len(ts) = 2 * m + 3 /\ ts[2 * m + 3] = EOF
      /\ \A i \in 1..(2 * m + 2) : ts[i] = b[i]
  <2>1. b \in Seq(Token) /\ Len(b) = 2 * m + 2 /\ ts = Append(b, EOF)
    BY <1>3, <1>4 DEF b
  <2>2. /\ ts \in Seq(Token) /\ Len(ts) = (2 * m + 2) + 1 /\ ts[(2 * m + 2) + 1] = EOF
        /\ \A i \in 1..(2 * m + 2) : ts[i] = b[i]
    <3>1. 2 * m + 2 \in Nat
      OBVIOUS
    <3> DEFINE k == 2 * m + 2
    <3> HIDE DEF k
    <3>2. b \in Seq(Token) /\ Len(b) = k /\ k \in Nat
      BY <2>1, <3>1 DEF k
    <3>3. /\ Append(b, EOF) \in Seq(Token) /\ Len(Append(b, EOF)) = k + 1
          /\ Append(b, EOF)[k + 1] = EOF
          /\ \A i \in 1..k : Append(b, EOF)[i] = b[i]
      BY <3>2, AppendAt
    <3> QED  BY <2>1, <3>3 DEF k
  <2>3. (2 * m + 2) + 1 = 2 * m + 3
    OBVIOUS
  <2> QED  BY <2>2, <2>3
<1>6. \A i \in 1..(2 * m + 1) : ts[i] = o[i]
  BY <1>4, <1>5 DEF b
<1>7. ts[2 * m + 2] = close
  BY <1>4, <1>5 DEF b
<1>8. ts[1] = open
  BY <1>1, <1>6
<1>9. ASSUME NEW j \in 1..m PROVE ts[2 * j] = key /\ ts[2 * j + 1] = semi
  <2>1. 2 * j \in 1..(2 * m + 1) /\ 2 * j + 1 \in 1..(2 * m + 1)
    OBVIOUS
  <2> QED  BY <1>1, <1>6, <2>1
<1> QED  BY <1>5, <1>7, <1>8, <1>9

(* ... and of one whose last declaration lacks its ';'.                    *)
LEMMA LackingBlockAt ==
  ASSUME BlockTables, EOF \in Token, NEW m \in Nat \ {0},
         NEW ts, ts = <<open>> \o Decls(m - 1) \o <<key, close, EOF>>
  PROVE  /\ ts \in Seq(Token) /\ Len(ts) = 2 * m + 2
         /\ ts[1] = open /\ ts[2 * m] = key /\ ts[2 * m + 1] = close /\ ts[2 * m + 2] = EOF
         /\ \A j \in 1..(m - 1) : ts[2 * j] = key /\ ts[2 * j + 1] = semi
<1> DEFINE o == Opened(m - 1)
           e == <<key, close, EOF>>
<1>0. m - 1 \in Nat /\ 2 * (m - 1) + 1 = 2 * m - 1
  OBVIOUS
<1>1. /\ o \in Seq(Token) /\ Len(o) = 2 * m - 1 /\ o[1] = open
      /\ \A j \in 1..(m - 1) : o[2 * j] = key /\ o[2 * j + 1] = semi
  BY <1>0, OpenedAt
<1>2. close \in Token /\ key \in Token
  BY DEF BlockTables
<1>3. /\ e \in Seq(Token) /\ Len(e) = 3 /\ e[1] = key /\ e[2] = close /\ e[3] = EOF
      /\ ts = o \o e
  BY <1>2 DEF Opened
<1> HIDE DEF o, e
<1>4. /\ ts \in Seq(Token) /\ Len(ts) = 2 * m + 2
      /\ \A i \in 1..(2 * m + 2) : ts[i] = IF i <= 2 * m - 1 THEN o[i] ELSE e[i - (2 * m - 1)]
  <2>1. /\ o \o e \in Seq(Token) /\ Len(o \o e) = Len(o) + Len(e)
        /\ \A i \in 1..Len(o) + Len(e) : (o \o e)[i] = IF i <= Len(o) THEN o[i] ELSE e[i - Len(o)]
    BY <1>1, <1>3, ConcatProperties
  <2>2. Len(o) = 2 * m - 1 /\ Len(o) + Len(e) = 2 * m + 2
    BY <1>1, <1>3
  <2> QED  BY <1>3, <2>1, <2>2
<1>5. ts[2 * m] = key /\ ts[2 * m + 1] = close /\ ts[2 * m + 2] = EOF
  <2>1. /\ 2 * m \in 1..(2 * m + 2) /\ 2 * m + 1 \in 1..(2 * m + 2) /\ 2 * m + 2 \in 1..(2 * m + 2)
        /\ ~(2 * m <= 2 * m - 1) /\ ~(2 * m + 1 <= 2 * m - 1) /\ ~(2 * m + 2 <= 2 * m - 1)
        /\ 2 * m - (2 * m - 1) = 1 /\ (2 * m + 1) - (2 * m - 1) = 2 /\ (2 * m + 2) - (2 * m - 1) = 3
    OBVIOUS
  <2>2. ts[2 * m] = e[1]
    BY <1>4, <2>1
  <2>3. ts[2 * m + 1] = e[2]
    BY <1>4, <2>1
  <2>4. ts[2 * m + 2] = e[3]
    BY <1>4, <2>1
  <2> QED  BY <1>3, <2>2, <2>3, <2>4
<1>6. ts[1] = open
  <2>1. 1 \in 1..(2 * m + 2) /\ 1 <= 2 * m - 1
    OBVIOUS
  <2> QED  BY <1>1, <1>4, <2>1
<1>7. ASSUME NEW j \in 1..(m - 1) PROVE ts[2 * j] = key /\ ts[2 * j + 1] = semi
  <2>1. /\ 2 * j \in 1..(2 * m + 2) /\ 2 * j + 1 \in 1..(2 * m + 2)
        /\ 2 * j <= 2 * m - 1 /\ 2 * j + 1 <= 2 * m - 1
    OBVIOUS
  <2> QED  BY <1>1, <1>4, <2>1
<1> QED  BY <1>4, <1>5, <1>6, <1>7

\* What follows an opening or a ';', a key, and a '}'; and the last token.
Follows(ts) ==
  /\ Len(ts) > 0 /\ ts[1] = open /\ ts[Len(ts)] = EOF
  /\ \A n \in Nat : 2 * n + 2 <= Len(ts) /\ ts[2 * n + 1] \in {open, semi} =>
       ts[2 * n + 2] = key \/ (n > 0 /\ ts[2 * n + 2] = close)
  /\ \A n \in Nat : 2 * n + 3 <= Len(ts) /\ ts[2 * n + 2] = key => ts[2 * n + 3] \in {semi, close}
  /\ \A n \in Nat : 2 * n + 3 <= Len(ts) /\ ts[2 * n + 2] = close => ts[2 * n + 3] = EOF
  /\ \A n \in Nat : 2 * n + 4 <= Len(ts) /\ ts[2 * n + 3] = close => ts[2 * n + 4] = EOF

(* The text of a block follows these rules.                                *)
LEMMA BlockFollows ==
  ASSUME BlockTables, EOF \in Token, NEW ts, Parses(ts)
  PROVE  ts \in Seq(Token) /\ Follows(ts)
<1>0. /\ open # close /\ open # key /\ open # semi /\ close # key /\ close # semi /\ key # semi
      /\ EOF \notin {open, close, key, semi}
  BY DEF BlockTables
<1>1. PICK m \in 1..MaxLength :
        \/ ts = Block(m) \o <<EOF>>
        \/ ts = <<open>> \o Decls(m - 1) \o <<key, close, EOF>>
  BY DEF Parses
<1>2. m \in Nat \ {0}
  OBVIOUS
<1>3. CASE ts = Block(m) \o <<EOF>>
  <2>1. /\ ts \in Seq(Token) /\ Len(ts) = 2 * m + 3
        /\ ts[1] = open /\ ts[2 * m + 2] = close /\ ts[2 * m + 3] = EOF
        /\ \A j \in 1..m : ts[2 * j] = key /\ ts[2 * j + 1] = semi
    BY <1>2, <1>3, WholeBlockAt
  <2>2. ASSUME NEW n \in Nat, 2 * n + 2 <= Len(ts), ts[2 * n + 1] \in {open, semi}
        PROVE  ts[2 * n + 2] = key \/ (n > 0 /\ ts[2 * n + 2] = close)
    <3>1. CASE n < m
      <4>1. n + 1 \in 1..m /\ 2 * (n + 1) = 2 * n + 2
        BY <1>2, <3>1
      <4> QED  BY <2>1, <4>1
    <3>2. CASE n >= m
      <4>1. n = m
        BY <1>2, <2>1, <2>2, <3>2
      <4> QED  BY <1>2, <2>1, <4>1
    <3> QED  BY <1>2, <3>1, <3>2
  <2>3. ASSUME NEW n \in Nat, 2 * n + 3 <= Len(ts), ts[2 * n + 2] = key
        PROVE  ts[2 * n + 3] \in {semi, close}
    <3>1. CASE n < m
      <4>1. n + 1 \in 1..m /\ 2 * (n + 1) + 1 = 2 * n + 3
        BY <1>2, <3>1
      <4> QED  BY <2>1, <4>1
    <3>2. CASE n >= m
      <4>1. n = m
        BY <1>2, <2>1, <2>3, <3>2
      <4> QED  BY <1>0, <2>1, <2>3, <4>1
    <3> QED  BY <1>2, <3>1, <3>2
  <2>4. ASSUME NEW n \in Nat, 2 * n + 3 <= Len(ts), ts[2 * n + 2] = close
        PROVE  ts[2 * n + 3] = EOF
    <3>1. CASE n < m
      <4>1. n + 1 \in 1..m /\ 2 * (n + 1) = 2 * n + 2
        BY <1>2, <3>1
      <4> QED  BY <1>0, <2>1, <2>4, <4>1
    <3>2. CASE n >= m
      <4>1. n = m
        BY <1>2, <2>1, <2>4, <3>2
      <4> QED  BY <2>1, <4>1
    <3> QED  BY <1>2, <3>1, <3>2
  <2>5. ASSUME NEW n \in Nat, 2 * n + 4 <= Len(ts), ts[2 * n + 3] = close
        PROVE  ts[2 * n + 4] = EOF
    <3>1. n + 1 \in 1..m /\ 2 * (n + 1) + 1 = 2 * n + 3
      BY <1>2, <2>1, <2>5
    <3> QED  BY <1>0, <2>1, <2>5, <3>1
  <2> QED  BY <1>2, <2>1, <2>2, <2>3, <2>4, <2>5 DEF Follows
<1>4. CASE ts = <<open>> \o Decls(m - 1) \o <<key, close, EOF>>
  <2>1. /\ ts \in Seq(Token) /\ Len(ts) = 2 * m + 2
        /\ ts[1] = open /\ ts[2 * m] = key /\ ts[2 * m + 1] = close /\ ts[2 * m + 2] = EOF
        /\ \A j \in 1..(m - 1) : ts[2 * j] = key /\ ts[2 * j + 1] = semi
    BY <1>2, <1>4, LackingBlockAt
  <2>2. ASSUME NEW n \in Nat, 2 * n + 2 <= Len(ts), ts[2 * n + 1] \in {open, semi}
        PROVE  ts[2 * n + 2] = key \/ (n > 0 /\ ts[2 * n + 2] = close)
    <3>1. CASE n + 1 < m
      <4>1. n + 1 \in 1..(m - 1) /\ 2 * (n + 1) = 2 * n + 2
        BY <1>2, <3>1
      <4> QED  BY <2>1, <4>1
    <3>2. CASE n + 1 = m
      <4>1. 2 * n + 2 = 2 * m
        BY <1>2, <3>2
      <4> QED  BY <2>1, <4>1
    <3>3. CASE n + 1 > m
      <4>1. n = m
        BY <1>2, <2>1, <2>2, <3>3
      <4> QED  BY <1>0, <2>1, <2>2, <4>1
    <3> QED  BY <1>2, <3>1, <3>2, <3>3
  <2>3. ASSUME NEW n \in Nat, 2 * n + 3 <= Len(ts), ts[2 * n + 2] = key
        PROVE  ts[2 * n + 3] \in {semi, close}
    <3>1. CASE n + 1 < m
      <4>1. n + 1 \in 1..(m - 1) /\ 2 * (n + 1) + 1 = 2 * n + 3
        BY <1>2, <3>1
      <4> QED  BY <2>1, <4>1
    <3>2. CASE n + 1 >= m
      <4>1. 2 * n + 3 = 2 * m + 1
        BY <1>2, <2>1, <2>3, <3>2
      <4> QED  BY <2>1, <4>1
    <3> QED  BY <1>2, <3>1, <3>2
  <2>4. ASSUME NEW n \in Nat, 2 * n + 3 <= Len(ts), ts[2 * n + 2] = close
        PROVE  ts[2 * n + 3] = EOF
    <3>1. n + 1 \in 1..m
      BY <1>2, <2>1, <2>4
    <3>2. CASE n + 1 < m
      <4>1. n + 1 \in 1..(m - 1) /\ 2 * (n + 1) = 2 * n + 2
        BY <1>2, <3>2
      <4> QED  BY <1>0, <2>1, <2>4, <4>1
    <3>3. CASE n + 1 = m
      <4>1. 2 * n + 2 = 2 * m
        BY <1>2, <3>3
      <4> QED  BY <1>0, <2>1, <2>4, <4>1
    <3> QED  BY <1>2, <3>1, <3>2, <3>3
  <2>5. ASSUME NEW n \in Nat, 2 * n + 4 <= Len(ts), ts[2 * n + 3] = close
        PROVE  ts[2 * n + 4] = EOF
    <3>1. n + 1 \in 1..m
      BY <1>2, <2>1, <2>5
    <3>2. CASE n + 1 < m
      <4>1. n + 1 \in 1..(m - 1) /\ 2 * (n + 1) + 1 = 2 * n + 3
        BY <1>2, <3>2
      <4> QED  BY <1>0, <2>1, <2>5, <4>1
    <3>3. CASE n + 1 = m
      <4>1. 2 * n + 4 = 2 * m + 2
        BY <1>2, <3>3
      <4> QED  BY <2>1, <4>1
    <3> QED  BY <1>2, <3>1, <3>2, <3>3
  <2> QED  BY <1>2, <2>1, <2>2, <2>3, <2>4, <2>5 DEF Follows
<1> QED  BY <1>1, <1>3, <1>4

-----------------------------------------------------------------------------
(* The stack and the tables of a block.                                    *)

\* What a stack of the parser may hold here.
BlockEntry ==
  [object : {Nil, open, close, key, semi} \cup { Decls(k) : k \in Nat } \cup { Block(k) : k \in Nat },
   state : 0..8]

(* The entries of a block's stack.                                         *)
LEMMA EntriesAreBlockEntries ==
  ASSUME NEW n \in Nat
  PROVE  /\ Entries(Nil, 0) \in BlockEntry /\ Entries(open, 2) \in BlockEntry
         /\ Entries(Decls(n), 3) \in BlockEntry /\ Entries(key, 5) \in BlockEntry
         /\ Entries(semi, 6) \in BlockEntry /\ Entries(close, 7) \in BlockEntry
         /\ Entries(Decls(1), IF n = 0 THEN 4 ELSE 8) \in BlockEntry
         /\ Entries(Block(n), 1) \in BlockEntry
<1>1. Decls(n) \in { Decls(k) : k \in Nat } /\ Decls(1) \in { Decls(k) : k \in Nat }
      /\ Block(n) \in { Block(k) : k \in Nat }
  OBVIOUS
<1>2. (IF n = 0 THEN 4 ELSE 8) \in 0..8
  OBVIOUS
<1>3. \A o, s : o \in {Nil, open, close, key, semi} \cup { Decls(k) : k \in Nat } \cup { Block(k) : k \in Nat }
                /\ s \in 0..8 => Entries(o, s) \in BlockEntry
  BY DEF Entries, BlockEntry
<1> QED  BY <1>1, <1>2, <1>3

(* ... and the stacks.                                                     *)
LEMMA ListIsStack ==
  ASSUME NEW n \in Nat
  PROVE  /\ Base \in Seq(BlockEntry) /\ Len(Base) = 1 /\ Base[1] = Entries(Nil, 0)
         /\ Opening \in Seq(BlockEntry) /\ Len(Opening) = 2 /\ Opening[2] = Entries(open, 2)
         /\ List(n) \in Seq(BlockEntry) /\ List(n) # <<>>
         /\ Len(List(n)) = IF n = 0 THEN 2 ELSE 3
         /\ List(n)[Len(List(n))] = IF n = 0 THEN Entries(open, 2) ELSE Entries(Decls(n), 3)
<1>1. /\ Entries(Nil, 0) \in BlockEntry /\ Entries(open, 2) \in BlockEntry
      /\ Entries(Decls(n), 3) \in BlockEntry
  BY EntriesAreBlockEntries
<1>2. Base \in Seq(BlockEntry) /\ Len(Base) = 1 /\ Base[1] = Entries(Nil, 0)
  BY <1>1 DEF Base
<1>3. /\ Opening \in Seq(BlockEntry) /\ Len(Opening) = 2 /\ Opening[2] = Entries(open, 2)
      /\ Opening # <<>>
  <2>1. /\ Opening \in Seq(BlockEntry) /\ Opening # <<>> /\ Len(Opening) = Len(Base) + 1
        /\ Opening[Len(Base) + 1] = Entries(open, 2)
    <3> DEFINE b == Base
               e == Entries(open, 2)
    <3>1. b \in Seq(BlockEntry) /\ e \in BlockEntry
      BY <1>1, <1>2
    <3> HIDE DEF b, e
    <3>2. /\ Append(b, e) \in Seq(BlockEntry) /\ Append(b, e) # <<>>
          /\ Len(Append(b, e)) = Len(b) + 1 /\ Append(b, e)[Len(b) + 1] = e
      BY ONLY <3>1, AppendProperties
    <3> QED  BY <3>2 DEF b, e, Opening
  <2>2. Len(Base) + 1 = 2
    BY <1>2
  <2> QED  BY <2>1, <2>2
<1>4. CASE n = 0
  BY <1>2, <1>3, <1>4 DEF List
<1>5. CASE n # 0
  <2>1. List(n) = Append(Opening, Entries(Decls(n), 3))
    BY <1>5 DEF List
  <2>2. /\ List(n) \in Seq(BlockEntry) /\ List(n) # <<>> /\ Len(List(n)) = Len(Opening) + 1
        /\ List(n)[Len(Opening) + 1] = Entries(Decls(n), 3)
    <3> DEFINE e == Entries(Decls(n), 3)
    <3>1. e \in BlockEntry
      BY <1>1
    <3> HIDE DEF e
    <3>2. /\ Append(Opening, e) \in Seq(BlockEntry) /\ Append(Opening, e) # <<>>
          /\ Len(Append(Opening, e)) = Len(Opening) + 1
          /\ Append(Opening, e)[Len(Opening) + 1] = e
      <4> DEFINE s == Opening
      <4>1. s \in Seq(BlockEntry)
        BY <1>3
      <4> HIDE DEF s
      <4>2. /\ Append(s, e) \in Seq(BlockEntry) /\ Append(s, e) # <<>>
            /\ Len(Append(s, e)) = Len(s) + 1 /\ Append(s, e)[Len(s) + 1] = e
        BY <3>1, <4>1, AppendProperties
      <4> QED  BY <4>2 DEF s
    <3> QED  BY <2>1, <3>2 DEF e
  <2>3. Len(Opening) + 1 = 3
    BY <1>3
  <2> QED  BY <1>2, <1>3, <1>5, <2>2, <2>3
<1> QED  BY <1>4, <1>5

(* The top of a stack and what is under it.                                *)
LEMMA Unstack ==
  ASSUME NEW S, NEW s \in Seq(S), NEW a \in S
  PROVE  /\ Append(s, a) \in Seq(S) /\ Append(s, a) # <<>>
         /\ Len(Append(s, a)) = Len(s) + 1
         /\ Append(s, a)[Len(Append(s, a))] = a
         /\ \A k \in 0..Len(s) : SubSeq(Append(s, a), 1, k) = SubSeq(s, 1, k)
         /\ SubSeq(s, 1, Len(s)) = s
<1>1. /\ Append(s, a) \in Seq(S) /\ Append(s, a) # <<>>
      /\ Len(Append(s, a)) = Len(s) + 1 /\ Len(s) \in Nat
      /\ Append(s, a)[Len(s) + 1] = a
      /\ \A i \in 1..Len(s) : Append(s, a)[i] = s[i]
  BY AppendProperties, LenProperties
<1>2. ASSUME NEW k \in 0..Len(s) PROVE SubSeq(Append(s, a), 1, k) = SubSeq(s, 1, k)
  <2> DEFINE b == Append(s, a)
             c == SubSeq(b, 1, k)
             d == SubSeq(s, 1, k)
  <2>1. /\ k \in Nat /\ k \in Int /\ 1 \in Int
        /\ \A i \in 1..k : s[i] \in S /\ b[i] \in S /\ b[i] = s[i]
    BY <1>1, ElementOfSeq
  <2>2. /\ d \in Seq(S) /\ Len(d) = (IF 1 <= k THEN k - 1 + 1 ELSE 0)
        /\ \A i \in 1..(k - 1 + 1) : d[i] = s[1 + i - 1]
    BY <2>1, SubSeqProperties
  <2> HIDE DEF b
  <2>3. /\ c \in Seq(S) /\ Len(c) = (IF 1 <= k THEN k - 1 + 1 ELSE 0)
        /\ \A i \in 1..(k - 1 + 1) : c[i] = b[1 + i - 1]
    BY <2>1, SubSeqProperties
  <2> HIDE DEF c, d
  <2>4. Len(c) = k /\ Len(d) = k /\ k - 1 + 1 = k
    BY <2>1, <2>2, <2>3
  <2>5. \A i \in 1..k : c[i] = d[i]
    <3> SUFFICES ASSUME NEW i \in 1..k PROVE c[i] = d[i]
      OBVIOUS
    <3>1. 1 + i - 1 = i
      OBVIOUS
    <3> QED  BY <2>1, <2>2, <2>3, <2>4, <3>1
  <2>6. c = d
    BY <2>2, <2>3, <2>4, <2>5, SeqEqual
  <2> QED  BY <2>6 DEF b, c, d
<1>3. SubSeq(s, 1, Len(s)) = s
  BY SubSeqFull
<1> QED  BY <1>1, <1>2, <1>3

(* What the tables of a block answer.                                      *)
LEMMA ActionCases ==
  ASSUME BlockTables, NEW s \in StateNum, NEW t \in Token, ActionTable(s, t) # NoAction
  PROVE  \/ s = 0 /\ t = open /\ ActionTable(s, t) = ShiftTo(2)
         \/ s = 1 /\ t = EOF /\ ActionTable(s, t) = AcceptIt
         \/ s \in {2, 3} /\ t = key /\ ActionTable(s, t) = ShiftTo(5)
         \/ s = 3 /\ t = close /\ ActionTable(s, t) = ShiftTo(7)
         \/ s = 4 /\ t \in {key, close} /\ ActionTable(s, t) = ReduceBy(OneRule)
         \/ s = 5 /\ t = semi /\ ActionTable(s, t) = ShiftTo(6)
         \/ s = 6 /\ t \in {key, close} /\ ActionTable(s, t) = ReduceBy(DeclRule)
         \/ s = 7 /\ t = EOF /\ ActionTable(s, t) = ReduceBy(BlockRule)
         \/ s = 8 /\ t \in {key, close} /\ ActionTable(s, t) = ReduceBy(MoreRule)
<1>1. ActionTable(s, t) = BlockActions(s, t)
  BY DEF BlockTables
<1> QED  BY <1>1 DEF BlockActions

(* ... and where they have an answer.                                      *)
LEMMA ActionsThere ==
  ASSUME BlockTables, NEW s \in StateNum, NEW t \in Token, ActionTable(s, t) = NoAction
  PROVE  /\ s = 0 => t # open
         /\ s \in {1, 7} => t # EOF
         /\ s \in {2, 3} => t # key
         /\ s = 3 => t # close
         /\ s \in {4, 6, 8} => t \notin {key, close}
         /\ s = 5 => t # semi
<1>1. ActionTable(s, t) = BlockActions(s, t)
  BY DEF BlockTables
<1>2. /\ NoAction # AcceptIt /\ NoAction # ShiftTo(2) /\ NoAction # ShiftTo(5)
      /\ NoAction # ShiftTo(6) /\ NoAction # ShiftTo(7)
      /\ NoAction # ReduceBy(OneRule) /\ NoAction # ReduceBy(DeclRule)
      /\ NoAction # ReduceBy(BlockRule) /\ NoAction # ReduceBy(MoreRule)
  <2>1. {2, 5, 6, 7} \subseteq StateNum /\ {OneRule, DeclRule, BlockRule, MoreRule} \subseteq Rule
    BY DEF BlockTables
  <2>2. /\ NoAction # AcceptIt /\ \A q \in StateNum : NoAction # ShiftTo(q)
        /\ \A r \in Rule : NoAction # ReduceBy(r)
    BY DEF BlockTables
  <2> QED  BY <2>1, <2>2
<1>3. open # key /\ open # close /\ open # semi /\ EOF \notin {open, close, key, semi}
      /\ key # close /\ key # semi /\ close # semi
  BY DEF BlockTables
<1> QED  BY <1>1, <1>2, <1>3 DEF BlockActions

(* The objects the delegate builds.                                        *)
LEMMA ResultsAre ==
  ASSUME BlockTables, MaxLength \in Nat, NEW n \in 1..MaxLength
  PROVE  /\ BlockResult(DeclRule, <<key, semi>>) = Decls(1)
         /\ \A objects : objects[1] = Decls(n) => BlockResult(OneRule, objects) = Decls(n)
         /\ n + 1 <= MaxLength =>
              \A objects : objects[1] = Decls(n) /\ objects[2] = Decls(1) =>
                BlockResult(MoreRule, objects) = Decls(n + 1)
         /\ \A objects : objects[1] = open /\ objects[2] = Decls(n) /\ objects[3] = close =>
              BlockResult(BlockRule, objects) = Block(n)
<1>1. /\ DeclRule # OneRule /\ DeclRule # MoreRule /\ DeclRule # BlockRule
      /\ OneRule # MoreRule /\ OneRule # BlockRule /\ MoreRule # BlockRule
  BY DEF DeclRule, OneRule, MoreRule, BlockRule
<1>2. Decls(n) \in DeclObjects
  BY DEF DeclObjects
<1>3. BlockResult(DeclRule, <<key, semi>>) = Decls(1)
  <2>1. <<key, semi>> = Decls(1)
    BY DeclsOne
  <2> QED  BY <1>1, <2>1 DEF BlockResult
<1>4. ASSUME NEW objects, objects[1] = Decls(n)
      PROVE  BlockResult(OneRule, objects) = Decls(n)
  BY <1>1, <1>2, <1>4 DEF BlockResult
<1>5. ASSUME n + 1 <= MaxLength, NEW objects, objects[1] = Decls(n), objects[2] = Decls(1)
      PROVE  BlockResult(MoreRule, objects) = Decls(n + 1)
  <2>1. n \in Nat /\ 1 \in 1..MaxLength /\ n + 1 \in 1..MaxLength
    BY <1>5
  <2>2. Decls(1) \in DeclObjects /\ Decls(n + 1) \in DeclObjects
    BY <2>1 DEF DeclObjects
  <2>3. objects[1] \o objects[2] = Decls(n + 1)
    BY <1>5, <2>1, DeclsNext
  <2> QED  BY <1>1, <1>2, <1>5, <2>2, <2>3 DEF BlockResult
<1>6. ASSUME NEW objects, objects[1] = open, objects[2] = Decls(n), objects[3] = close
      PROVE  BlockResult(BlockRule, objects) = Block(n)
  BY <1>1, <1>2, <1>6 DEF BlockResult, Block
<1> QED  BY <1>3, <1>4, <1>5, <1>6

-----------------------------------------------------------------------------
(* Where the parser is in a block.                                         *)

\* The table's state at each point.
StateAt(point, n) ==
  CASE point = "start" -> 0
    [] point = "list"  -> IF n = 0 THEN 2 ELSE 3
    [] point = "key"   -> 5
    [] point = "semi"  -> 6
    [] point = "decl"  -> IF n = 0 THEN 4 ELSE 8
    [] point = "close" -> 7
    [] point = "block" -> 1

(* The state on top of the stack at each point.                            *)
LEMMA TopAt ==
  ASSUME NEW point, NEW n, At(point, n)
  PROVE  TopState = StateAt(point, n) /\ TopState \in 0..8 /\ stack \in Seq(BlockEntry) /\ stack # <<>>
<1>0. point \in Points /\ n \in Nat /\ stack = StackAt(point, n)
  BY DEF At
<1>1. /\ Base \in Seq(BlockEntry) /\ Len(Base) = 1 /\ Base[1] = Entries(Nil, 0)
      /\ List(n) \in Seq(BlockEntry) /\ List(n) # <<>>
      /\ List(n)[Len(List(n))] = IF n = 0 THEN Entries(open, 2) ELSE Entries(Decls(n), 3)
  BY <1>0, ListIsStack
<1>2. \A o, s : Entries(o, s).state = s
  BY DEF Entries
<1>3. /\ Entries(key, 5) \in BlockEntry
      /\ Entries(semi, 6) \in BlockEntry /\ Entries(close, 7) \in BlockEntry
      /\ Entries(Decls(1), IF n = 0 THEN 4 ELSE 8) \in BlockEntry
      /\ Entries(Block(n), 1) \in BlockEntry
  BY <1>0, EntriesAreBlockEntries
<1>4. ASSUME NEW s \in Seq(BlockEntry), NEW a \in BlockEntry, stack = Append(s, a)
      PROVE  TopState = a.state /\ stack \in Seq(BlockEntry) /\ stack # <<>>
  BY <1>4, Unstack DEF TopState
<1>5. CASE point = "start"
  <2>1. stack = Base /\ Base # <<>>
    BY <1>0, <1>5 DEF StackAt, Base
  <2>2. TopState = 0
    <3>1. TopState = Base[1].state
      BY <1>1, <2>1 DEF TopState
    <3> QED  BY <1>1, <1>2, <3>1
  <2> QED  BY <1>1, <1>5, <2>1, <2>2 DEF StateAt
<1>6. CASE point = "list"
  <2>1. stack = List(n)
    BY <1>0, <1>6 DEF StackAt
  <2>2. TopState = List(n)[Len(List(n))].state
    BY <1>1, <2>1 DEF TopState
  <2>3. TopState = IF n = 0 THEN 2 ELSE 3
    BY <1>1, <1>2, <2>2
  <2> QED  BY <1>1, <1>6, <2>1, <2>3 DEF StateAt
<1>7. CASE point = "key"
  <2>1. stack = Append(List(n), Entries(key, 5))
    BY <1>0, <1>7 DEF StackAt
  <2>2. TopState = Entries(key, 5).state /\ stack \in Seq(BlockEntry) /\ stack # <<>>
    BY <1>1, <1>3, <1>4, <2>1
  <2> QED  BY <1>2, <1>7, <2>2 DEF StateAt
<1>8. CASE point = "semi"
  <2>1. stack = Append(Append(List(n), Entries(key, 5)), Entries(semi, 6))
    BY <1>0, <1>8 DEF StackAt
  <2>2. Append(List(n), Entries(key, 5)) \in Seq(BlockEntry)
    BY <1>1, <1>3, Unstack
  <2>3. TopState = Entries(semi, 6).state /\ stack \in Seq(BlockEntry) /\ stack # <<>>
    BY <1>3, <1>4, <2>1, <2>2
  <2> QED  BY <1>2, <1>8, <2>3 DEF StateAt
<1>9. CASE point = "decl"
  <2>1. stack = Append(List(n), Entries(Decls(1), IF n = 0 THEN 4 ELSE 8))
    BY <1>0, <1>9 DEF StackAt
  <2>2. TopState = Entries(Decls(1), IF n = 0 THEN 4 ELSE 8).state /\ stack \in Seq(BlockEntry)
        /\ stack # <<>>
    BY <1>1, <1>3, <1>4, <2>1
  <2>3. TopState = IF n = 0 THEN 4 ELSE 8
    BY <1>2, <2>2
  <2> QED  BY <1>9, <2>2, <2>3 DEF StateAt
<1>10. CASE point = "close"
  <2>1. stack = Append(List(n), Entries(close, 7))
    BY <1>0, <1>10 DEF StackAt
  <2>2. TopState = Entries(close, 7).state /\ stack \in Seq(BlockEntry) /\ stack # <<>>
    BY <1>1, <1>3, <1>4, <2>1
  <2> QED  BY <1>2, <1>10, <2>2 DEF StateAt
<1>11. CASE point = "block"
  <2>1. stack = Append(Base, Entries(Block(n), 1))
    BY <1>0, <1>11 DEF StackAt
  <2>2. TopState = Entries(Block(n), 1).state /\ stack \in Seq(BlockEntry) /\ stack # <<>>
    BY <1>1, <1>3, <1>4, <2>1
  <2> QED  BY <1>2, <1>11, <2>2 DEF StateAt
<1> QED  BY <1>0, <1>5, <1>6, <1>7, <1>8, <1>9, <1>10, <1>11 DEF Points

(* How much was read, at least.                                            *)
LEMMA ReadLength ==
  ASSUME BlockTables, NEW point, NEW n, Parsed(point, n)
  PROVE  /\ consumed \in Seq(Token) /\ HasNoEOF(consumed)
         /\ point \in {"close", "block"} => Len(consumed) >= 2 * n + 1
         /\ point \in {"semi", "decl"} => Len(consumed) >= 2 * n + 2
<1>0. /\ point \in Points /\ n \in Nat
      /\ point \in {"close", "block"} => n > 0
      /\ \/ consumed = Read(point, n)
         \/ BeforeClose(point, n, consumed)
         \/ AfterClose(point, n, consumed)
  BY DEF Parsed, At
<1>1. {key, close, semi, open} \subseteq Token /\ EOF \notin {open, close, key, semi}
  BY DEF BlockTables
\* Sequences of the block's tokens of a length.
<1> DEFINE Texts(k) == { s \in Seq(Token) : Len(s) = k /\ HasNoEOF(s) }
<1>2. \A k \in Nat : Opened(k) \in Texts(2 * k + 1)
  <2> SUFFICES ASSUME NEW k \in Nat PROVE Opened(k) \in Texts(2 * k + 1)
    OBVIOUS
  <2>1. Opened(k) \in Seq({open, key, semi}) /\ Len(Opened(k)) = 2 * k + 1
    <3>1. 2 * k \in Nat
      OBVIOUS
    <3>2. Decls(k) \in Seq({open, key, semi}) /\ <<open>> \in Seq({open, key, semi})
      <4>1. Decls(k) \in [1..(2 * k) -> {open, key, semi}]
        BY DEF Decls
      <4> QED  BY <3>1, <4>1
    <3>3. Opened(k) \in Seq({open, key, semi})
      BY <3>2, ConcatProperties DEF Opened
    <3> QED  BY <3>3, OpenedAt
  <2>2. \A i \in 1..Len(Opened(k)) : Opened(k)[i] \in {open, key, semi}
    BY <2>1, ElementOfSeq
  <2>3. Opened(k) \in Seq(Token)
    BY OpenedAt
  <2> QED  BY <1>1, <2>1, <2>2, <2>3 DEF HasNoEOF
<1>3. ASSUME NEW k \in Nat, NEW s \in Texts(k), NEW t \in {key, close, semi, open}
      PROVE  Append(s, t) \in Texts(k + 1)
  <2>1. s \in Seq(Token) /\ Len(s) = k /\ HasNoEOF(s) /\ t \in Token /\ t # EOF
    BY <1>1
  <2>2. /\ Append(s, t) \in Seq(Token) /\ Len(Append(s, t)) = k + 1
        /\ Append(s, t)[k + 1] = t
        /\ \A i \in 1..k : Append(s, t)[i] = s[i]
    BY <2>1, AppendAt
  <2>3. \A i \in 1..(k + 1) : Append(s, t)[i] # EOF
    BY <2>1, <2>2 DEF HasNoEOF
  <2> QED  BY <2>2, <2>3 DEF HasNoEOF
<1>4. \A k \in Nat : \A s \in Texts(k), t \in {key, close, semi, open} : Append(s, t) \in Texts(k + 1)
  BY <1>3
<1>5. <<>> \in Seq(Token) /\ HasNoEOF(<<>>)
  BY DEF HasNoEOF
<1> HIDE DEF Texts
<1>6. \A k \in Nat : \A s \in Texts(k) : s \in Seq(Token) /\ Len(s) = k /\ HasNoEOF(s)
  BY DEF Texts
<1>7. CASE consumed = Read(point, n)
  <2>1. CASE point = "start"
    BY <1>5, <1>7, <2>1 DEF Read
  <2>2. CASE point = "list"
    BY <1>0, <1>2, <1>6, <1>7, <2>2 DEF Read
  <2>3. CASE point = "key"
    <3>1. consumed \in Texts(2 * n + 1 + 1) /\ 2 * n + 1 \in Nat /\ 2 * n + 1 + 1 \in Nat
      BY <1>0, <1>2, <1>4, <1>7, <2>3 DEF Read
    <3> QED  BY <1>6, <2>3, <3>1
  <2>4. CASE point \in {"semi", "decl"}
    <3>1. consumed \in Texts(2 * (n + 1) + 1) /\ 2 * (n + 1) + 1 \in Nat
      BY <1>0, <1>2, <1>7, <2>4 DEF Read
    <3>2. Len(consumed) = 2 * (n + 1) + 1
      BY <1>6, <3>1
    <3> QED  BY <1>0, <1>6, <2>4, <3>1, <3>2
  <2>5. CASE point \in {"close", "block"}
    <3>1. consumed \in Texts(2 * n + 1 + 1) /\ 2 * n + 1 \in Nat /\ 2 * n + 1 + 1 \in Nat
      BY <1>0, <1>2, <1>4, <1>7, <2>5 DEF Read
    <3>2. Len(consumed) = 2 * n + 1 + 1
      BY <1>6, <3>1
    <3> QED  BY <1>0, <1>6, <2>5, <3>1, <3>2
  <2> QED  BY <1>0, <2>1, <2>2, <2>3, <2>4, <2>5 DEF Points
<1>8. CASE BeforeClose(point, n, consumed)
  <2>1. CASE point \in {"semi", "decl"}
    <3>1. consumed = Append(Opened(n), key)
      BY <1>8, <2>1 DEF BeforeClose
    <3>2. consumed \in Texts(2 * n + 1 + 1) /\ 2 * n + 1 \in Nat /\ 2 * n + 1 + 1 \in Nat
      BY <1>0, <1>2, <1>4, <3>1
    <3>3. Len(consumed) = 2 * n + 1 + 1
      BY <1>6, <3>2
    <3> QED  BY <1>0, <1>6, <2>1, <3>2, <3>3
  <2>2. CASE point = "list"
    <3>1. consumed = Append(Opened(n - 1), key) /\ n - 1 \in Nat
      BY <1>0, <1>8, <2>2 DEF BeforeClose
    <3> DEFINE k == 2 * (n - 1) + 1
    <3>2. k \in Nat /\ k + 1 \in Nat
      BY <3>1
    <3>3. Opened(n - 1) \in Texts(k)
      BY <1>2, <3>1
    <3> HIDE DEF k
    <3>4. consumed \in Texts(k + 1)
      BY <1>4, <3>1, <3>2, <3>3
    <3> QED  BY <1>6, <2>2, <3>2, <3>4
  <2> QED  BY <1>8, <2>1, <2>2 DEF BeforeClose
<1>9. CASE AfterClose(point, n, consumed)
  <2>1. /\ consumed = Append(Append(Opened(n - 1), key), close) /\ n - 1 \in Nat
        /\ point \in {"close", "block"}
    BY <1>0, <1>9 DEF AfterClose
  <2> DEFINE k == 2 * (n - 1) + 1
  <2>2. k \in Nat /\ k + 1 \in Nat /\ k + 1 + 1 \in Nat /\ k + 1 + 1 = 2 * n + 1
    BY <1>0, <2>1
  <2>3. Opened(n - 1) \in Texts(k)
    BY <1>2, <2>1
  <2> HIDE DEF k
  <2>4. Append(Opened(n - 1), key) \in Texts(k + 1)
    BY <1>4, <2>2, <2>3
  <2>5. consumed \in Texts(k + 1 + 1)
    BY <1>4, <2>1, <2>2, <2>4
  <2>6. Len(consumed) = k + 1 + 1 /\ consumed \in Seq(Token) /\ HasNoEOF(consumed)
    BY <1>6, <2>2, <2>5
  <2> QED  BY <1>0, <2>1, <2>2, <2>6
<1> QED  BY <1>0, <1>7, <1>8, <1>9

-----------------------------------------------------------------------------
(* The tokeniser's part.                                                   *)

\* How many tokens there can be, which bounds the objects that are built.
CountInv ==
  /\ pcT \in {"scan", "break"} => Len(produced) <= MaxProduced
  /\ pcT = "eof" => Len(produced) <= MaxProduced + 1
  /\ Len(produced) <= MaxProduced + 2

(* Every step of the tokeniser appends tokens or closes the stream.        *)
LEMMA TokeniserSteps ==
  ASSUME IInv, Tokeniser
  PROVE  /\ UNCHANGED parserVars /\ ~isClosed
         /\ \/ HasNoEOF(produced) /\ \E ts \in Seq(Token) : Grows(ts)
            \/ CloseTokenStream /\ UNCHANGED produced
<1>1. TypeOK /\ ConditionMatchesContents /\ EOFInv
  BY DEF IInv, StreamInv
<1>2. produced \in Seq(Token) /\ tokens \in Seq(Token)
  BY <1>1 DEF TypeOK, StreamTypeOK
<1>3. \A ts : ts \in Seq(Token \ {EOF}) => ts \in Seq(Token)
  OBVIOUS
<1>4. CASE Recognise
  <2>1. PICK i \in 1..Len(Matches) : AddToken(Matches[i].token)
    BY <1>4 DEF Recognise
  <2>2. pcT = "scan" /\ offset < InputLength /\ UNCHANGED parserVars
    BY <1>4 DEF Recognise
  <2>3. Matches[i].token \in Token \ {EOF}
    BY <1>1, <2>2, MatchIsToken
  <2>4. \E ts \in Seq(Token \ {EOF}) : Grows(ts)
    BY <1>1, <2>1, <2>3, AddTokenGrows
  <2> QED  BY <1>1, <1>3, <2>2, <2>4 DEF EOFInv
<1>5. CASE HandleError \/ GiveUp
  <2>1. AddToken(Error) /\ UNCHANGED parserVars /\ pcT = "scan"
    BY <1>5 DEF HandleError, GiveUp, NotRecognised
  <2>2. \E ts \in Seq(Token \ {EOF}) : Grows(ts)
    BY <1>1, <2>1, AddTokenGrows, TokenAssumption
  <2> QED  BY <1>1, <1>3, <2>1, <2>2 DEF EOFInv
<1>6. CASE WillFinish
  <2>1. pcT \in {"scan", "break"} /\ UNCHANGED parserVars
    BY <1>6 DEF WillFinish, LoopEnded
  <2>2. CASE FinishToken = Nil
    <3>1. tokens \o <<>> = tokens /\ produced \o <<>> = produced
      BY <1>2, ConcatEmptySeq
    <3>2. Grows(<<>>) /\ <<>> \in Seq(Token)
      BY <1>1, <1>6, <2>2, <3>1 DEF WillFinish, Grows, streamVars, ConditionMatchesContents,
         TypeOK, StreamTypeOK, Available, Unavailable
    <3> QED  BY <1>1, <2>1, <3>2 DEF EOFInv
  <2>3. CASE FinishToken # Nil
    <3>1. FinishToken \in Token
      BY <2>3, TokenAssumption
    <3>2. Grows(<<FinishToken>>) /\ <<FinishToken>> \in Seq(Token)
      BY <1>1, <1>6, <2>3, <3>1, PushTokenGrows DEF WillFinish
    <3> QED  BY <1>1, <2>1, <3>2 DEF EOFInv
  <2> QED  BY <2>2, <2>3
<1>7. CASE PushEOF
  <2>1. pcT = "eof" /\ PushToken(EOF) /\ produced' = Append(produced, EOF) /\ UNCHANGED parserVars
    BY <1>7 DEF PushEOF
  <2>2. Grows(<<EOF>>) /\ <<EOF>> \in Seq(Token)
    BY <1>1, <2>1, PushTokenGrows, TokenAssumption
  <2> QED  BY <1>1, <2>1, <2>2 DEF EOFInv
<1>8. CASE Close
  <2>1. /\ CloseTokenStream /\ UNCHANGED produced /\ UNCHANGED parserVars
        /\ pcT \in {"close", "scan", "break"}
    BY <1>8 DEF Close, LoopEnded
  <2> QED  BY <1>1, <2>1 DEF EOFInv
<1> QED  BY <1>4, <1>5, <1>6, <1>7, <1>8 DEF Tokeniser

(* The bound on the tokens.                                                *)
LEMMA CountStep ==
  ASSUME MaxProduced \in Nat, IInv, CountInv, [Next]_vars
  PROVE  CountInv'
<1>1. produced \in Seq(Token) /\ Len(produced) \in Nat
  BY LenProperties DEF IInv, TypeOK
<1>2. ASSUME NEW token \in Token \ {EOF}, AddToken(token)
      PROVE  Len(produced') <= MaxProduced
  <2>1. PICK ts \in Replacement(token) :
          Len(produced) + Len(ts) <= MaxProduced /\ produced' = produced \o ts
    BY <1>2 DEF AddToken
  <2>2. ts \in Seq(Token)
    BY TokenAssumption
  <2>3. Len(produced \o ts) = Len(produced) + Len(ts)
    BY <1>1, <2>2, ConcatProperties
  <2> QED  BY <2>1, <2>3
<1>3. ASSUME NEW token \in Token, produced' = Append(produced, token)
      PROVE  Len(produced') = Len(produced) + 1
  BY <1>1, <1>3, AppendProperties
<1>4. CASE Recognise
  <2>1. PICK i \in 1..Len(Matches) : AddToken(Matches[i].token)
    BY <1>4 DEF Recognise
  <2>2. offset < InputLength /\ pcT' = "scan"
    BY <1>4 DEF Recognise
  <2>3. Matches[i].token \in Token \ {EOF}
    BY <2>2, MatchIsToken DEF IInv
  <2>4. Len(produced') <= MaxProduced /\ Len(produced') <= MaxProduced + 2
    <3>1. Len(produced') <= MaxProduced
      BY <1>2, <2>1, <2>3
    <3>2. Len(produced') \in Nat
      <4>1. IInv'
        BY <1>4, InvTokeniser DEF Tokeniser
      <4> QED  BY <4>1, LenProperties DEF IInv, TypeOK
    <3> QED  BY <3>1, <3>2
  <2> QED  BY <2>2, <2>4 DEF CountInv
<1>5. CASE HandleError \/ GiveUp
  <2>1. AddToken(Error) /\ Error \in Token \ {EOF}
    BY <1>5, TokenAssumption DEF HandleError, GiveUp
  <2>2. pcT' \in {"scan", "break"}
    BY <1>5 DEF HandleError, GiveUp
  <2>3. Len(produced') <= MaxProduced
    BY <1>2, <2>1
  <2>4. Len(produced') \in Nat
    <3>1. IInv'
      BY <1>5, InvTokeniser DEF Tokeniser
    <3> QED  BY <3>1, LenProperties DEF IInv, TypeOK
  <2> QED  BY <2>2, <2>3, <2>4 DEF CountInv
<1>6. CASE WillFinish
  <2>1. pcT \in {"scan", "break"} /\ pcT' = "eof"
    BY <1>6 DEF WillFinish, LoopEnded
  <2>2. UNCHANGED produced \/ \E token \in Token : produced' = Append(produced, token)
    BY <1>6, TokenAssumption DEF WillFinish
  <2>3. Len(produced') = Len(produced) \/ Len(produced') = Len(produced) + 1
    BY <1>3, <2>2
  <2> QED  BY <1>1, <2>1, <2>3 DEF CountInv
<1>7. CASE PushEOF
  <2>1. pcT = "eof" /\ pcT' = "close" /\ produced' = Append(produced, EOF) /\ EOF \in Token
    BY <1>7, TokenAssumption DEF PushEOF
  <2>2. Len(produced') = Len(produced) + 1
    BY <1>3, <2>1
  <2> QED  BY <1>1, <2>1, <2>2 DEF CountInv
<1>8. CASE Close
  BY <1>8 DEF Close, CountInv
<1>9. CASE Parser \/ UNCHANGED vars
  <2>1. UNCHANGED tokeniserVars
    BY <1>9 DEF Parser, Peek, Pop, Shift, Reduce, Accept, Recover, Unwind, GiveUpParse,
       RecoverByAdding, RecoverByRemoving, Bail, Return, vars
  <2> QED  BY <2>1 DEF tokeniserVars, CountInv
<1> QED  BY <1>4, <1>5, <1>6, <1>7, <1>8, <1>9 DEF Next, Tokeniser

(* What is tokenised later keeps the parser's place.                       *)
LEMMA TokeniserKeepsParse ==
  ASSUME BlockTables, IInv, ParseInv, Tokeniser
  PROVE  ParseInv'
<1>1. /\ UNCHANGED parserVars /\ ~isClosed
      /\ \/ HasNoEOF(produced) /\ \E ts \in Seq(Token) : Grows(ts)
         \/ CloseTokenStream /\ UNCHANGED produced
  BY TokeniserSteps
<1>2. tokens \in Seq(Token) /\ produced \in Seq(Token) /\ EOF \in Token
  BY TokenAssumption DEF IInv, TypeOK, StreamTypeOK
<1>3. UNCHANGED <<stack, nextToken, hasErrorToken, pcP, result, consumed>>
  BY <1>1 DEF parserVars
<1>4. tokens # <<>> => tokens' # <<>> /\ Head(tokens') = Head(tokens)
  <2>1. CASE \E ts \in Seq(Token) : Grows(ts)
    BY <1>2, <2>1 DEF Grows
  <2>2. CASE CloseTokenStream
    BY <2>2 DEF CloseTokenStream
  <2> QED  BY <1>1, <2>1, <2>2
<1>5. ASSUME NEW point, NEW n, Parsed(point, n)
      PROVE  Parsed(point, n)'
  BY <1>3, <1>4, <1>5 DEF Parsed, At, HeadIs
<1>6. ASSUME NEW point, NEW n, Shifted(point, n)
      PROVE  Shifted(point, n)'
  BY <1>3, <1>4, <1>6 DEF Shifted, At
<1>7. HeadIs(close) => HeadIs(close)'
  BY <1>4 DEF HeadIs
<1>8. Doomed => Doomed'
  <2> SUFFICES ASSUME Doomed, NEW rest \in Seq(Token), isClosed' => rest = <<>>
               PROVE  ~Parses(produced' \o rest)
    BY DEF Doomed
  <2>1. ASSUME NEW ts \in Seq(Token), Grows(ts)
        PROVE  ~Parses(produced' \o rest)
    <3>1. produced' = produced \o ts
      BY <2>1 DEF Grows
    <3>2. (produced \o ts) \o rest = produced \o (ts \o rest) /\ ts \o rest \in Seq(Token)
      <4>1. produced \in Seq(Token) /\ ts \in Seq(Token) /\ rest \in Seq(Token)
        BY <1>2
      <4>2. (produced \o ts) \o rest = produced \o (ts \o rest)
        BY ONLY <4>1, ConcatAssociative
      <4>3. ts \o rest \in Seq(Token)
        BY ONLY <4>1, ConcatProperties
      <4> QED  BY <4>2, <4>3
    <3> QED  BY <1>1, <3>1, <3>2 DEF Doomed
  <2>2. CASE UNCHANGED produced
    BY <1>1, <2>2 DEF Doomed
  <2> QED  BY <1>1, <2>1, <2>2
<1>9. Parses(produced) => Parses(produced')
  <2>1. ASSUME Parses(produced) PROVE ~HasNoEOF(produced)
    <3>1. Follows(produced)
      BY <1>2, <2>1, BlockFollows
    <3>2. Len(produced) \in 1..Len(produced) /\ produced[Len(produced)] = EOF
      BY <1>2, <3>1, LenProperties DEF Follows
    <3> QED  BY <3>2 DEF HasNoEOF
  <2> QED  BY <1>1, <2>1
<1>10. (\E n \in Nat : stack = StackAt("key", n)) => (\E n \in Nat : stack' = StackAt("key", n))
  BY <1>3
<1> QED  BY <1>3, <1>5, <1>6, <1>7, <1>8, <1>9, <1>10 DEF ParseInv

-----------------------------------------------------------------------------
(* The parser's part.                                                      *)

(* The point that a state of the table tells.                              *)
LEMMA PointOf ==
  ASSUME NEW point \in Points, NEW n \in Nat
  PROVE  /\ StateAt(point, n) = 0 => point = "start"
         /\ StateAt(point, n) = 1 => point = "block"
         /\ StateAt(point, n) \in {2, 3} => point = "list"
         /\ StateAt(point, n) = 3 => n > 0
         /\ StateAt(point, n) = 4 => point = "decl" /\ n = 0
         /\ StateAt(point, n) = 5 => point = "key"
         /\ StateAt(point, n) = 6 => point = "semi"
         /\ StateAt(point, n) = 7 => point = "close"
         /\ StateAt(point, n) = 8 => point = "decl" /\ n > 0
BY DEF StateAt, Points

(* Where the parser is when it acts, and on which token.                   *)
LEMMA ActingAt ==
  ASSUME BlockTables, IInv, ParseInv, pcP = "act"
  PROVE  \E point \in Points, n \in Nat :
           /\ Parsed(point, n) /\ TopState = StateAt(point, n) /\ TopState \in StateNum
           /\ hasErrorToken => point = "key" /\ nextToken = semi /\ HeadIs(close)
           /\ ~hasErrorToken => nextToken = FirstToken
<1>1. PICK point \in Points, n \in Nat : Parsed(point, n)
  BY DEF ParseInv
<1>2. TopState = StateAt(point, n) /\ TopState \in StateNum
  BY <1>1, TopAt DEF Parsed, BlockTables
<1>3. ~hasErrorToken => nextToken = FirstToken
  BY DEF IInv, PeekedTokenStays
<1>4. ASSUME hasErrorToken PROVE point = "key" /\ nextToken = semi /\ HeadIs(close)
  <2>1. PICK m \in Nat : stack = StackAt("key", m)
    BY <1>4 DEF ParseInv
  <2>2. At("key", m)
    BY <2>1 DEF At, Points
  <2>3. TopState = 5
    BY <2>2, TopAt DEF StateAt
  <2>4. point = "key"
    BY <1>2, <2>3, PointOf
  <2> QED  BY <1>4, <2>4 DEF ParseInv
<1> QED  BY <1>1, <1>2, <1>3, <1>4

(* What it may do there: the table's answers.                              *)
LEMMA ActionAt ==
  ASSUME BlockTables, IInv, pcP = "act", Action # NoAction, TopState \in StateNum
  PROVE  /\ nextToken \in Token
         /\ \/ TopState = 0 /\ nextToken = open /\ Action = ShiftTo(2)
            \/ TopState = 1 /\ nextToken = EOF /\ Action = AcceptIt
            \/ TopState \in {2, 3} /\ nextToken = key /\ Action = ShiftTo(5)
            \/ TopState = 3 /\ nextToken = close /\ Action = ShiftTo(7)
            \/ TopState = 4 /\ nextToken \in {key, close} /\ Action = ReduceBy(OneRule)
            \/ TopState = 5 /\ nextToken = semi /\ Action = ShiftTo(6)
            \/ TopState = 6 /\ nextToken \in {key, close} /\ Action = ReduceBy(DeclRule)
            \/ TopState = 7 /\ nextToken = EOF /\ Action = ReduceBy(BlockRule)
            \/ TopState = 8 /\ nextToken \in {key, close} /\ Action = ReduceBy(MoreRule)
<1>1. nextToken \in Token /\ Action = ActionTable(TopState, nextToken)
  BY DEF IInv, TypeOK, Action
<1> QED  BY <1>1, ActionCases

(* The token acted on, unless supplied, is the head of the stream.         *)
LEMMA HeadIsNext ==
  ASSUME IInv, nextToken = FirstToken, nextToken \in Token
  PROVE  tokens # <<>> /\ Head(tokens) = nextToken
BY NilAssumption DEF FirstToken

(* No declarations, only the '{'.                                          *)
LEMMA OpenedNone == ASSUME BlockTables PROVE Opened(0) = <<open>>
<1>1. open \in Token
  BY DEF BlockTables
<1> DEFINE s == Opened(0)
           t == <<open>>
<1>2. s \in Seq(Token) /\ Len(s) = 1 /\ s[1] = open
  <2>1. 2 * 0 + 1 = 1
    OBVIOUS
  <2> QED  BY <2>1, OpenedAt
<1>3. t \in Seq(Token) /\ Len(t) = 1 /\ t[1] = open
  BY <1>1
<1> HIDE DEF s, t
<1>4. \A i \in 1..Len(s) : s[i] = t[i]
  BY <1>2, <1>3
<1>5. s = t
  BY <1>2, <1>3, <1>4, SeqEqual
<1> QED  BY <1>5 DEF s, t

(* A shift of a token of the stream, which is still to be popped.          *)
LEMMA ShiftKeepsParse ==
  ASSUME BlockTables, IInv, ParseInv, Shift
  PROVE  ParseInv'
<1>1. /\ pcP = "act" /\ Action # NoAction /\ Action.kind = "shift"
      /\ stack' = Append(stack, Entries(nextToken, Action.to))
      /\ pcP' = IF hasErrorToken THEN "peek" ELSE "pop"
      /\ UNCHANGED <<nextToken, hasErrorToken, result, consumed, tokens>>
  BY DEF Shift, Entries, streamVars
<1>2. PICK point \in Points, n \in Nat :
        /\ Parsed(point, n) /\ TopState = StateAt(point, n) /\ TopState \in StateNum
        /\ hasErrorToken => point = "key" /\ nextToken = semi /\ HeadIs(close)
        /\ ~hasErrorToken => nextToken = FirstToken
  BY <1>1, ActingAt
<1>3. /\ stack = StackAt(point, n)
      /\ \/ consumed = Read(point, n)
         \/ BeforeClose(point, n, consumed) /\ HeadIs(close)
         \/ AfterClose(point, n, consumed)
  BY <1>2 DEF Parsed, At
<1>4. /\ open # close /\ open # key /\ open # semi
      /\ close # key /\ close # semi /\ key # semi
  BY DEF BlockTables
<1>5. /\ nextToken \in Token
      /\ \/ TopState = 0 /\ nextToken = open /\ Action.to = 2
         \/ TopState \in {2, 3} /\ nextToken = key /\ Action.to = 5
         \/ TopState = 3 /\ nextToken = close /\ Action.to = 7
         \/ TopState = 5 /\ nextToken = semi /\ Action.to = 6
  BY <1>1, <1>2, ActionAt DEF ShiftTo, ReduceBy, AcceptIt
<1>6. ASSUME NEW p \in Points, NEW m \in Nat, hasErrorToken, Parsed(p, m)'
      PROVE  ParseInv'
  BY <1>1, <1>6 DEF ParseInv
<1>7. ASSUME NEW p \in Points, NEW m \in Nat, ~hasErrorToken, Shifted(p, m)'
      PROVE  ParseInv'
  BY <1>1, <1>7 DEF ParseInv
<1>8. ASSUME ~hasErrorToken, NEW p \in Points, NEW m \in Nat, p = "close" => m > 0,
             stack' = StackAt(p, m),
             \/ Append(consumed, nextToken) = Read(p, m)
             \/ AfterClose(p, m, Append(consumed, nextToken))
      PROVE  ParseInv' \/ p = "block"
  <2>1. tokens # <<>> /\ Head(tokens) = nextToken
    BY <1>2, <1>5, <1>8, HeadIsNext
  <2>2. Shifted(p, m)' \/ p = "block"
    BY <1>1, <1>8, <2>1 DEF Shifted, At
  <2> QED  BY <1>7, <1>8, <2>2
<1>9. CASE TopState = 0 /\ nextToken = open /\ Action.to = 2
  <2>1. point = "start" /\ ~hasErrorToken
    BY <1>2, <1>9, PointOf
  <2>2. stack' = StackAt("list", 0)
    BY <1>1, <1>3, <1>9, <2>1 DEF StackAt, List, Opening
  <2>3. consumed = <<>>
    BY <1>3, <2>1 DEF Read, BeforeClose, AfterClose
  <2>4. Append(consumed, open) = Read("list", 0)
    BY <2>3, OpenedNone DEF Read
  <2>5. "list" \in Points /\ 0 \in Nat /\ "list" # "close" /\ "list" # "block"
    BY DEF Points
  <2> QED  BY <1>8, <1>9, <2>1, <2>2, <2>4, <2>5
<1>10. CASE TopState \in {2, 3} /\ nextToken = key /\ Action.to = 5
  <2>1. point = "list" /\ ~hasErrorToken
    BY <1>2, <1>4, <1>10, PointOf
  <2>2. stack' = StackAt("key", n)
    BY <1>1, <1>3, <1>10, <2>1 DEF StackAt
  <2>3. ~HeadIs(close)
    BY <1>2, <1>4, <1>5, <1>10, <2>1, HeadIsNext DEF HeadIs
  <2>4. consumed = Read("list", n)
    BY <1>3, <2>1, <2>3 DEF AfterClose
  <2>5. Append(consumed, key) = Read("key", n)
    BY <2>4 DEF Read
  <2>6. "key" \in Points /\ "key" # "close" /\ "key" # "block"
    BY DEF Points
  <2> QED  BY <1>8, <1>10, <2>1, <2>2, <2>5, <2>6
<1>11. CASE TopState = 3 /\ nextToken = close /\ Action.to = 7
  <2>1. point = "list" /\ n > 0 /\ ~hasErrorToken
    BY <1>2, <1>4, <1>11, PointOf
  <2>2. stack' = StackAt("close", n)
    BY <1>1, <1>3, <1>11, <2>1 DEF StackAt
  <2>3. CASE consumed = Read("list", n)
    <3>1. Append(consumed, close) = Read("close", n)
      BY <2>3 DEF Read
    <3>2. "close" \in Points /\ "close" # "block"
      BY DEF Points
    <3> QED  BY <1>8, <1>11, <2>1, <2>2, <3>1, <3>2
  <2>4. CASE BeforeClose("list", n, consumed)
    <3>1. AfterClose("close", n, Append(consumed, close))
      BY <2>4 DEF BeforeClose, AfterClose
    <3>2. "close" \in Points /\ "close" # "block"
      BY DEF Points
    <3> QED  BY <1>8, <1>11, <2>1, <2>2, <3>1, <3>2
  <2> QED  BY <1>3, <2>1, <2>3, <2>4 DEF AfterClose
<1>12. CASE TopState = 5 /\ nextToken = semi /\ Action.to = 6
  <2>1. point = "key"
    BY <1>2, <1>12, PointOf
  <2>2. stack' = StackAt("semi", n)
    BY <1>1, <1>3, <1>12, <2>1 DEF StackAt
  <2>3. consumed = Append(Opened(n), key)
    BY <1>3, <2>1 DEF Read, BeforeClose, AfterClose
  <2>4. "semi" \in Points /\ "semi" # "close" /\ "semi" # "block"
    BY DEF Points
  <2>5. CASE hasErrorToken
    <3>1. BeforeClose("semi", n, consumed)
      BY <2>3 DEF BeforeClose
    <3>2. Parsed("semi", n)'
      BY <1>1, <1>2, <2>2, <2>4, <2>5, <3>1 DEF Parsed, At, HeadIs
    <3> QED  BY <1>6, <2>4, <2>5, <3>2
  <2>6. CASE ~hasErrorToken
    <3>1. Append(consumed, semi) = Read("semi", n)
      BY <2>3, DeclsNext DEF Read
    <3> QED  BY <1>8, <1>12, <2>2, <2>4, <2>6, <3>1
  <2> QED  BY <2>5, <2>6
<1> QED  BY <1>5, <1>9, <1>10, <1>11, <1>12

(* The next token is looked at.                                            *)
LEMMA PeekKeepsParse ==
  ASSUME BlockTables, ParseInv, Peek
  PROVE  ParseInv'
<1>1. /\ pcP = "peek" /\ pcP' = "act" /\ hasErrorToken' = FALSE
      /\ UNCHANGED <<stack, consumed, tokens>>
  BY DEF Peek, PeekToken
<1>2. PICK point \in Points, n \in Nat : Parsed(point, n)
  BY <1>1 DEF ParseInv
<1>3. Parsed(point, n)'
  BY <1>1, <1>2 DEF Parsed, At, HeadIs
<1> QED  BY <1>1, <1>3 DEF ParseInv

(* The token shifted is popped.                                            *)
LEMMA PopKeepsParse ==
  ASSUME BlockTables, ParseInv, Pop
  PROVE  ParseInv'
<1>1. /\ pcP = "pop" /\ pcP' = "peek" /\ UNCHANGED stack
      /\ tokens # <<>> => consumed' = Append(consumed, Head(tokens))
  BY DEF Pop
<1>2. PICK point \in Points, n \in Nat : Shifted(point, n)
  BY <1>1 DEF ParseInv
<1>3. Parsed(point, n)'
  BY <1>1, <1>2 DEF Parsed, Shifted, At
<1> QED  BY <1>1, <1>3 DEF ParseInv

(* The object a reduction builds has the type of the tables.               *)
LEMMA ReduceBuilds ==
  ASSUME BlockTables, IInv, Reduce, NEW below, NEW r \in Rule, Action = ReduceBy(r),
         SubSeq(stack, 1, Len(stack) - r.size) = below, below # <<>>,
         below[Len(below)].state \in StateNum
  PROVE  \E objects \in [1..r.size -> Token \cup {Nil} \cup Object] :
           /\ \A i \in 1..r.size : objects[i] = stack[Len(stack) - r.size + i].object
           /\ stack' = Append(below, Entries(BlockResult(r, objects),
                                             BlockGotos(below[Len(below)].state, r.name)))
<1>1. Action.rule = r
  BY DEF ReduceBy
<1> DEFINE right == SubSeq(stack, Len(stack) - r.size + 1, Len(stack))
           objects == [i \in 1..r.size |-> right[i].object]
           state == below[Len(below)].state
<1>2. /\ r.size <= Len(stack)
      /\ stack' = Append(below, [object |-> Result(r, objects), state |-> GotoTable(state, r.name)])
  BY <1>1 DEF Reduce
<1>3. stack \in Seq(Entry) /\ Len(stack) \in Nat /\ r.size \in Nat
  BY TableAssumption, LenProperties DEF IInv, TypeOK
<1>4. \A i \in 1..r.size : right[i] = stack[Len(stack) - r.size + i] /\ right[i] \in Entry
  <2> SUFFICES ASSUME NEW i \in 1..r.size
               PROVE  right[i] = stack[Len(stack) - r.size + i] /\ right[i] \in Entry
    OBVIOUS
  <2>1. right[i] \in Entry
    BY <1>2, <1>3, TopOfStack
  <2> DEFINE m == Len(stack) - r.size + 1
  <2>2. m \in Int /\ Len(stack) \in Int /\ \A j \in m..Len(stack) : j \in 1..Len(stack)
    BY <1>2, <1>3
  <2>3. \A j \in m..Len(stack) : stack[j] \in Entry
    BY <1>3, <2>2, ElementOfSeq
  <2>4. i \in 1..Len(stack) - m + 1 /\ m + i - 1 = Len(stack) - r.size + i
    BY <1>3
  <2> HIDE DEF m
  <2>5. SubSeq(stack, m, Len(stack))[i] = stack[m + i - 1]
    BY <2>2, <2>3, <2>4, SubSeqProperties
  <2>6. SubSeq(stack, m, Len(stack))[i] = right[i]
    BY DEF m
  <2> QED  BY <2>1, <2>4, <2>5, <2>6
<1>5. \A i \in 1..r.size : right[i].object \in Token \cup {Nil} \cup Object
  BY <1>4 DEF Entry
<1>6. objects \in [1..r.size -> Token \cup {Nil} \cup Object]
  BY <1>5
<1>7. \A i \in 1..r.size : objects[i] = stack[Len(stack) - r.size + i].object
  BY <1>4
<1> HIDE DEF objects, right
<1>8. Result(r, objects) = BlockResult(r, objects) /\ GotoTable(state, r.name) = BlockGotos(state, r.name)
  BY <1>6 DEF BlockTables
<1>9. stack' = Append(below, Entries(BlockResult(r, objects), BlockGotos(state, r.name)))
  BY <1>2, <1>8 DEF Entries
<1> QED  BY <1>6, <1>7, <1>9

(* The number of declarations that have been read is bounded, so that the  *)
(* delegate has objects for them.                                          *)
LEMMA ObjectsSuffice ==
  ASSUME BlockParse, IInv, CountInv, NEW point, NEW n, Parsed(point, n)
  PROVE  /\ n \in Nat
         /\ point \in {"close", "block"} => n \in 1..MaxLength
         /\ point \in {"semi", "decl"} => n + 1 \in 1..MaxLength
<1>1. BlockTables /\ MaxProduced \in Nat /\ MaxLength \in Nat /\ MaxProduced < 2 * MaxLength
  BY DEF BlockParse
<1>2. n \in Nat /\ (point \in {"close", "block"} => n > 0)
  BY DEF Parsed, At
<1>3. consumed \in Seq(Token) /\ tokens \in Seq(Token) /\ produced = consumed \o tokens
  BY DEF IInv, TypeOK, StreamTypeOK, StreamInv, Fifo
<1>4. /\ Len(consumed) \in Nat /\ Len(consumed) <= MaxProduced + 2
  <2>1. Len(produced) = Len(consumed) + Len(tokens) /\ Len(tokens) \in Nat /\ Len(consumed) \in Nat
    BY <1>3, ConcatProperties, LenProperties
  <2>2. Len(produced) <= MaxProduced + 2
    BY DEF CountInv
  <2> QED  BY <1>1, <2>1, <2>2
<1>5. /\ point \in {"close", "block"} => Len(consumed) >= 2 * n + 1
      /\ point \in {"semi", "decl"} => Len(consumed) >= 2 * n + 2
  BY <1>1, ReadLength
<1> QED  BY <1>1, <1>2, <1>4, <1>5

(* A reduction keeps the parser at a point of the block.                   *)
LEMMA ReduceKeepsParse ==
  ASSUME BlockParse, IInv, CountInv, ParseInv, Reduce
  PROVE  ParseInv'
<1>0. BlockTables /\ MaxLength \in Nat
  BY DEF BlockParse
<1>1. /\ pcP = "act" /\ Action # NoAction /\ Action.kind = "reduce" /\ pcP' = "act"
      /\ UNCHANGED <<nextToken, hasErrorToken, result, consumed, tokens>>
  BY DEF Reduce, streamVars
<1>2. PICK point \in Points, n \in Nat :
        /\ Parsed(point, n) /\ TopState = StateAt(point, n) /\ TopState \in StateNum
        /\ hasErrorToken => point = "key" /\ nextToken = semi /\ HeadIs(close)
        /\ ~hasErrorToken => nextToken = FirstToken
  BY <1>0, <1>1, ActingAt
<1>3. /\ stack = StackAt(point, n)
      /\ \/ consumed = Read(point, n)
         \/ BeforeClose(point, n, consumed) /\ HeadIs(close)
         \/ AfterClose(point, n, consumed)
  BY <1>2 DEF Parsed, At
<1>4. /\ point \in {"close", "block"} => n \in 1..MaxLength
      /\ point \in {"semi", "decl"} => n + 1 \in 1..MaxLength
  BY <1>2, ObjectsSuffice
<1>5. \/ TopState = 4 /\ Action = ReduceBy(OneRule)
      \/ TopState = 6 /\ Action = ReduceBy(DeclRule)
      \/ TopState = 7 /\ Action = ReduceBy(BlockRule)
      \/ TopState = 8 /\ Action = ReduceBy(MoreRule)
  BY <1>0, <1>1, <1>2, ActionAt DEF ShiftTo, AcceptIt
<1>6. ASSUME NEW p \in Points, NEW m \in Nat, point # "key", p = "block" => m > 0, p # "close",
             stack' = StackAt(p, m),
             \/ consumed = Read(p, m)
             \/ BeforeClose(p, m, consumed) /\ HeadIs(close)
             \/ AfterClose(p, m, consumed)
      PROVE  ParseInv'
  <2>1. ~hasErrorToken
    BY <1>2, <1>6
  <2>2. Parsed(p, m)'
    BY <1>1, <1>6 DEF Parsed, At, HeadIs
  <2> QED  BY <1>1, <1>6, <2>1, <2>2 DEF ParseInv
<1>7. /\ {0, 2, 3} \subseteq StateNum /\ {OneRule, DeclRule, BlockRule, MoreRule} \subseteq Rule
      /\ OneRule.size = 1 /\ DeclRule.size = 2 /\ MoreRule.size = 2 /\ BlockRule.size = 3
      /\ OneRule.name = "ds" /\ MoreRule.name = "ds" /\ DeclRule.name = "d" /\ BlockRule.name = "rule"
  BY <1>0 DEF BlockTables, OneRule, DeclRule, BlockRule, MoreRule
<1>8. /\ BlockGotos(0, "rule") = 1 /\ BlockGotos(2, "ds") = 3
      /\ BlockGotos(2, "d") = 4 /\ BlockGotos(3, "d") = 8
  BY DEF BlockGotos
<1>9. \A o, s : Entries(o, s).state = s /\ Entries(o, s).object = o
  BY DEF Entries
<1>10. /\ Base \in Seq(BlockEntry) /\ Len(Base) = 1 /\ Base[1] = Entries(Nil, 0)
       /\ Opening \in Seq(BlockEntry) /\ Len(Opening) = 2 /\ Opening[2] = Entries(open, 2)
       /\ List(n) \in Seq(BlockEntry) /\ List(n) # <<>>
       /\ Len(List(n)) = IF n = 0 THEN 2 ELSE 3
       /\ List(n)[Len(List(n))] = IF n = 0 THEN Entries(open, 2) ELSE Entries(Decls(n), 3)
  BY <1>2, ListIsStack
<1>11. /\ Entries(open, 2) \in BlockEntry /\ Entries(Decls(n), 3) \in BlockEntry
       /\ Entries(key, 5) \in BlockEntry
       /\ Entries(semi, 6) \in BlockEntry /\ Entries(close, 7) \in BlockEntry
       /\ Entries(Decls(1), IF n = 0 THEN 4 ELSE 8) \in BlockEntry
  BY <1>2, EntriesAreBlockEntries
<1>12. Base # <<>> /\ Opening # <<>>
  <2>1. Len(Base) = 1 /\ Len(Opening) = 2
    BY <1>10
  <2> QED  BY ONLY <2>1
\* d ; is the first declaration.
<1>13. CASE TopState = 4 /\ Action = ReduceBy(OneRule)
  <2>1. point = "decl" /\ n = 0 /\ 1 \in 1..MaxLength
    <3>1. point = "decl" /\ n = 0
      BY <1>2, <1>13, PointOf
    <3>2. MaxLength \in Int /\ n \in Int
      BY <1>0, <1>2
    <3> QED  BY <1>4, <3>1, <3>2
  <2>2. stack = Append(Opening, Entries(Decls(1), 4))
    BY <1>3, <2>1 DEF StackAt, List
  <2>3. Entries(Decls(1), 4) \in BlockEntry
    BY <1>11, <2>1
  <2>4. /\ Len(stack) = 3 /\ SubSeq(stack, 1, Len(stack) - 1) = Opening
        /\ stack[3] = Entries(Decls(1), 4)
    <3>1. /\ Len(stack) = Len(Opening) + 1 /\ stack[Len(stack)] = Entries(Decls(1), 4)
          /\ \A k \in 0..Len(Opening) : SubSeq(stack, 1, k) = SubSeq(Opening, 1, k)
          /\ SubSeq(Opening, 1, Len(Opening)) = Opening
      BY <1>10, <2>2, <2>3, Unstack
    <3>2. Len(stack) = 3 /\ Len(stack) - 1 = Len(Opening) /\ Len(Opening) \in 0..Len(Opening)
      BY <1>10, <3>1
    <3> QED  BY <3>1, <3>2
  <2>5. PICK objects \in [1..1 -> Token \cup {Nil} \cup Object] :
          /\ objects[1] = stack[Len(stack) - 1 + 1].object
          /\ stack' = Append(Opening, Entries(BlockResult(OneRule, objects), 3))
    <3>1. Opening[Len(Opening)].state = 2
      BY <1>9, <1>10
    <3>2. PICK objects \in [1..OneRule.size -> Token \cup {Nil} \cup Object] :
            /\ \A i \in 1..OneRule.size : objects[i] = stack[Len(stack) - OneRule.size + i].object
            /\ stack' = Append(Opening, Entries(BlockResult(OneRule, objects),
                                                BlockGotos(Opening[Len(Opening)].state, OneRule.name)))
      BY <1>0, <1>7, <1>12, <1>13, <2>4, <3>1, ReduceBuilds
    <3> QED  BY <1>7, <1>8, <3>1, <3>2
  <2>6. objects[1] = Decls(1)
    BY <1>9, <2>4, <2>5
  <2>7. BlockResult(OneRule, objects) = Decls(1)
    BY <1>0, <2>1, <2>6, ResultsAre
  <2>8. stack' = StackAt("list", 1)
    BY <2>5, <2>7 DEF StackAt, List
  <2>9. \/ consumed = Read("list", 1)
        \/ BeforeClose("list", 1, consumed) /\ HeadIs(close)
    <3>1. 0 + 1 = 1 /\ 1 - 1 = 0 /\ 1 > 0
      OBVIOUS
    <3> QED  BY <1>3, <2>1, <3>1 DEF Read, BeforeClose, AfterClose
  <2>10. "list" \in Points /\ 1 \in Nat
    BY DEF Points
  <2> QED  BY <1>6, <2>1, <2>8, <2>9, <2>10
\* A key and a ';' are a declaration.
<1>14. CASE TopState = 6 /\ Action = ReduceBy(DeclRule)
  <2>1. point = "semi" /\ 1 \in 1..MaxLength
    <3>1. point = "semi"
      BY <1>2, <1>14, PointOf
    <3>2. MaxLength \in Int /\ n \in Int
      BY <1>0, <1>2
    <3> QED  BY <1>4, <3>1, <3>2
  <2> DEFINE s == List(n)
             a == Entries(key, 5)
             b == Entries(semi, 6)
  <2>2. stack = Append(Append(s, a), b)
    BY <1>3, <2>1 DEF StackAt
  <2>3. s \in Seq(BlockEntry) /\ a \in BlockEntry /\ b \in BlockEntry /\ s # <<>>
    BY <1>10, <1>11
  <2> HIDE DEF s, a, b
  <2>4. /\ Append(s, a) \in Seq(BlockEntry) /\ Len(Append(s, a)) = Len(s) + 1
        /\ Append(s, a)[Len(Append(s, a))] = a
        /\ \A k \in 0..Len(s) : SubSeq(Append(s, a), 1, k) = SubSeq(s, 1, k)
        /\ SubSeq(s, 1, Len(s)) = s /\ Len(s) \in Nat
    BY <2>3, Unstack, LenProperties
  <2>5. /\ Len(stack) = Len(s) + 2 /\ SubSeq(stack, 1, Len(stack) - 2) = s
        /\ stack[Len(stack) - 1] = a /\ stack[Len(stack)] = b
    <3> DEFINE t == Append(s, a)
    <3>1. /\ Len(Append(t, b)) = Len(t) + 1 /\ Append(t, b)[Len(Append(t, b))] = b
          /\ \A k \in 0..Len(t) : SubSeq(Append(t, b), 1, k) = SubSeq(t, 1, k)
      <4>1. t \in Seq(BlockEntry)
        BY <2>4
      <4> HIDE DEF t
      <4> QED  BY <2>3, <4>1, Unstack
    <3>2. \A i \in 1..Len(t) : Append(t, b)[i] = t[i]
      <4>1. t \in Seq(BlockEntry)
        BY <2>4
      <4> HIDE DEF t
      <4> QED  BY <2>3, <4>1, AppendProperties
    <3>3. Len(t) = Len(s) + 1 /\ t[Len(t)] = a /\ SubSeq(t, 1, Len(s)) = s
      <4>1. Len(s) \in 0..Len(s)
        BY <2>4
      <4> QED  BY <2>4, <4>1
    <3>4. stack = Append(t, b)
      BY <2>2
    <3> HIDE DEF t
    <3>5. /\ Len(stack) = Len(s) + 2 /\ Len(stack) - 2 = Len(s) /\ Len(stack) - 1 = Len(t)
          /\ Len(s) \in 0..Len(t) /\ Len(t) \in 1..Len(t)
      BY <2>4, <3>1, <3>3, <3>4
    <3> QED  BY <3>1, <3>2, <3>3, <3>4, <3>5
  <2>6. s[Len(s)].state = IF n = 0 THEN 2 ELSE 3
    BY <1>9, <1>10 DEF s
  <2>7. PICK objects \in [1..2 -> Token \cup {Nil} \cup Object] :
          /\ objects[1] = stack[Len(stack) - 2 + 1].object
          /\ objects[2] = stack[Len(stack) - 2 + 2].object
          /\ stack' = Append(s, Entries(BlockResult(DeclRule, objects), BlockGotos(s[Len(s)].state, "d")))
    <3>1. s[Len(s)].state \in StateNum
      BY <1>7, <2>6
    <3>2. PICK objects \in [1..DeclRule.size -> Token \cup {Nil} \cup Object] :
            /\ \A i \in 1..DeclRule.size : objects[i] = stack[Len(stack) - DeclRule.size + i].object
            /\ stack' = Append(s, Entries(BlockResult(DeclRule, objects),
                                          BlockGotos(s[Len(s)].state, DeclRule.name)))
      BY <1>0, <1>7, <1>14, <2>3, <2>5, <3>1, ReduceBuilds
    <3> QED  BY <1>7, <3>2
  <2>8. objects[1] = key /\ objects[2] = semi
    <3>1. Len(stack) - 2 + 1 = Len(stack) - 1 /\ Len(stack) - 2 + 2 = Len(stack)
      BY <2>4, <2>5
    <3>2. a.object = key /\ b.object = semi
      BY <1>9 DEF a, b
    <3> QED  BY <2>5, <2>7, <3>1, <3>2
  <2>9. objects = <<key, semi>>
    BY <2>8
  <2>10. BlockResult(DeclRule, objects) = Decls(1)
    BY <1>0, <2>1, <2>9, ResultsAre
  <2>11. BlockGotos(s[Len(s)].state, "d") = IF n = 0 THEN 4 ELSE 8
    BY <1>8, <2>6
  <2>12. stack' = StackAt("decl", n)
    BY <2>7, <2>10, <2>11 DEF StackAt, s
  <2>13. \/ consumed = Read("decl", n)
         \/ BeforeClose("decl", n, consumed) /\ HeadIs(close)
    BY <1>3, <2>1 DEF Read, BeforeClose, AfterClose
  <2>14. "decl" \in Points
    BY DEF Points
  <2> QED  BY <1>6, <2>1, <2>12, <2>13, <2>14
\* '{', declarations and '}' are a block.
<1>15. CASE TopState = 7 /\ Action = ReduceBy(BlockRule)
  <2>1. point = "close" /\ n \in 1..MaxLength /\ n # 0
    <3>1. point = "close"
      BY <1>2, <1>15, PointOf
    <3>2. MaxLength \in Int /\ n \in Int
      BY <1>0, <1>2
    <3> QED  BY <1>4, <3>1, <3>2
  <2> DEFINE a == Entries(open, 2)
             b == Entries(Decls(n), 3)
             c == Entries(close, 7)
  <2>2. stack = Append(Append(Append(Base, a), b), c)
    BY <1>3, <2>1 DEF StackAt, List, Opening
  <2>3. a \in BlockEntry /\ b \in BlockEntry /\ c \in BlockEntry
    BY <1>11
  <2> HIDE DEF a, b, c
  <2>4. /\ Len(stack) = 4 /\ SubSeq(stack, 1, Len(stack) - 3) = Base
        /\ stack[2] = a /\ stack[3] = b /\ stack[4] = c
    <3> DEFINE s == Base
               t == Append(s, a)
               u == Append(t, b)
               v == Append(u, c)
    <3>0. s \in Seq(BlockEntry) /\ Len(s) = 1
      BY <1>10
    <3> HIDE DEF s
    <3>1. /\ t \in Seq(BlockEntry) /\ Len(t) = Len(s) + 1 /\ t[Len(t)] = a
          /\ \A k \in 0..Len(s) : SubSeq(t, 1, k) = SubSeq(s, 1, k)
          /\ SubSeq(s, 1, Len(s)) = s
      <4>1. s \in Seq(BlockEntry) /\ a \in BlockEntry
        BY <2>3, <3>0
      <4>2. /\ Append(s, a) \in Seq(BlockEntry)
            /\ Len(Append(s, a)) = Len(s) + 1
            /\ Append(s, a)[Len(Append(s, a))] = a
            /\ \A k \in 0..Len(s) : SubSeq(Append(s, a), 1, k) = SubSeq(s, 1, k)
            /\ SubSeq(s, 1, Len(s)) = s
        BY ONLY <4>1, Unstack
      <4> QED  BY ONLY <4>2
    <3> HIDE DEF t
    <3>2. /\ u \in Seq(BlockEntry) /\ Len(u) = Len(t) + 1 /\ u[Len(u)] = b
          /\ \A k \in 0..Len(t) : SubSeq(u, 1, k) = SubSeq(t, 1, k)
          /\ \A i \in 1..Len(t) : u[i] = t[i]
      BY <2>3, <3>1, Unstack, AppendProperties
    <3> HIDE DEF u
    <3>3. /\ v \in Seq(BlockEntry) /\ Len(v) = Len(u) + 1 /\ v[Len(v)] = c
          /\ \A k \in 0..Len(u) : SubSeq(v, 1, k) = SubSeq(u, 1, k)
          /\ \A i \in 1..Len(u) : v[i] = u[i]
      BY <2>3, <3>2, Unstack, AppendProperties
    <3> HIDE DEF v
    <3>4. stack = v
      BY <2>2 DEF s, t, u, v
    <3>5. Len(t) = 2 /\ Len(u) = 3 /\ Len(v) = 4
      BY <3>0, <3>1, <3>2, <3>3
    <3>6. v[2] = a /\ v[3] = b /\ v[4] = c
      BY <3>1, <3>2, <3>3, <3>5
    <3>7. SubSeq(v, 1, 1) = s
      BY <3>0, <3>1, <3>2, <3>3, <3>5
    <3>8. Len(v) - 3 = 1
      BY <3>5
    <3> QED  BY <3>4, <3>5, <3>6, <3>7, <3>8 DEF s
  <2>5. Base[Len(Base)].state = 0
    BY <1>9, <1>10
  <2>6. PICK objects \in [1..3 -> Token \cup {Nil} \cup Object] :
          /\ \A i \in 1..3 : objects[i] = stack[Len(stack) - 3 + i].object
          /\ stack' = Append(Base, Entries(BlockResult(BlockRule, objects), 1))
    <3>1. PICK objects \in [1..BlockRule.size -> Token \cup {Nil} \cup Object] :
            /\ \A i \in 1..BlockRule.size : objects[i] = stack[Len(stack) - BlockRule.size + i].object
            /\ stack' = Append(Base, Entries(BlockResult(BlockRule, objects),
                                             BlockGotos(Base[Len(Base)].state, BlockRule.name)))
      BY <1>0, <1>7, <1>12, <1>15, <2>4, <2>5, ReduceBuilds
    <3> QED  BY <1>7, <1>8, <2>5, <3>1
  <2>7. objects[1] = open /\ objects[2] = Decls(n) /\ objects[3] = close
    <3>1. 4 - 3 + 1 = 2 /\ 4 - 3 + 2 = 3 /\ 4 - 3 + 3 = 4 /\ 1 \in 1..3 /\ 2 \in 1..3 /\ 3 \in 1..3
      OBVIOUS
    <3>2. a.object = open /\ b.object = Decls(n) /\ c.object = close
      BY <1>9 DEF a, b, c
    <3>3. /\ objects[1] = stack[Len(stack) - 3 + 1].object
          /\ objects[2] = stack[Len(stack) - 3 + 2].object
          /\ objects[3] = stack[Len(stack) - 3 + 3].object
      BY <2>6, <3>1
    <3> QED  BY <2>4, <3>1, <3>2, <3>3
  <2>8. BlockResult(BlockRule, objects) = Block(n)
    BY <1>0, <2>1, <2>7, ResultsAre
  <2>9. stack' = StackAt("block", n)
    BY <2>6, <2>8 DEF StackAt
  <2>10. consumed = Read("block", n) \/ AfterClose("block", n, consumed)
    BY <1>3, <2>1 DEF Read, BeforeClose, AfterClose
  <2>11. "block" \in Points /\ n > 0
    BY <2>1 DEF Points
  <2> QED  BY <1>6, <2>1, <2>9, <2>10, <2>11
\* A declaration goes to those before it.
<1>16. CASE TopState = 8 /\ Action = ReduceBy(MoreRule)
  <2>1. point = "decl" /\ n > 0 /\ n + 1 \in 1..MaxLength /\ n \in 1..MaxLength
    <3>1. point = "decl" /\ n > 0
      BY <1>2, <1>16, PointOf
    <3>2. MaxLength \in Int /\ n \in Int
      BY <1>0, <1>2
    <3> QED  BY <1>4, <3>1, <3>2
  <2> DEFINE a == Entries(Decls(n), 3)
             b == Entries(Decls(1), 8)
  <2>2. stack = Append(Append(Opening, a), b)
    BY <1>3, <2>1 DEF StackAt, List
  <2>3. a \in BlockEntry /\ b \in BlockEntry
    BY <1>11, <2>1
  <2> HIDE DEF a, b
  <2>4. /\ Len(stack) = 4 /\ SubSeq(stack, 1, Len(stack) - 2) = Opening
        /\ stack[3] = a /\ stack[4] = b
    <3> DEFINE s == Opening
               t == Append(s, a)
               u == Append(t, b)
    <3>0. s \in Seq(BlockEntry) /\ Len(s) = 2
      BY <1>10
    <3> HIDE DEF s
    <3>1. /\ t \in Seq(BlockEntry) /\ Len(t) = Len(s) + 1 /\ t[Len(t)] = a
          /\ \A k \in 0..Len(s) : SubSeq(t, 1, k) = SubSeq(s, 1, k)
          /\ SubSeq(s, 1, Len(s)) = s
      <4>1. s \in Seq(BlockEntry) /\ a \in BlockEntry
        BY <2>3, <3>0
      <4>2. /\ Append(s, a) \in Seq(BlockEntry)
            /\ Len(Append(s, a)) = Len(s) + 1
            /\ Append(s, a)[Len(Append(s, a))] = a
            /\ \A k \in 0..Len(s) : SubSeq(Append(s, a), 1, k) = SubSeq(s, 1, k)
            /\ SubSeq(s, 1, Len(s)) = s
        BY ONLY <4>1, Unstack
      <4> QED  BY ONLY <4>2
    <3> HIDE DEF t
    <3>2. /\ u \in Seq(BlockEntry) /\ Len(u) = Len(t) + 1 /\ u[Len(u)] = b
          /\ \A k \in 0..Len(t) : SubSeq(u, 1, k) = SubSeq(t, 1, k)
          /\ \A i \in 1..Len(t) : u[i] = t[i]
      BY <2>3, <3>1, Unstack, AppendProperties
    <3> HIDE DEF u
    <3>3. stack = u
      BY <2>2 DEF s, t, u
    <3>4. Len(t) = 3 /\ Len(u) = 4 /\ Len(u) - 2 = 2
      BY <3>0, <3>1, <3>2
    <3>5. u[3] = a /\ u[4] = b
      BY <3>1, <3>2, <3>4
    <3>6. SubSeq(u, 1, 2) = s
      BY <3>0, <3>1, <3>2, <3>4
    <3> QED  BY <3>3, <3>4, <3>5, <3>6 DEF s
  <2>5. Opening[Len(Opening)].state = 2
    BY <1>9, <1>10
  <2>6. PICK objects \in [1..2 -> Token \cup {Nil} \cup Object] :
          /\ \A i \in 1..2 : objects[i] = stack[Len(stack) - 2 + i].object
          /\ stack' = Append(Opening, Entries(BlockResult(MoreRule, objects), 3))
    <3>1. PICK objects \in [1..MoreRule.size -> Token \cup {Nil} \cup Object] :
            /\ \A i \in 1..MoreRule.size : objects[i] = stack[Len(stack) - MoreRule.size + i].object
            /\ stack' = Append(Opening, Entries(BlockResult(MoreRule, objects),
                                                BlockGotos(Opening[Len(Opening)].state, MoreRule.name)))
      BY <1>0, <1>7, <1>12, <1>16, <2>4, <2>5, ReduceBuilds
    <3> QED  BY <1>7, <1>8, <2>5, <3>1
  <2>7. objects[1] = Decls(n) /\ objects[2] = Decls(1)
    <3>1. 4 - 2 + 1 = 3 /\ 4 - 2 + 2 = 4 /\ 1 \in 1..2 /\ 2 \in 1..2
      OBVIOUS
    <3>2. a.object = Decls(n) /\ b.object = Decls(1)
      BY <1>9 DEF a, b
    <3>3. /\ objects[1] = stack[Len(stack) - 2 + 1].object
          /\ objects[2] = stack[Len(stack) - 2 + 2].object
      BY <2>6, <3>1
    <3> QED  BY <2>4, <3>1, <3>2, <3>3
  <2>8. BlockResult(MoreRule, objects) = Decls(n + 1)
    BY <1>0, <2>1, <2>7, ResultsAre
  <2>9. stack' = StackAt("list", n + 1)
    <3>1. n + 1 # 0
      OBVIOUS
    <3> QED  BY <2>6, <2>8, <3>1 DEF StackAt, List
  <2>10. \/ consumed = Read("list", n + 1)
         \/ BeforeClose("list", n + 1, consumed) /\ HeadIs(close)
    <3>1. (n + 1) - 1 = n /\ n + 1 > 0
      OBVIOUS
    <3> QED  BY <1>3, <2>1, <3>1 DEF Read, BeforeClose, AfterClose
  <2>11. "list" \in Points /\ n + 1 \in Nat
    BY DEF Points
  <2> QED  BY <1>6, <2>1, <2>9, <2>10, <2>11
<1> QED  BY <1>5, <1>13, <1>14, <1>15, <1>16

(* An EOF at the head of the stream is all that is left of the text.       *)
LEMMA OnlyEOFLeft ==
  ASSUME IInv, tokens # <<>>, Head(tokens) = EOF
  PROVE  tokens = <<EOF>>
<1>1. consumed \in Seq(Token) /\ tokens \in Seq(Token) /\ produced = consumed \o tokens
  BY DEF IInv, TypeOK, StreamTypeOK, StreamInv, Fifo
<1>2. \A i \in 1..Len(produced) - 1 : produced[i] # EOF
  <2>1. produced \in Seq(Token) /\ Len(produced) \in Nat /\ pcT \in {"scan", "break", "eof", "close", "done"}
    BY LenProperties DEF IInv, TypeOK
  <2>2. HasNoEOF(produced) \/ EndsWithEOF
    BY <2>1 DEF IInv, EOFInv
  <2> QED  BY <2>1, <2>2 DEF HasNoEOF, EndsWithEOF
<1>3. /\ Len(consumed) \in Nat /\ Len(tokens) \in Nat /\ Len(tokens) > 0 /\ tokens[1] = EOF
      /\ Len(produced) = Len(consumed) + Len(tokens)
      /\ produced[Len(consumed) + 1] = tokens[1]
  <2>1. Len(tokens) \in Nat /\ Len(tokens) > 0 /\ Len(consumed) \in Nat /\ tokens[1] = EOF
    BY <1>1, EmptySeq, LenProperties
  <2>2. /\ Len(consumed \o tokens) = Len(consumed) + Len(tokens)
        /\ \A i \in 1..Len(consumed) + Len(tokens) :
             (consumed \o tokens)[i] = IF i <= Len(consumed) THEN consumed[i] ELSE tokens[i - Len(consumed)]
    BY <1>1, ConcatProperties
  <2>3. Len(consumed) + 1 \in 1..Len(consumed) + Len(tokens) /\ (Len(consumed) + 1) - Len(consumed) = 1
        /\ ~(Len(consumed) + 1 <= Len(consumed))
    BY <2>1
  <2> QED  BY <1>1, <2>1, <2>2, <2>3
<1>4. Len(tokens) = 1
  <2>1. ASSUME Len(tokens) # 1 PROVE FALSE
    <3>1. Len(consumed) + 1 \in 1..Len(produced) - 1
      <4>1. \A c, t, p \in Nat : t > 0 /\ t # 1 /\ p = c + t => c + 1 \in 1..p - 1
        OBVIOUS
      <4>2. /\ Len(consumed) \in Nat /\ Len(tokens) \in Nat /\ Len(produced) \in Nat
            /\ Len(tokens) > 0 /\ Len(produced) = Len(consumed) + Len(tokens)
        BY <1>3
      <4> QED  BY ONLY <2>1, <4>1, <4>2
    <3>2. produced[Len(consumed) + 1] # EOF
      BY <1>2, <3>1
    <3>3. produced[Len(consumed) + 1] = EOF
      BY <1>3
    <3> QED  BY <3>2, <3>3
  <2> QED  BY <2>1
<1> QED  BY <1>1, <1>3, <1>4

(* The end the parser sees is the end: nothing follows an EOF, whichever   *)
(* thread comes first, and no token at all means a closed stream.          *)
THEOREM EndIsFinalCorrect == Spec => []EndIsFinal
<1>1. IInv => EndIsFinal
  <2> SUFFICES ASSUME IInv PROVE EndIsFinal
    OBVIOUS
  <2>1. /\ produced \in Seq(Token) /\ Len(produced) \in Nat
        /\ pcT \in {"scan", "break", "eof", "close", "done"}
    BY LenProperties DEF IInv, TypeOK
  <2>2. HasNoEOF(produced) \/ (EndsWithEOF /\ pcT \in {"close", "done"})
    BY <2>1 DEF IInv, EOFInv
  <2>3. \A i \in 1..Len(produced) :
          produced[i] = EOF => i = Len(produced) /\ pcT \in {"close", "done"}
    <3> SUFFICES ASSUME NEW i \in 1..Len(produced), produced[i] = EOF
                 PROVE  i = Len(produced) /\ pcT \in {"close", "done"}
      OBVIOUS
    <3>1. EndsWithEOF /\ pcT \in {"close", "done"}
      BY <2>2 DEF HasNoEOF
    <3>2. i \notin 1..Len(produced) - 1
      BY <3>1 DEF EndsWithEOF
    <3>3. QED
      BY <2>1, <3>1, <3>2
  <2>4. ASSUME pcP = "act", ~hasErrorToken
        PROVE  /\ nextToken = EOF => tokens = <<EOF>>
               /\ nextToken = Nil => isClosed /\ consumed = produced
    <3>1. /\ nextToken = FirstToken /\ condition = Available
          /\ isClosed \/ tokens # <<>>
          /\ produced = consumed \o tokens
          /\ consumed \in Seq(Token) /\ tokens \in Seq(Token)
      BY <2>4 DEF IInv, PeekedTokenStays, StreamInv, ConditionMatchesContents, Fifo, TypeOK, StreamTypeOK
    <3>2. tokens # <<>> => nextToken = Head(tokens) /\ nextToken \in Token
      BY <3>1, EmptySeq DEF FirstToken
    <3>3. tokens = <<>> => nextToken = Nil /\ Nil \notin Token /\ EOF \in Token
      BY <3>1, NilAssumption, TokenAssumption DEF FirstToken
    <3>4. nextToken = EOF => tokens = <<EOF>>
      BY <3>2, <3>3, OnlyEOFLeft
    <3>5. nextToken = Nil => tokens = <<>>
      BY <3>2, NilAssumption
    <3>6. tokens = <<>> => consumed = produced
      BY <3>1, ConcatProperties, EmptySeq
    <3>7. QED
      BY <3>1, <3>4, <3>5, <3>6
  <2>5. QED
    BY <2>3, <2>4 DEF EndIsFinal
<1>2. QED
  BY Invariance, <1>1, PTL

(* The whole block was read when the parser accepts.                       *)
LEMMA AcceptKeepsParse ==
  ASSUME BlockParse, IInv, CountInv, ParseInv, Accept
  PROVE  ParseInv'
<1>0. BlockTables /\ MaxLength \in Nat /\ EOF \in Token
  BY TokenAssumption DEF BlockParse
<1>1. /\ pcP = "act" /\ Action # NoAction /\ Action.kind = "accept" /\ pcP' = "returned"
      /\ result' = IF stack = <<>> THEN Nil ELSE stack[Len(stack)].object
      /\ UNCHANGED produced
  BY DEF Accept, Return, tokeniserVars
<1>2. PICK point \in Points, n \in Nat :
        /\ Parsed(point, n) /\ TopState = StateAt(point, n) /\ TopState \in StateNum
        /\ hasErrorToken => point = "key" /\ nextToken = semi /\ HeadIs(close)
        /\ ~hasErrorToken => nextToken = FirstToken
  BY <1>0, <1>1, ActingAt
<1>3. TopState = 1 /\ nextToken = EOF
  BY <1>0, <1>1, <1>2, ActionAt DEF ShiftTo, ReduceBy
<1>4. point = "block" /\ n \in 1..MaxLength
  <2>1. point = "block"
    BY <1>2, <1>3, PointOf
  <2> QED  BY <1>2, <2>1, ObjectsSuffice
<1>5. tokens = <<EOF>>
  <2>1. nextToken = FirstToken
    BY <1>2, <1>4
  <2> QED  BY <1>0, <1>3, <2>1, HeadIsNext, OnlyEOFLeft
<1>6. Parses(produced)
  <2>1. produced = consumed \o <<EOF>>
    BY <1>5 DEF IInv, StreamInv, Fifo
  <2>2. CASE consumed = Read("block", n)
    <3>1. consumed = Block(n)
      BY <1>0, <2>2, BlockIsOpened DEF Read
    <3> QED  BY <1>4, <2>1, <3>1 DEF Parses
  <2>3. CASE AfterClose("block", n, consumed)
    <3>1. n - 1 \in Nat /\ consumed = Append(Append(Opened(n - 1), key), close)
      BY <1>4, <2>3 DEF AfterClose
    <3>2. key \in Token /\ close \in Token
      BY <1>0 DEF BlockTables
    <3> DEFINE o == Opened(n - 1)
               e == <<key, close>>
               f == <<EOF>>
    <3>3. o \in Seq(Token)
      BY <1>0, <3>1, OpenedAt
    <3>4. e \in Seq(Token) /\ f \in Seq(Token)
      BY <1>0, <3>2
    <3>10. e \o f = <<key, close, EOF>>
      <4> HIDE DEF f
      <4>1. e \o <<EOF>> = Append(e, EOF)
        BY <1>0, <3>4, AppendIsConcat
      <4>2. Append(e, EOF) = <<key, close, EOF>>
        <5> DEFINE a == Append(e, EOF)
                   g == <<key, close, EOF>>
        <5>1. Len(e) = 2 /\ e[1] = key /\ e[2] = close
          OBVIOUS
        <5>2. g \in Seq(Token) /\ Len(g) = 3 /\ g[1] = key /\ g[2] = close /\ g[3] = EOF
          BY <1>0, <3>2
        <5>3. a \in Seq(Token) /\ Len(a) = 3 /\ a[3] = EOF /\ a[1] = key /\ a[2] = close
          <6> HIDE DEF e
          <6> DEFINE k == 2
          <6>1. EOF \in Token /\ e \in Seq(Token) /\ k \in Nat /\ Len(e) = k
            BY <1>0, <3>4, <5>1
          <6> HIDE DEF k
          <6>2. /\ a \in Seq(Token) /\ Len(a) = k + 1 /\ a[k + 1] = EOF
                /\ \A i \in 1..k : a[i] = e[i]
            BY ONLY <6>1, AppendAt
          <6>3. k + 1 = 3 /\ 1 \in 1..k /\ 2 \in 1..k
            BY DEF k
          <6> QED  BY <5>1, <6>2, <6>3
        <5> HIDE DEF a, g
        <5>4. \A i \in 1..Len(a) : a[i] = g[i]
          BY <5>2, <5>3
        <5>5. a = g
          BY <5>2, <5>3, <5>4, SeqEqual
        <5> QED  BY <5>5 DEF a, g
      <4> QED  BY <4>1, <4>2 DEF f
    <3>5. consumed = o \o e
      <4> HIDE DEF o
      <4>1. Append(Append(o, key), close) = o \o e
        BY <3>2, <3>3, AppendTwice
      <4>2. consumed = Append(Append(o, key), close)
        BY <3>1 DEF o
      <4> QED  BY <4>1, <4>2
    <3>6. produced = (o \o e) \o f
      BY <2>1, <3>5
    <3>7. (o \o e) \o f = o \o (e \o f)
      <4> HIDE DEF o, e, f
      <4> QED  BY ONLY <3>3, <3>4, ConcatAssociative
    <3>8. produced = o \o <<key, close, EOF>>
      <4> HIDE DEF o, e, f
      <4> QED  BY <3>6, <3>7, <3>10
    <3>9. produced = <<open>> \o Decls(n - 1) \o <<key, close, EOF>>
      BY <3>8 DEF o, Opened
    <3> QED  BY <1>4, <3>9 DEF Parses
  <2> QED  BY <1>2, <1>4, <2>2, <2>3 DEF Parsed, BeforeClose
<1>7. result' = Block(n)
  <2>1. Base \in Seq(BlockEntry) /\ Entries(Block(n), 1) \in BlockEntry
    BY <1>2, ListIsStack, EntriesAreBlockEntries
  <2>2. stack = Append(Base, Entries(Block(n), 1))
    BY <1>2, <1>4 DEF Parsed, At, StackAt
  <2>3. stack # <<>> /\ stack[Len(stack)] = Entries(Block(n), 1)
    BY <2>1, <2>2, Unstack
  <2> QED  BY <1>1, <2>3 DEF Entries
<1>8. Block(n) # Nil
  BY <1>0, <1>4 DEF BlockTables, BlockObjects
<1> QED  BY <1>1, <1>4, <1>6, <1>7, <1>8 DEF ParseInv

(* An error where no ';' can be supplied means that the text is no block,  *)
(* whatever is still tokenised.                                            *)
LEMMA ErrorsAreFinal ==
  ASSUME BlockTables, IInv, ParseInv, pcP = "act", Action = NoAction, condition = Available,
         ~(FirstToken = close /\ semi \in AcceptableTokenNames)
  PROVE  Doomed
<1>1. PICK point \in Points, n \in Nat :
        /\ Parsed(point, n) /\ TopState = StateAt(point, n) /\ TopState \in StateNum
        /\ hasErrorToken => point = "key" /\ nextToken = semi /\ HeadIs(close)
        /\ ~hasErrorToken => nextToken = FirstToken
  BY ActingAt
<1>2. /\ {open, close, key, semi} \subseteq Token /\ EOF \in Token /\ EOF \notin {open, close, key, semi}
      /\ open # close /\ open # key /\ open # semi
      /\ close # key /\ close # semi /\ key # semi
  BY TokenAssumption DEF BlockTables
<1>3. \A t \in Token : ActionTable(TopState, t) = NoAction =>
        /\ TopState = 0 => t # open
        /\ TopState \in {1, 7} => t # EOF
        /\ TopState \in {2, 3} => t # key
        /\ TopState = 3 => t # close
        /\ TopState \in {4, 6, 8} => t \notin {key, close}
        /\ TopState = 5 => t # semi
  BY <1>1, ActionsThere
<1>4. nextToken \in Token => ActionTable(TopState, nextToken) = NoAction
  BY NilAssumption DEF Action
<1>5. ~hasErrorToken /\ nextToken = FirstToken
  <2>1. ASSUME hasErrorToken PROVE FALSE
    <3>1. TopState = 5 /\ nextToken = semi
      BY <1>1, <2>1 DEF StateAt
    <3> QED  BY <1>2, <1>3, <1>4, <3>1
  <2> QED  BY <1>1, <2>1
<1>6. consumed \in Seq(Token) /\ tokens \in Seq(Token) /\ produced = consumed \o tokens
      /\ produced \in Seq(Token)
  BY DEF IInv, TypeOK, StreamTypeOK, StreamInv, Fifo
<1> SUFFICES ASSUME NEW rest \in Seq(Token), isClosed => rest = <<>>, Parses(produced \o rest)
             PROVE  FALSE
  BY DEF Doomed
<1> DEFINE ts == produced \o rest
<1>7. ts \in Seq(Token) /\ Follows(ts)
  BY <1>2, BlockFollows
\* A text that ended before the block did.
<1>8. CASE tokens = <<>>
  <2>1. isClosed
    BY <1>8 DEF IInv, StreamInv, ConditionMatchesContents
  <2>2. produced = consumed /\ ts = consumed
    BY <1>6, <1>8, <2>1, ConcatEmptySeq
  <2>3. HasNoEOF(consumed)
    BY <1>1, ReadLength
  <2>4. Len(consumed) > 0 /\ consumed[Len(consumed)] = EOF
    BY <1>7, <2>2 DEF Follows
  <2>5. Len(consumed) \in 1..Len(consumed)
    BY <1>6, <2>4, LenProperties
  <2> QED  BY <2>3, <2>4, <2>5 DEF HasNoEOF
\* A token that does not follow what was read.
<1>9. CASE tokens # <<>>
  <2> DEFINE t == Head(tokens)
             c == Len(consumed)
  <2>1. t \in Token /\ nextToken = t /\ tokens[1] = t
    BY <1>5, <1>6, <1>9, HeadTailProperties DEF FirstToken
  <2>2. /\ c \in Nat /\ c + 1 <= Len(ts) /\ ts[c + 1] = t
        /\ \A i \in 1..c : ts[i] = consumed[i]
    <3> DEFINE s == tokens \o rest
    <3>1. ts = consumed \o s
      BY <1>6, ConcatAssociative
    <3>2. s \in Seq(Token) /\ Len(s) > 0 /\ Len(s) \in Nat /\ s[1] = t
      <4>1. /\ s \in Seq(Token) /\ Len(s) = Len(tokens) + Len(rest)
            /\ \A i \in 1..Len(tokens) + Len(rest) :
                 s[i] = IF i <= Len(tokens) THEN tokens[i] ELSE rest[i - Len(tokens)]
        BY <1>6, ConcatProperties
      <4>2. Len(tokens) \in Nat /\ Len(rest) \in Nat /\ Len(tokens) > 0
        BY <1>6, <1>9, EmptySeq, LenProperties
      <4> HIDE DEF s, t
      <4>3. 1 \in 1..Len(tokens) + Len(rest) /\ 1 <= Len(tokens)
        BY <4>2
      <4> QED  BY <2>1, <4>1, <4>2, <4>3
    <3> HIDE DEF s, ts, t
    <3>3. /\ Len(ts) = Len(consumed) + Len(s)
          /\ \A i \in 1..Len(consumed) + Len(s) :
               ts[i] = IF i <= Len(consumed) THEN consumed[i] ELSE s[i - Len(consumed)]
      BY <1>6, <3>1, <3>2, ConcatProperties
    <3>4. c \in Nat
      BY <1>6, LenProperties
    <3>5. c + 1 \in 1..c + Len(s) /\ ~(c + 1 <= c) /\ (c + 1) - c = 1
          /\ \A i \in 1..c : i \in 1..c + Len(s) /\ i <= c
      BY <3>2, <3>4
    <3> QED  BY <3>2, <3>3, <3>4, <3>5
  <2>3. /\ TopState = 0 => t # open
        /\ TopState \in {1, 7} => t # EOF
        /\ TopState \in {2, 3} => t # key
        /\ TopState = 3 => t # close
        /\ TopState \in {4, 6, 8} => t \notin {key, close}
        /\ TopState = 5 => t # semi
    BY <1>3, <1>4, <2>1
  <2>4. HeadIs(close) <=> t = close
    BY <1>9 DEF HeadIs
  <2>5. TopState = StateAt(point, n)
    BY <1>1
  <2>6. /\ point \in {"close", "block"} => n > 0
        /\ \/ consumed = Read(point, n)
           \/ BeforeClose(point, n, consumed) /\ t = close
           \/ AfterClose(point, n, consumed)
    BY <1>1, <2>4 DEF Parsed, At
  <2>7. \A k \in Nat : /\ Opened(k) \in Seq(Token) /\ Len(Opened(k)) = 2 * k + 1
                       /\ Opened(k)[2 * k + 1] \in {open, semi}
    <3> SUFFICES ASSUME NEW k \in Nat
                 PROVE  /\ Opened(k) \in Seq(Token) /\ Len(Opened(k)) = 2 * k + 1
                        /\ Opened(k)[2 * k + 1] \in {open, semi}
      OBVIOUS
    <3>1. /\ Opened(k) \in Seq(Token) /\ Len(Opened(k)) = 2 * k + 1
          /\ Opened(k)[1] = open
          /\ \A j \in 1..k : Opened(k)[2 * j] = key /\ Opened(k)[2 * j + 1] = semi
      BY OpenedAt
    <3>2. k = 0 \/ k \in 1..k
      OBVIOUS
    <3>3. k = 0 => 2 * k + 1 = 1
      OBVIOUS
    <3> QED  BY <3>1, <3>2, <3>3
  <2>8. \A k \in Nat : \A s \in Seq(Token) : \A u \in Token : Len(s) = k =>
          Append(s, u) \in Seq(Token) /\ Len(Append(s, u)) = k + 1 /\ Append(s, u)[k + 1] = u
    BY AppendAt
  <2>9. /\ Len(ts) > 0 /\ ts[1] = open
        /\ \A m \in Nat : 2 * m + 2 <= Len(ts) /\ ts[2 * m + 1] \in {open, semi} =>
             ts[2 * m + 2] = key \/ (m > 0 /\ ts[2 * m + 2] = close)
        /\ \A m \in Nat : 2 * m + 3 <= Len(ts) /\ ts[2 * m + 2] = key => ts[2 * m + 3] \in {semi, close}
        /\ \A m \in Nat : 2 * m + 3 <= Len(ts) /\ ts[2 * m + 2] = close => ts[2 * m + 3] = EOF
        /\ \A m \in Nat : 2 * m + 4 <= Len(ts) /\ ts[2 * m + 3] = close => ts[2 * m + 4] = EOF
    BY <1>7 DEF Follows
  <2> HIDE DEF ts, t, c
  <2>10. CASE point = "start"
    <3>1. TopState = 0 /\ consumed = <<>>
      BY <2>5, <2>6, <2>10 DEF StateAt, Read, BeforeClose, AfterClose
    <3>2. c = 0
      BY <3>1 DEF c
    <3> QED  BY <2>2, <2>3, <2>9, <3>1, <3>2
  <2>11. CASE point = "list"
    <3>1. TopState = IF n = 0 THEN 2 ELSE 3
      BY <2>5, <2>11 DEF StateAt
    <3>2. CASE consumed = Opened(n)
      <4>1. c = 2 * n + 1 /\ consumed[2 * n + 1] \in {open, semi}
        BY <2>7, <3>2 DEF c
      <4>2. c \in 1..c /\ c + 1 = 2 * n + 2
        BY <4>1
      <4>3. ts[2 * n + 1] \in {open, semi} /\ 2 * n + 2 <= Len(ts) /\ ts[2 * n + 2] = t
        BY <2>2, <4>1, <4>2
      <4>4. t = key \/ (n > 0 /\ t = close)
        BY <2>9, <4>3
      <4> QED  BY <2>3, <3>1, <4>4
    <3>3. CASE BeforeClose("list", n, consumed) /\ t = close
      <4>1. n # 0 /\ t = close
        BY <3>3 DEF BeforeClose
      <4> QED  BY <2>3, <3>1, <4>1
    <3> QED  BY <2>6, <2>11, <3>2, <3>3 DEF Read, AfterClose
  <2>12. CASE point = "key"
    <3>1. TopState = 5 /\ consumed = Append(Opened(n), key)
      BY <2>5, <2>6, <2>12 DEF StateAt, Read, BeforeClose, AfterClose
    <3>2. /\ Len(Append(Opened(n), key)) = (2 * n + 1) + 1
          /\ Append(Opened(n), key)[(2 * n + 1) + 1] = key
      <4>1. 2 * n + 1 \in Nat
        OBVIOUS
      <4>2. Opened(n) \in Seq(Token) /\ Len(Opened(n)) = 2 * n + 1
        BY <2>7
      <4>3. key \in Token
        BY <1>2
      <4> QED  BY <2>8, <4>1, <4>2, <4>3
    <3>3. (2 * n + 1) + 1 = 2 * n + 2 /\ 2 * n + 2 \in 1..(2 * n + 2)
      OBVIOUS
    <3>4. c = 2 * n + 2 /\ consumed[2 * n + 2] = key
      BY <3>1, <3>2, <3>3 DEF c
    <3>5. c + 1 = 2 * n + 3
      BY <3>4
    <3>6. ts[2 * n + 2] = key /\ 2 * n + 3 <= Len(ts) /\ ts[2 * n + 3] = t
      BY <2>2, <3>3, <3>4, <3>5
    <3>7. t = close
      BY <2>3, <2>9, <3>1, <3>6
    <3>8. semi \in AcceptableTokenNames
      BY <1>2, <1>3, <3>1 DEF AcceptableTokenNames
    <3> QED  BY <1>5, <2>1, <3>7, <3>8
  <2>13. CASE point \in {"semi", "decl"}
    <3>1. TopState \in {4, 6, 8}
      BY <2>5, <2>13 DEF StateAt
    <3>2. CASE consumed = Opened(n + 1)
      <4>1. n + 1 \in Nat
        OBVIOUS
      <4>2. c = 2 * (n + 1) + 1 /\ consumed[2 * (n + 1) + 1] \in {open, semi}
        BY <2>7, <3>2, <4>1 DEF c
      <4>3. c \in 1..c /\ c + 1 = 2 * (n + 1) + 2
        BY <4>2
      <4>4. ts[2 * (n + 1) + 1] \in {open, semi} /\ 2 * (n + 1) + 2 <= Len(ts) /\ ts[2 * (n + 1) + 2] = t
        BY <2>2, <4>2, <4>3
      <4>5. t = key \/ t = close
        BY <2>9, <4>1, <4>4
      <4> QED  BY <2>3, <3>1, <4>5
    <3>3. CASE t = close
      BY <2>3, <3>1, <3>3
    <3> QED  BY <2>6, <2>13, <3>2, <3>3 DEF Read, AfterClose
  <2>14. CASE point \in {"close", "block"}
    <3>1. TopState \in {1, 7} /\ t # EOF
      BY <2>3, <2>5, <2>14 DEF StateAt
    <3>2. CASE consumed = Append(Opened(n), close)
      <4>1. /\ Len(Append(Opened(n), close)) = (2 * n + 1) + 1
            /\ Append(Opened(n), close)[(2 * n + 1) + 1] = close
        <5>1. 2 * n + 1 \in Nat
          OBVIOUS
        <5>2. Opened(n) \in Seq(Token) /\ Len(Opened(n)) = 2 * n + 1
          BY <2>7
        <5>3. close \in Token
          BY <1>2
        <5> QED  BY <2>8, <5>1, <5>2, <5>3
      <4>2. (2 * n + 1) + 1 = 2 * n + 2 /\ 2 * n + 2 \in 1..(2 * n + 2)
        OBVIOUS
      <4>3. c = 2 * n + 2 /\ consumed[2 * n + 2] = close
        BY <3>2, <4>1, <4>2 DEF c
      <4>4. c + 1 = 2 * n + 3
        BY <4>3
      <4>5. ts[2 * n + 2] = close /\ 2 * n + 3 <= Len(ts) /\ ts[2 * n + 3] = t
        BY <2>2, <4>2, <4>3, <4>4
      <4> QED  BY <2>9, <3>1, <4>5
    <3>3. CASE AfterClose(point, n, consumed)
      <4> DEFINE m == n - 1
                 o == Append(Opened(m), key)
      <4>1. consumed = Append(o, close) /\ m \in Nat
        BY <2>6, <2>14, <3>3 DEF AfterClose
      <4> HIDE DEF m
      <4>2. o \in Seq(Token) /\ Len(o) = (2 * m + 1) + 1
        <5>1. 2 * m + 1 \in Nat
          BY <4>1
        <5>2. Opened(m) \in Seq(Token) /\ Len(Opened(m)) = 2 * m + 1
          BY <2>7, <4>1
        <5>3. key \in Token
          BY <1>2
        <5> QED  BY <2>8, <5>1, <5>2, <5>3 DEF o
      <4> HIDE DEF o
      <4>3. (2 * m + 1) + 1 = 2 * m + 2 /\ 2 * m + 2 \in Nat
        BY <4>1
      <4>4. Len(Append(o, close)) = (2 * m + 2) + 1 /\ Append(o, close)[(2 * m + 2) + 1] = close
        BY <1>2, <2>8, <4>2, <4>3
      <4>5. (2 * m + 2) + 1 = 2 * m + 3 /\ 2 * m + 3 \in 1..(2 * m + 3) /\ (2 * m + 3) + 1 = 2 * m + 4
        BY <4>1
      <4>6. c = 2 * m + 3 /\ consumed[2 * m + 3] = close
        BY <4>1, <4>4, <4>5 DEF c
      <4>7. ts[2 * m + 3] = close /\ 2 * m + 4 <= Len(ts) /\ ts[2 * m + 4] = t
        BY <2>2, <4>5, <4>6
      <4> QED  BY <2>9, <3>1, <4>1, <4>7
    <3> QED  BY <2>6, <2>14, <3>2, <3>3 DEF Read, BeforeClose
  <2> QED  BY <2>10, <2>11, <2>12, <2>13, <2>14 DEF Points
<1> QED  BY <1>8, <1>9

(* The delegate's answers to an error: a ';' is supplied, or it is final.  *)
LEMMA RecoverKeepsParse ==
  ASSUME BlockParse, IInv, ParseInv, Recover
  PROVE  ParseInv'
<1>0. BlockTables
  BY DEF BlockParse
<1>1. /\ pcP = "act" /\ Action = NoAction /\ condition = Available
  BY DEF Recover, Unwind, GiveUpParse, RecoverByAdding, RecoverByRemoving, Bail, Recovers
<1>2. PICK point \in Points, n \in Nat :
        /\ Parsed(point, n) /\ TopState = StateAt(point, n) /\ TopState \in StateNum
        /\ hasErrorToken => point = "key" /\ nextToken = semi /\ HeadIs(close)
        /\ ~hasErrorToken => nextToken = FirstToken
  BY <1>0, <1>1, ActingAt
<1>3. Recovery(AcceptableTokenNames, FirstToken) = OSPMapCSSRecovery(AcceptableTokenNames, FirstToken)
  <2>1. AcceptableTokenNames \in SUBSET Token
    BY DEF AcceptableTokenNames
  <2>2. FirstToken \in Token \cup {Nil}
    BY HeadTailProperties DEF FirstToken, IInv, TypeOK, StreamTypeOK
  <2> QED  BY <2>1, <2>2 DEF BlockParse
<1>4. CASE RecoverByAdding
  <2>1. PICK token \in Token : Recovers("add", token) /\ nextToken' = token
    BY <1>4 DEF RecoverByAdding
  <2>2. FirstToken = close /\ semi \in AcceptableTokenNames /\ token = semi
    BY <1>3, <2>1 DEF Recovers, OSPMapCSSRecovery
  <2>3. /\ hasErrorToken' = TRUE /\ nextToken' = semi /\ pcP' = "act"
        /\ UNCHANGED <<stack, consumed, tokens>>
    BY <1>1, <1>4, <2>1, <2>2 DEF RecoverByAdding, streamVars
  <2>4. HeadIs(close)
    <3>1. close \in Token
      BY <1>0 DEF BlockTables
    <3> QED  BY <2>2, <3>1, NilAssumption DEF FirstToken, HeadIs
  <2>5. TopState = 5
    <3>1. semi \in Token /\ ActionTable(TopState, semi) # NoAction
      BY <2>2 DEF AcceptableTokenNames
    <3>2. semi # open /\ semi # EOF /\ semi # key /\ semi # close
      BY <1>0 DEF BlockTables
    <3> QED  BY <1>0, <1>2, <3>1, <3>2, ActionCases
  <2>6. point = "key"
    BY <1>2, <2>5, PointOf
  <2>7. stack = StackAt("key", n)
    BY <1>2, <2>6 DEF Parsed, At
  <2>8. Parsed(point, n)' /\ HeadIs(close)'
    BY <1>2, <2>3, <2>4 DEF Parsed, At, HeadIs
  <2> QED  BY <2>3, <2>7, <2>8 DEF ParseInv
<1>5. CASE Bail
  <2>1. ~(FirstToken = close /\ semi \in AcceptableTokenNames)
    BY <1>3, <1>5 DEF Bail, Recovers, OSPMapCSSRecovery
  <2>2. Doomed
    BY <1>0, <1>1, <2>1, ErrorsAreFinal
  <2>3. pcP' = "returned" /\ result' = Nil /\ UNCHANGED <<produced, isClosed>>
    BY <1>5 DEF Bail, Return, streamVars, tokeniserVars
  <2>4. Doomed'
    BY <2>2, <2>3 DEF Doomed
  <2> QED  BY <2>3, <2>4 DEF ParseInv
<1>6. ~Unwind /\ ~GiveUpParse /\ ~RecoverByRemoving
  BY <1>3 DEF Unwind, GiveUpParse, RecoverByRemoving, Recovers, OSPMapCSSRecovery
<1> QED  BY <1>4, <1>5, <1>6 DEF Recover

(* The parser starts before the block.                                     *)
LEMMA ParseInit == ASSUME BlockTables, Init PROVE ParseInv
<1>1. /\ pcP = "peek" /\ stack = Base /\ consumed = <<>>
  BY DEF Init, Base, Entries
<1>2. Parsed("start", 0)
  BY <1>1 DEF Parsed, At, Points, StackAt, Read
<1>3. "start" \in Points /\ 0 \in Nat
  BY DEF Points
<1> QED  BY <1>1, <1>2, <1>3 DEF ParseInv

(* Every step keeps the parser's place.                                    *)
LEMMA ParseStep ==
  ASSUME BlockParse, IInv, CountInv, ParseInv, [Next]_vars
  PROVE  ParseInv'
<1>0. BlockTables
  BY DEF BlockParse
<1>1. CASE UNCHANGED vars
  BY <1>1 DEF vars, streamVars, tokeniserVars, parserVars, ParseInv, Parsed, Shifted, At, HeadIs, Doomed
<1>2. CASE Tokeniser
  BY <1>0, <1>2, TokeniserKeepsParse
<1>3. CASE Parser
  BY <1>0, <1>3, PeekKeepsParse, PopKeepsParse, ShiftKeepsParse, ReduceKeepsParse,
     AcceptKeepsParse, RecoverKeepsParse DEF Parser
<1> QED  BY <1>1, <1>2, <1>3 DEF Next

(* A parse in parallel with the tokeniser answers what the grammar says of *)
(* the whole text, however long it is, whatever the recognisers find in it *)
(* and however the two threads take turns.                                 *)
THEOREM SpecParallelParseIsCorrect ==
  ASSUME BlockParse
  PROVE  Spec => []ParallelParseIsCorrect
<1> DEFINE Inv == IInv /\ CountInv /\ ParseInv
<1>1. Init => Inv
  <2> SUFFICES ASSUME Init PROVE Inv
    OBVIOUS
  <2>1. CountInv
    BY DEF Init, CountInv, BlockParse
  <2> QED  BY <2>1, InvInit, ParseInit DEF BlockParse
<1>2. Inv /\ [Next]_vars => Inv'
  <2> SUFFICES ASSUME Inv, [Next]_vars PROVE Inv'
    OBVIOUS
  <2>1. IInv'
    BY InvTokeniser, InvParser, InvStutter DEF Next
  <2>2. CountInv'
    BY CountStep DEF BlockParse
  <2> QED  BY <2>1, <2>2, ParseStep
<1>3. Inv => ParallelParseIsCorrect
  <2> SUFFICES ASSUME ParseInv, IInv, pcP = "returned"
               PROVE  /\ result # Nil => Parses(produced) /\ \E n \in 1..MaxLength : result = Block(n)
                      /\ Parses(produced) => result # Nil
    BY DEF ParallelParseIsCorrect
  <2>1. Doomed => ~Parses(produced)
    <3>1. <<>> \in Seq(Token) /\ produced \o <<>> = produced
      BY ConcatEmptySeq DEF IInv, TypeOK
    <3> QED  BY <3>1 DEF Doomed
  <2> QED  BY <2>1 DEF ParseInv
<1> QED  BY <1>1, <1>2, <1>3, PTL DEF Spec

=============================================================================
