----------------------------- MODULE TokenStream -----------------------------
(***************************************************************************)
(* CPTokenStream (CoreParse): the buffer between the thread that tokenises *)
(* and the thread that parses.                                             *)
(*                                                                         *)
(* Every method takes the NSConditionLock, works on the array and releases *)
(* the lock before it returns, and none waits while it holds it.  A method *)
(* is therefore one step.  What the code can get wrong is the condition    *)
(* the lock is released with: a reader waits for "Available", so a writer  *)
(* that releases with the wrong value loses a wake-up for good.            *)
(***************************************************************************)
EXTENDS Naturals, Sequences

CONSTANTS
  Token,   \* what a stream may hold, named by -[CPToken name]
  Nil      \* Objective-C nil: no token

ASSUME NilAssumption == Nil \notin Token

VARIABLES
  tokens,     \* the array, oldest token first
  isClosed,   \* closeTokenStream was called
  condition   \* the condition value of readWriteLock while nobody holds it

streamVars == <<tokens, isClosed, condition>>

Available   == "Available"
Unavailable == "Unavailable"

StreamTypeOK ==
  /\ tokens \in Seq(Token)
  /\ isClosed \in BOOLEAN
  /\ condition \in {Available, Unavailable}

\* unlockTokenStream: the condition that fits the contents.
UnlockCondition(closed, contents) ==
  IF closed \/ contents # <<>> THEN Available ELSE Unavailable

\* init and initWithTokens: (init passes the empty array to setTokens:).
StreamInit(initTokens) ==
  /\ tokens = initTokens
  /\ isClosed = FALSE
  /\ condition = UnlockCondition(FALSE, initTokens)

\* What peekToken and popToken return once they hold the lock.
FirstToken == IF tokens = <<>> THEN Nil ELSE Head(tokens)

\* peekToken waits for Available and releases with Available.
PeekToken ==
  /\ condition = Available
  /\ condition' = Available
  /\ UNCHANGED <<tokens, isClosed>>

\* Mutants: a pop that releases as a peek does, and one that takes the
\* availability along with the token.
PopTokenBlind ==
  /\ condition = Available
  /\ tokens' = IF tokens = <<>> THEN <<>> ELSE Tail(tokens)
  /\ condition' = Available
  /\ UNCHANGED isClosed

PopTokenGreedy ==
  /\ condition = Available
  /\ tokens' = IF tokens = <<>> THEN <<>> ELSE Tail(tokens)
  /\ condition' = Unavailable
  /\ UNCHANGED isClosed

\* popToken waits for Available, drops the first token if there is one.
PopToken ==
  /\ condition = Available
  /\ tokens' = IF tokens = <<>> THEN <<>> ELSE Tail(tokens)
  /\ condition' = UnlockCondition(isClosed, tokens')
  /\ UNCHANGED isClosed

\* pushToken: releases with Available without looking.
PushToken(token) ==
  /\ tokens' = Append(tokens, token)
  /\ condition' = Available
  /\ UNCHANGED isClosed

\* Mutant: the new tokens are inserted at the wrong end.
PushTokensInFront(newTokens) ==
  /\ tokens' = newTokens \o tokens
  /\ condition' = UnlockCondition(isClosed, tokens')
  /\ UNCHANGED isClosed

\* pushTokens: may be handed an empty array.
PushTokens(newTokens) ==
  /\ tokens' = tokens \o newTokens
  /\ condition' = UnlockCondition(isClosed, tokens')
  /\ UNCHANGED isClosed

CloseTokenStream ==
  /\ isClosed' = TRUE
  /\ condition' = Available
  /\ UNCHANGED tokens

-----------------------------------------------------------------------------
(* A reader is let in exactly when there is something to tell it: a token, *)
(* or that no token will come.  (The lock condition agrees with the array  *)
(* and the closed flag after every method of CPTokenStream.)               *)
ConditionMatchesContents ==
  condition = Available <=> (isClosed \/ tokens # <<>>)

=============================================================================
