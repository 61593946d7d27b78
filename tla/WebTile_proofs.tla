---------------------------- MODULE WebTile_proofs ----------------------------
(***************************************************************************)
(* Proofs about WebTile, for every number of retries, every set of answers *)
(* and every bound on the connections.                                     *)
(***************************************************************************)
EXTENDS WebTile, SequenceTheorems, FiniteSetTheorems, TLAPS

-----------------------------------------------------------------------------
(* The inductive invariant.                                                *)

Connections == [phase : {"waiting", "receiving", "over"},
                status : AllStatuses \cup {"none"}, hasURL : BOOLEAN]

\* A connection has a status once it has answered.
Answered(conn) ==
  /\ conn.phase = "waiting" => conn.status = "none"
  /\ conn.phase = "receiving" => conn.status # "none"
StatusComesLater == \A c \in 1..Len(conns) : Answered(conns[c])

\* What the tile does for a server that is not busy: only the connection it
\* holds is alive, a timer runs only while it holds none, each start takes
\* one of the retries, and only image data arrive.
OneWorker ==
  /\ \A c \in 1..Len(conns) : conns[c].phase # "over" => c = connection
  /\ timers <= 1 /\ (connection # 0 => timers = 0)
Budget == Len(conns) + retries + timers <= Retries + 1
Retrieved == retrieved <= 1 /\ (retrieved = 1 => connection = 0 /\ timers = 0)
OnlyImageData ==
  /\ \A c \in 1..Len(conns) : conns[c].phase = "receiving" => conns[c].status = "ok"
  /\ data \subseteq {"ok"}
  /\ \A i \in 1..Len(loaded) : loaded[i] = {"ok"}
Undisturbed == OneWorker /\ Budget /\ Retrieved /\ OnlyImageData

\* What is loaded is released with it.
LoadedIsReleased == Len(loaded) <= 1 /\ (~released => loaded = <<>>)

IInv == TypeOK /\ StatusComesLater /\ LoadedIsReleased /\ (~Busy => Undisturbed)

-----------------------------------------------------------------------------
(* The methods of the tile.                                                *)

(* startLoading: adds one waiting connection, or none and shows an error.  *)
LEMMA StartLoadingEffect ==
  ASSUME NEW cs \in Seq(Connections), TypeOK, StartLoading(cs)
  PROVE  \/ /\ conns' \in Seq(Connections) /\ Len(conns') = Len(cs) + 1
            /\ \A c \in 1..Len(cs) : conns'[c] = cs[c]
            /\ conns'[Len(cs) + 1].phase = "waiting" /\ conns'[Len(cs) + 1].status = "none"
            /\ connection' = Len(cs) + 1
            /\ UNCHANGED <<contents, retrieved>>
         \/ /\ conns' = cs /\ connection' = 0
            /\ contents' = "errorTile" /\ retrieved' = retrieved + 1
<1>1. CASE conns' = cs /\ connection' = 0 /\ contents' = "errorTile" /\ retrieved' = retrieved + 1
  BY <1>1
<1>2. CASE /\ conns' = Append(cs, [phase |-> "waiting", status |-> "none", hasURL |-> ~released])
           /\ connection' = Len(conns')
           /\ UNCHANGED <<contents, retrieved>>
  <2> DEFINE new == [phase |-> "waiting", status |-> "none", hasURL |-> ~released]
  <2>1. new \in Connections
    BY DEF Connections
  <2>2. Len(cs) \in Nat
    BY LenProperties
  <2> HIDE DEF new
  <2>3. /\ Append(cs, new) \in Seq(Connections) /\ Len(Append(cs, new)) = Len(cs) + 1
        /\ \A c \in 1..Len(cs) : Append(cs, new)[c] = cs[c]
        /\ Append(cs, new)[Len(cs) + 1] = new
    BY <2>1, AppendProperties
  <2>4. new.phase = "waiting" /\ new.status = "none"
    BY DEF new
  <2>5. conns' = Append(cs, new)
    BY <1>2 DEF new
  <2>6. QED
    BY <1>2, <2>3, <2>4, <2>5
<1>3. QED
  BY <1>1, <1>2 DEF StartLoading

(* What a callback found of the connections: as many as before, of which   *)
(* it changed one.                                                         *)
Found(cs) ==
  /\ cs \in Seq(Connections) /\ Len(cs) = Len(conns)
  /\ \A c \in 1..Len(cs) : Answered(cs[c])

\* The part of the type invariant the methods change.
MethodsTyped ==
  /\ conns \in Seq(Connections) /\ StatusComesLater
  /\ connection \in 0..Len(conns)
  /\ contents \in {"blank", "missingTile", "errorTile", "image", "nothing"}
  /\ retrieved \in Nat

(* startLoading: keeps the types, and what was there of the connections.   *)
LEMMA StartLoadingTyped ==
  ASSUME TypeOK, NEW cs, Found(cs), StartLoading(cs)
  PROVE  MethodsTyped' /\ Len(conns') >= Len(cs) /\ \A c \in 1..Len(cs) : conns'[c] = cs[c]
<1>1. cs \in Seq(Connections) /\ Len(cs) \in Nat
  BY LenProperties DEF Found
<1>2. contents \in {"blank", "missingTile", "errorTile", "image", "nothing"} /\ retrieved \in Nat
  BY DEF TypeOK
<1>3. CASE /\ conns' \in Seq(Connections) /\ Len(conns') = Len(cs) + 1
           /\ \A c \in 1..Len(cs) : conns'[c] = cs[c]
           /\ conns'[Len(cs) + 1].phase = "waiting" /\ conns'[Len(cs) + 1].status = "none"
           /\ connection' = Len(cs) + 1
           /\ UNCHANGED <<contents, retrieved>>
  <2>1. \A c \in 1..Len(conns') : c \in 1..Len(cs) \/ c = Len(cs) + 1
    BY <1>1, <1>3
  <2>2. ASSUME NEW c \in 1..Len(conns')
        PROVE  Answered(conns'[c])
    <3>1. CASE c = Len(cs) + 1
      BY <1>3, <3>1 DEF Answered
    <3>2. CASE c \in 1..Len(cs)
      BY <1>3, <3>2 DEF Found
    <3>3. QED
      BY <2>1, <3>1, <3>2
  <2>3. StatusComesLater'
    BY <2>2 DEF StatusComesLater
  <2>4. connection' \in 0..Len(conns') /\ Len(conns') >= Len(cs)
    BY <1>1, <1>3
  <2>5. contents' = contents /\ retrieved' = retrieved
    BY <1>3
  <2>6. QED
    BY <1>2, <1>3, <2>3, <2>4, <2>5 DEF MethodsTyped
<1>4. CASE conns' = cs /\ connection' = 0 /\ contents' = "errorTile" /\ retrieved' = retrieved + 1
  BY <1>1, <1>2, <1>4 DEF MethodsTyped, StatusComesLater, Found
<1>5. QED
  BY <1>1, <1>3, <1>4, StartLoadingEffect

(* requestTile keeps the types, and what was there of the connections.     *)
LEMMA RequestTileTyped ==
  ASSUME TypeOK, NEW cs, Found(cs), RequestTile(cs)
  PROVE  /\ MethodsTyped' /\ Len(conns') >= Len(cs) /\ \A c \in 1..Len(cs) : conns'[c] = cs[c]
         /\ retries' \in 0..Retries /\ timers' \in Nat /\ errors' \in BOOLEAN /\ gaveUp' \in BOOLEAN
<1>1. /\ retries \in 0..Retries /\ timers \in Nat /\ errors \in BOOLEAN /\ gaveUp \in BOOLEAN
      /\ contents \in {"blank", "missingTile", "errorTile", "image", "nothing"} /\ retrieved \in Nat
  BY DEF TypeOK
<1>2. Retries \in Nat
  BY WebTileAssumption
<1>3. CASE connection = 0 /\ StartLoading(cs) /\ UNCHANGED <<retries, timers, errors, gaveUp>>
  BY <1>1, <1>3, StartLoadingTyped
<1>4. CASE /\ connection # 0 /\ retries = 0 /\ connection' = 0 /\ conns' = cs
           /\ contents' = "errorTile" /\ retrieved' = retrieved + 1
           /\ errors' = TRUE /\ gaveUp' = TRUE /\ UNCHANGED <<retries, timers>>
  <2>1. Len(cs) \in Nat
    BY LenProperties DEF Found
  <2>2. QED
    BY <1>1, <1>4, <2>1 DEF Found, MethodsTyped, StatusComesLater
<1>5. CASE /\ connection # 0 /\ retries > 0 /\ connection' = 0 /\ conns' = cs
           /\ retries' = retries - 1 /\ timers' = timers + 1
           /\ UNCHANGED <<contents, retrieved, errors, gaveUp>>
  <2>1. Len(cs) \in Nat
    BY LenProperties DEF Found
  <2>2. QED
    BY <1>1, <1>2, <1>5, <2>1 DEF Found, MethodsTyped, StatusComesLater
<1>6. QED
  BY <1>3, <1>4, <1>5 DEF RequestTile

(* cancelLoading ends the connection held, if there is one.                *)
LEMMA CancelLoadingTyped ==
  ASSUME TypeOK, NEW cs, Found(cs), CancelLoading(cs), contents' \in
           {"blank", "missingTile", "errorTile", "image", "nothing"}
  PROVE  /\ MethodsTyped' /\ connection' = 0 /\ Len(conns') = Len(cs)
         /\ \A c \in 1..Len(cs) : /\ conns'[c].status = cs[c].status
                                  /\ c # connection => conns'[c] = cs[c]
                                  /\ c = connection => conns'[c].phase = "over"
         /\ retrieved' = IF connection = 0 THEN retrieved ELSE retrieved + 1
<1>1. cs \in Seq(Connections) /\ Len(cs) \in Nat /\ retrieved \in Nat /\ connection \in 0..Len(cs)
  BY LenProperties DEF Found, TypeOK
<1>2. CASE connection = 0
  BY <1>1, <1>2 DEF CancelLoading, Found, MethodsTyped, StatusComesLater
<1>3. CASE connection # 0
  <2> DEFINE over == [cs[connection] EXCEPT !.phase = "over"]
  <2>1. connection \in 1..Len(cs) /\ cs[connection] \in Connections
    BY <1>1, <1>3
  <2>2. over \in Connections /\ over.phase = "over" /\ over.status = cs[connection].status
    BY <2>1 DEF Connections
  <2>3. conns' = [cs EXCEPT ![connection] = over]
    BY <1>3 DEF CancelLoading
  <2> HIDE DEF over
  <2>4. conns' \in Seq(Connections) /\ Len(conns') = Len(cs)
        /\ \A c \in 1..Len(cs) : conns'[c] = IF c = connection THEN over ELSE cs[c]
    BY <1>1, <2>1, <2>2, <2>3, ExceptSeq
  <2>5. connection' = 0 /\ retrieved' = retrieved + 1
    BY <1>3 DEF CancelLoading
  <2>6. StatusComesLater'
    BY <2>2, <2>4 DEF StatusComesLater, Found, Answered
  <2>7. \A c \in 1..Len(cs) : /\ conns'[c].status = cs[c].status
                              /\ c # connection => conns'[c] = cs[c]
                              /\ c = connection => conns'[c].phase = "over"
    BY <2>2, <2>4
  <2>8. QED
    BY <1>1, <1>3, <2>4, <2>5, <2>6, <2>7 DEF MethodsTyped
<1>4. QED
  BY <1>2, <1>3

(* What a callback found when only its own connection, not waiting any     *)
(* more, has changed.                                                      *)
Changed(cs, c, new) ==
  /\ Found(cs)
  /\ cs[c] = new /\ new.phase # "waiting"
  /\ (new.status = conns[c].status \/ conns[c].status = "none")
  /\ \A i \in 1..Len(conns) : i # c => cs[i] = conns[i]

(* A connection that is replaced by one that has answered.                 *)
LEMMA ChangeOfOne ==
  ASSUME TypeOK, StatusComesLater, NEW c \in 1..Len(conns), NEW cs, NEW new \in Connections,
         cs = [conns EXCEPT ![c] = new], new.phase # "waiting", Answered(new),
         new.status = conns[c].status \/ conns[c].status = "none"
  PROVE  Changed(cs, c, new)
<1>1. conns \in Seq(Connections)
  BY DEF TypeOK, Connections
<1>2. cs \in Seq(Connections) /\ Len(cs) = Len(conns)
      /\ \A i \in 1..Len(conns) : cs[i] = IF i = c THEN new ELSE conns[i]
  BY <1>1, ExceptSeq
<1>3. QED
  BY <1>2 DEF Found, StatusComesLater, Changed

(* A connection that ends.                                                 *)
LEMMA PhaseIsOver ==
  ASSUME TypeOK, StatusComesLater, NEW c \in 1..Len(conns)
  PROVE  Changed(Phase(c, "over"), c, [conns[c] EXCEPT !.phase = "over"])
<1> DEFINE new == [conns[c] EXCEPT !.phase = "over"]
<1>1. conns[c] \in Connections
  BY ElementOfSeq DEF TypeOK, Connections
<1>2. new \in Connections /\ new.phase = "over" /\ new.status = conns[c].status /\ Answered(new)
  BY <1>1 DEF Connections, Answered
<1>3. Phase(c, "over") = [conns EXCEPT ![c] = new]
  BY DEF Phase
<1> HIDE DEF new
<1>4. Changed(Phase(c, "over"), c, new)
  BY <1>2, <1>3, ChangeOfOne
<1>5. QED
  BY <1>4 DEF new

(* A connection that is answered with a status.                            *)
LEMMA ResponseChanges ==
  ASSUME TypeOK, StatusComesLater, NEW c \in 1..Len(conns), NEW status \in AllStatuses,
         conns[c].phase = "waiting"
  PROVE  LET new == [conns[c] EXCEPT !.phase = "receiving", !.status = status] IN
         Changed([conns EXCEPT ![c].phase = "receiving", ![c].status = status], c, new)
<1> DEFINE new == [conns[c] EXCEPT !.phase = "receiving", !.status = status]
           cs == [conns EXCEPT ![c].phase = "receiving", ![c].status = status]
<1>1. conns[c] \in Connections
  BY ElementOfSeq DEF TypeOK, Connections
<1>2. new \in Connections /\ new.phase = "receiving" /\ new.status = status /\ Answered(new)
  BY <1>1 DEF Connections, Answered, AllStatuses
<1>3. conns[c].status = "none"
  BY DEF StatusComesLater, Answered
<1>4. cs = [conns EXCEPT ![c] = new]
  OBVIOUS
<1> HIDE DEF new, cs
<1>5. Changed(cs, c, new)
  BY <1>2, <1>3, <1>4, ChangeOfOne
<1>6. QED
  BY <1>5 DEF cs, new

(* A server that was busy has been so for good.                            *)
LEMMA BusyStays ==
  ASSUME TypeOK, StatusComesLater, NEW cs, Len(cs) = Len(conns), Len(conns') \in Nat,
         \A i \in 1..Len(conns) : cs[i].status = conns[i].status \/ conns[i].status = "none",
         Len(conns') >= Len(cs), \A i \in 1..Len(cs) : conns'[i].status = cs[i].status
  PROVE  Busy => Busy'
<1>1. Len(conns) \in Nat
  BY LenProperties DEF TypeOK
<1>2. SUFFICES ASSUME NEW i \in 1..Len(conns), conns[i].status = "unavailable"
               PROVE  Busy'
  BY DEF Busy
<1>3. i \in 1..Len(conns') /\ conns'[i].status = "unavailable"
  BY <1>1, <1>2
<1>4. QED
  BY <1>3 DEF Busy

-----------------------------------------------------------------------------
(* The methods when the server is not busy: the connection that called     *)
(* back is the one the tile holds, and afterwards none is alive.           *)
AllOver == \A c \in 1..Len(conns) : conns[c].phase = "over"

(* requestTile from the callback of the connection held.                   *)
LEMMA RequestTileUndisturbed ==
  ASSUME TypeOK, Undisturbed, NEW c \in 1..Len(conns), conns[c].phase # "over",
         NEW cs, NEW new, Changed(cs, c, new), new.phase = "over", RequestTile(cs)
  PROVE  AllOver' /\ OneWorker' /\ Budget' /\ Retrieved'
<1>1. connection = c /\ connection # 0 /\ timers = 0 /\ retrieved = 0
  BY DEF Undisturbed, OneWorker, Retrieved, TypeOK
<1>2. \A i \in 1..Len(cs) : cs[i].phase = "over"
  BY <1>1 DEF Changed, Found, Undisturbed, OneWorker
<1>3. conns' = cs /\ Len(cs) = Len(conns) /\ connection' = 0
  BY <1>1 DEF RequestTile, Changed, Found
<1>4. AllOver'
  BY <1>2, <1>3 DEF AllOver
<1>5. Len(conns) \in Nat /\ retries \in 0..Retries /\ Retries \in Nat
  BY LenProperties, WebTileAssumption DEF TypeOK
<1>6. CASE retries = 0 /\ retrieved' = retrieved + 1 /\ UNCHANGED <<retries, timers>>
  BY <1>1, <1>3, <1>4, <1>5, <1>6 DEF AllOver, OneWorker, Budget, Retrieved, Undisturbed
<1>7. CASE retries > 0 /\ retries' = retries - 1 /\ timers' = timers + 1 /\ retrieved' = retrieved
  BY <1>1, <1>3, <1>4, <1>5, <1>7 DEF AllOver, OneWorker, Budget, Retrieved, Undisturbed
<1>8. QED
  BY <1>1, <1>6, <1>7 DEF RequestTile

(* cancelLoading when no other connection is alive.                        *)
LEMMA CancelLoadingUndisturbed ==
  ASSUME TypeOK, Undisturbed, NEW cs, Found(cs),
         \A i \in 1..Len(cs) : cs[i].phase # "over" => i = connection,
         CancelLoading(cs), UNCHANGED <<timers, retries>>,
         contents' \in {"blank", "missingTile", "errorTile", "image", "nothing"}
  PROVE  AllOver' /\ OneWorker' /\ Budget' /\ Retrieved'
<1>1. /\ connection' = 0 /\ Len(conns') = Len(cs)
      /\ \A i \in 1..Len(cs) : /\ i # connection => conns'[i] = cs[i]
                               /\ i = connection => conns'[i].phase = "over"
      /\ retrieved' = IF connection = 0 THEN retrieved ELSE retrieved + 1
  BY CancelLoadingTyped
<1>2. AllOver'
  BY <1>1 DEF AllOver
<1>3. Len(conns) \in Nat /\ Len(cs) = Len(conns) /\ timers \in Nat /\ retrieved \in Nat
  BY LenProperties DEF TypeOK, Found
<1>4. OneWorker' /\ Budget' /\ Retrieved'
  BY <1>1, <1>2, <1>3 DEF AllOver, OneWorker, Budget, Retrieved, Undisturbed
<1>5. QED
  BY <1>2, <1>4

-----------------------------------------------------------------------------
(* Each action keeps the invariant.                                        *)

(* The new tile has no connection and all its retries.                     *)
LEMMA InitInv == Init => IInv
<1> SUFFICES ASSUME Init PROVE IInv
  OBVIOUS
<1> DEFINE first == [phase |-> "waiting", status |-> "none", hasURL |-> TRUE]
<1>1. conns \in Seq(Connections) /\ Len(conns) \in {0, 1}
      /\ (Len(conns) = 1 => conns[1] = first) /\ connection = Len(conns)
  <2>1. first \in Connections
    BY DEF Connections
  <2>2. CASE conns = <<first>> /\ connection = 1
    BY <2>1, <2>2
  <2>3. CASE conns = <<>> /\ connection = 0
    BY <2>3
  <2>4. QED
    BY <2>2, <2>3 DEF Init
<1>2. Retries \in Nat
  BY WebTileAssumption
<1>3. TypeOK
  <2>1. loaded \in Seq(SUBSET AllStatuses) /\ Len(loaded) = 0 /\ data \in SUBSET AllStatuses
    BY DEF Init
  <2>2. retries \in 0..Retries /\ timers \in Nat /\ connection \in 0..Len(conns)
    BY <1>1, <1>2 DEF Init
  <2>3. released = FALSE /\ errors = FALSE /\ gaveUp = FALSE /\ removed = FALSE
    BY Zenon DEF Init
  <2>4. contents \in {"blank", "missingTile", "errorTile", "image", "nothing"} /\ retrieved \in Nat
    BY DEF Init
  <2>5. QED
    BY <1>1, <2>1, <2>2, <2>3, <2>4 DEF TypeOK, Connections
<1>4. \A c \in 1..Len(conns) : c = 1 /\ conns[c] = first /\ connection = 1
  BY <1>1
<1>5. StatusComesLater /\ LoadedIsReleased
  BY <1>4 DEF StatusComesLater, Answered, LoadedIsReleased, Init
<1>6. OneWorker /\ Budget /\ OnlyImageData
  BY <1>1, <1>2, <1>4 DEF OneWorker, Budget, OnlyImageData, Init
<1>7. Retrieved
  BY <1>1 DEF Retrieved, Init
<1>8. QED
  BY <1>3, <1>5, <1>6, <1>7 DEF IInv, Undisturbed

(* What an action must show: it types the variables, and if the server is  *)
(* not busy after it, it was not before and leaves the tile undisturbed.   *)
LEMMA KeptBy ==
  ASSUME TypeOK, StatusComesLater, ~Busy => Undisturbed, MethodsTyped',
         retries' \in 0..Retries, timers' \in Nat, data' \in SUBSET AllStatuses,
         released' \in BOOLEAN, errors' \in BOOLEAN, loaded' \in Seq(SUBSET AllStatuses),
         gaveUp' \in BOOLEAN, removed' \in BOOLEAN, LoadedIsReleased',
         Busy => Busy', Undisturbed /\ ~Busy' => Undisturbed'
  PROVE  IInv'
<1>1. TypeOK' /\ StatusComesLater'
  BY DEF MethodsTyped, TypeOK, Connections
<1>2. QED
  BY <1>1 DEF IInv

(* connection:didReceiveResponse: keeps the invariant for any status.      *)
LEMMA DidReceiveResponseInv ==
  ASSUME IInv, NEW c \in 1..MaxStarted, NEW status \in Statuses, DidReceiveResponse(c, status)
  PROVE  IInv'
<1> DEFINE new == [conns[c] EXCEPT !.phase = "receiving", !.status = status]
           cs == [conns EXCEPT ![c].phase = "receiving", ![c].status = status]
<1>1. /\ TypeOK /\ StatusComesLater /\ LoadedIsReleased /\ (~Busy => Undisturbed)
      /\ Len(conns) \in Nat /\ status \in AllStatuses /\ MaxStarted \in Nat
  BY LenProperties, WebTileAssumption DEF IInv, TypeOK
<1>2. c \in 1..Len(conns) /\ conns[c].phase = "waiting"
  BY <1>1 DEF DidReceiveResponse, Waiting
<1>3. Changed(cs, c, new)
  BY <1>1, <1>2, ResponseChanges
<1>4. new.phase = "receiving" /\ new.status = status /\ conns[c].status = "none"
  <2>1. conns[c] \in Connections
    BY <1>1, <1>2, ElementOfSeq DEF TypeOK, Connections
  <2>2. QED
    BY <1>1, <1>2, <2>1 DEF StatusComesLater, Answered, Connections
<1>5. /\ \/ /\ status = "ok" /\ conns' = cs
            /\ UNCHANGED <<connection, retries, timers, contents, retrieved, errors, gaveUp>>
         \/ /\ status \in {"notFound", "refused"} /\ CancelLoading(cs)
            /\ contents' = IF status = "notFound" THEN "missingTile" ELSE contents
            /\ errors' = TRUE /\ UNCHANGED <<retries, timers, gaveUp>>
         \/ status = "unavailable" /\ RequestTile(cs)
      /\ data' = {} /\ UNCHANGED <<released, loaded, removed>>
  BY DEF DidReceiveResponse
<1> HIDE DEF new, cs
<1>6. /\ Found(cs) /\ Len(cs) = Len(conns) /\ cs[c] = new
      /\ \A i \in 1..Len(conns) : i # c => cs[i] = conns[i]
      /\ \A i \in 1..Len(conns) : cs[i].status = conns[i].status \/ conns[i].status = "none"
  BY <1>3, <1>4 DEF Changed, Found
<1>7. /\ data' \in SUBSET AllStatuses /\ released' \in BOOLEAN /\ loaded' \in Seq(SUBSET AllStatuses)
      /\ removed' \in BOOLEAN
  BY <1>1, <1>5 DEF TypeOK
<1>8. LoadedIsReleased'
  BY <1>1, <1>5 DEF LoadedIsReleased
<1>9. Undisturbed => c = connection /\ \A i \in 1..Len(conns) : i # c => conns[i].phase = "over"
  BY <1>2 DEF Undisturbed, OneWorker
<1>10. CASE /\ status = "ok" /\ conns' = cs
            /\ UNCHANGED <<connection, retries, timers, contents, retrieved, errors, gaveUp>>
  <2>1. MethodsTyped'
    BY <1>1, <1>6, <1>10 DEF TypeOK, Found, MethodsTyped, StatusComesLater
  <2>2. Busy => Busy'
    BY <1>1, <1>6, <1>10, BusyStays
  <2>3. ASSUME Undisturbed PROVE Undisturbed'
    <3>1. OneWorker'
      BY <1>6, <1>9, <1>10, <2>3 DEF OneWorker, Undisturbed
    <3>2. Budget' /\ Retrieved'
      BY <1>6, <1>10, <2>3 DEF Budget, Retrieved, Undisturbed
    <3>3. OnlyImageData'
      BY <1>4, <1>5, <1>6, <1>9, <1>10, <2>3 DEF OnlyImageData, Undisturbed
    <3>4. QED
      BY <3>1, <3>2, <3>3 DEF Undisturbed
  <2>4. retries' \in 0..Retries /\ timers' \in Nat /\ errors' \in BOOLEAN /\ gaveUp' \in BOOLEAN
    BY <1>1, <1>10 DEF TypeOK
  <2>5. QED
    BY <1>1, <1>7, <1>8, <2>1, <2>2, <2>3, <2>4, KeptBy
<1>11. CASE /\ status \in {"notFound", "refused"} /\ CancelLoading(cs)
            /\ contents' = IF status = "notFound" THEN "missingTile" ELSE contents
            /\ errors' = TRUE /\ UNCHANGED <<retries, timers, gaveUp>>
  <2>1. contents' \in {"blank", "missingTile", "errorTile", "image", "nothing"}
    BY <1>1, <1>11 DEF TypeOK
  <2>2. /\ MethodsTyped' /\ Len(conns') = Len(cs)
        /\ \A i \in 1..Len(cs) : conns'[i].status = cs[i].status
    BY <1>1, <1>6, <1>11, <2>1, CancelLoadingTyped
  <2>3. Busy => Busy'
    BY <1>1, <1>6, <2>2, BusyStays
  <2>4. ASSUME Undisturbed PROVE Undisturbed'
    <3>1. \A i \in 1..Len(cs) : cs[i].phase # "over" => i = connection
      BY <1>6, <1>9, <2>4
    <3>2. AllOver' /\ OneWorker' /\ Budget' /\ Retrieved'
      BY <1>1, <1>6, <1>11, <2>1, <2>4, <3>1, CancelLoadingUndisturbed
    <3>3. OnlyImageData'
      BY <1>5, <2>4, <3>2 DEF AllOver, OnlyImageData, Undisturbed
    <3>4. QED
      BY <3>2, <3>3 DEF Undisturbed
  <2>5. retries' \in 0..Retries /\ timers' \in Nat /\ errors' \in BOOLEAN /\ gaveUp' \in BOOLEAN
    BY <1>1, <1>11 DEF TypeOK
  <2>6. QED
    BY <1>1, <1>7, <1>8, <2>2, <2>3, <2>4, <2>5, KeptBy
<1>12. CASE status = "unavailable" /\ RequestTile(cs)
  <2>1. /\ MethodsTyped' /\ Len(conns') >= Len(cs) /\ \A i \in 1..Len(cs) : conns'[i] = cs[i]
        /\ retries' \in 0..Retries /\ timers' \in Nat /\ errors' \in BOOLEAN /\ gaveUp' \in BOOLEAN
    BY <1>1, <1>6, <1>12, RequestTileTyped
  <2>2. Len(conns') \in Nat
    BY <2>1, LenProperties DEF MethodsTyped
  <2>3. c \in 1..Len(conns') /\ conns'[c].status = "unavailable"
    BY <1>1, <1>2, <1>4, <1>6, <1>12, <2>1, <2>2
  <2>4. Busy'
    BY <2>3 DEF Busy
  <2>5. QED
    BY <1>1, <1>7, <1>8, <2>1, <2>4, KeptBy
<1>13. QED
  BY <1>5, <1>10, <1>11, <1>12

(* connection:didReceiveData: keeps the invariant.                         *)
LEMMA DidReceiveDataInv ==
  ASSUME IInv, NEW c \in 1..MaxStarted, DidReceiveData(c)
  PROVE  IInv'
<1>1. /\ TypeOK /\ StatusComesLater /\ LoadedIsReleased /\ (~Busy => Undisturbed)
      /\ Len(conns) \in Nat
  BY LenProperties, WebTileAssumption DEF IInv, TypeOK
<1>2. c \in 1..Len(conns) /\ conns[c].phase = "receiving"
  BY <1>1, WebTileAssumption DEF DidReceiveData, Receiving
<1>3. /\ data' = IF released THEN data ELSE data \cup {conns[c].status}
      /\ UNCHANGED <<conns, connection, retries, timers, released, contents,
                     retrieved, errors, loaded, gaveUp, removed>>
  BY DEF DidReceiveData
<1>4. TypeOK'
  <2>1. conns[c] \in Connections
    BY <1>1, <1>2, ElementOfSeq DEF TypeOK, Connections
  <2>2. conns[c].status \in AllStatuses
    BY <1>1, <1>2, <2>1 DEF Connections, StatusComesLater, Answered
  <2>3. data' \in SUBSET AllStatuses
    BY <1>1, <1>3, <2>2 DEF TypeOK
  <2>4. QED
    BY <1>1, <1>3, <2>3 DEF TypeOK
<1>5. StatusComesLater' /\ LoadedIsReleased' /\ (Busy' <=> Busy)
  BY <1>1, <1>3 DEF StatusComesLater, LoadedIsReleased, Busy
<1>6. ASSUME ~Busy PROVE Undisturbed'
  BY <1>1, <1>2, <1>3, <1>6 DEF Undisturbed, OneWorker, Budget, Retrieved, OnlyImageData
<1>7. QED
  BY <1>4, <1>5, <1>6 DEF IInv

(* A connection that ends with requestTile: it failed in a way worth a     *)
(* retry, or it brought no data.                                           *)
LEMMA EndsAndRetries ==
  ASSUME IInv, NEW c \in 1..Len(conns), conns[c].phase # "over", RequestTile(Phase(c, "over")),
         UNCHANGED <<data, released, loaded, removed>>
  PROVE  IInv'
<1> DEFINE new == [conns[c] EXCEPT !.phase = "over"]
           cs == Phase(c, "over")
<1>1. TypeOK /\ StatusComesLater /\ LoadedIsReleased /\ (~Busy => Undisturbed)
  BY DEF IInv
<1>2. Changed(cs, c, new)
  BY <1>1, PhaseIsOver
<1>3. new.phase = "over" /\ new.status = conns[c].status
  <2>1. conns[c] \in Connections
    BY <1>1, ElementOfSeq DEF TypeOK, Connections
  <2>2. QED
    BY <2>1 DEF Connections
<1>4. RequestTile(cs)
  OBVIOUS
<1> HIDE DEF new, cs
<1>5. Found(cs) /\ Len(cs) = Len(conns) /\ \A i \in 1..Len(conns) : cs[i].status = conns[i].status
  BY <1>2, <1>3 DEF Changed, Found
<1>6. /\ MethodsTyped' /\ Len(conns') >= Len(cs) /\ \A i \in 1..Len(cs) : conns'[i] = cs[i]
      /\ retries' \in 0..Retries /\ timers' \in Nat /\ errors' \in BOOLEAN /\ gaveUp' \in BOOLEAN
  BY <1>1, <1>4, <1>5, RequestTileTyped
<1>7. Len(conns') \in Nat
  BY <1>6, LenProperties DEF MethodsTyped
<1>8. Busy => Busy'
  BY <1>1, <1>5, <1>6, <1>7, BusyStays
<1>9. ASSUME Undisturbed PROVE Undisturbed'
  <2>1. AllOver' /\ OneWorker' /\ Budget' /\ Retrieved'
    BY <1>1, <1>2, <1>3, <1>4, <1>9, RequestTileUndisturbed
  <2>2. OnlyImageData'
    BY <1>9, <2>1 DEF AllOver, OnlyImageData, Undisturbed
  <2>3. QED
    BY <2>1, <2>2 DEF Undisturbed
<1>10. /\ data' \in SUBSET AllStatuses /\ released' \in BOOLEAN /\ loaded' \in Seq(SUBSET AllStatuses)
       /\ removed' \in BOOLEAN /\ LoadedIsReleased'
  BY <1>1 DEF TypeOK, LoadedIsReleased
<1>11. QED
  BY <1>1, <1>6, <1>8, <1>9, <1>10, KeptBy

(* A connection that ends with, or a tile that is removed by, cancelLoading. *)
LEMMA CancelLoadingInv ==
  ASSUME IInv, NEW cs, Found(cs),
         \A i \in 1..Len(conns) : cs[i].status = conns[i].status,
         \A i \in 1..Len(conns) : cs[i].phase # "over" => conns[i].phase # "over",
         CancelLoading(cs), errors' \in BOOLEAN, removed' \in BOOLEAN,
         UNCHANGED <<retries, timers, data, released, contents, loaded, gaveUp>>
  PROVE  IInv'
<1>1. /\ TypeOK /\ StatusComesLater /\ LoadedIsReleased /\ (~Busy => Undisturbed)
      /\ contents' \in {"blank", "missingTile", "errorTile", "image", "nothing"}
  BY DEF IInv, TypeOK
<1>2. Len(cs) = Len(conns) /\ Len(conns) \in Nat
  BY LenProperties DEF Found
<1>3. /\ MethodsTyped' /\ Len(conns') = Len(cs)
      /\ \A i \in 1..Len(cs) : conns'[i].status = cs[i].status
  BY <1>1, CancelLoadingTyped
<1>4. Busy => Busy'
  BY <1>1, <1>2, <1>3, BusyStays
<1>5. ASSUME Undisturbed PROVE Undisturbed'
  <2>1. \A i \in 1..Len(cs) : cs[i].phase # "over" => i = connection
    BY <1>2, <1>5 DEF Undisturbed, OneWorker
  <2>2. AllOver' /\ OneWorker' /\ Budget' /\ Retrieved'
    BY <1>1, <1>5, <2>1, CancelLoadingUndisturbed
  <2>3. OnlyImageData'
    BY <1>5, <2>2 DEF AllOver, OnlyImageData, Undisturbed
  <2>4. QED
    BY <2>2, <2>3 DEF Undisturbed
<1>6. /\ data' \in SUBSET AllStatuses /\ released' \in BOOLEAN /\ loaded' \in Seq(SUBSET AllStatuses)
      /\ gaveUp' \in BOOLEAN /\ retries' \in 0..Retries /\ timers' \in Nat /\ LoadedIsReleased'
  BY <1>1 DEF TypeOK, LoadedIsReleased
<1>7. QED
  BY <1>1, <1>3, <1>4, <1>5, <1>6, KeptBy

(* connection:didFailWithError: keeps the invariant.                       *)
LEMMA DidFailWithErrorInv ==
  ASSUME IInv, NEW c \in 1..MaxStarted, NEW retry \in BOOLEAN, DidFailWithError(c, retry)
  PROVE  IInv'
<1>1. /\ TypeOK /\ StatusComesLater /\ Len(conns) \in Nat /\ MaxStarted \in Nat
  BY LenProperties, WebTileAssumption DEF IInv, TypeOK
<1>2. c \in 1..Len(conns) /\ conns[c].phase # "over"
  BY <1>1 DEF DidFailWithError, Waiting, Receiving
<1>3. CASE retry
  BY <1>2, <1>3, EndsAndRetries DEF DidFailWithError
<1>4. CASE ~retry
  <2> DEFINE new == [conns[c] EXCEPT !.phase = "over"]
             cs == Phase(c, "over")
  <2>1. Changed(cs, c, new)
    BY <1>1, <1>2, PhaseIsOver
  <2>2. new.phase = "over" /\ new.status = conns[c].status
    <3>1. conns[c] \in Connections
      BY <1>1, <1>2, ElementOfSeq DEF TypeOK, Connections
    <3>2. QED
      BY <3>1 DEF Connections
  <2>3. /\ CancelLoading(cs) /\ errors' = TRUE
        /\ UNCHANGED <<retries, timers, data, released, contents, loaded, gaveUp, removed>>
    BY <1>4 DEF DidFailWithError
  <2> HIDE DEF new, cs
  <2>4. /\ Found(cs) /\ \A i \in 1..Len(conns) : cs[i].status = conns[i].status
        /\ \A i \in 1..Len(conns) : cs[i].phase # "over" => conns[i].phase # "over"
    BY <1>2, <2>1, <2>2 DEF Changed, Found
  <2>5. errors' \in BOOLEAN /\ removed' \in BOOLEAN
    BY <1>1, <2>3 DEF TypeOK
  <2>6. QED
    BY <2>3, <2>4, <2>5, CancelLoadingInv
<1>5. QED
  BY <1>3, <1>4

(* connectionDidFinishLoading: keeps the invariant.                        *)
LEMMA DidFinishLoadingInv ==
  ASSUME IInv, NEW c \in 1..MaxStarted, DidFinishLoading(c)
  PROVE  IInv'
<1>1. /\ TypeOK /\ StatusComesLater /\ LoadedIsReleased /\ (~Busy => Undisturbed)
      /\ Len(conns) \in Nat /\ MaxStarted \in Nat
  BY LenProperties, WebTileAssumption DEF IInv, TypeOK
<1>2. c \in 1..Len(conns) /\ conns[c].phase = "receiving"
  BY <1>1 DEF DidFinishLoading, Receiving
<1>3. CASE released \/ data = {}
  BY <1>2, <1>3, EndsAndRetries DEF DidFinishLoading
<1>4. CASE ~released /\ data # {}
  <2> DEFINE new == [conns[c] EXCEPT !.phase = "over"]
             cs == Phase(c, "over")
  <2>1. Changed(cs, c, new)
    BY <1>1, <1>2, PhaseIsOver
  <2>2. new.phase = "over" /\ new.status = conns[c].status
    <3>1. conns[c] \in Connections
      BY <1>1, <1>2, ElementOfSeq DEF TypeOK, Connections
    <3>2. QED
      BY <3>1 DEF Connections
  <2>3. /\ loaded' = Append(loaded, data) /\ contents' = IF data = {"ok"} THEN "image" ELSE "nothing"
        /\ data' = {} /\ released' = TRUE /\ conns' = cs /\ connection' = 0 /\ retrieved' = retrieved + 1
        /\ UNCHANGED <<retries, timers, errors, gaveUp, removed>>
    BY <1>4 DEF DidFinishLoading
  <2> HIDE DEF new, cs
  <2>4. loaded = <<>>
    BY <1>1, <1>4 DEF LoadedIsReleased
  <2>5. loaded' = <<data>> /\ Len(loaded') = 1 /\ loaded'[1] = data /\ loaded' \in Seq(SUBSET AllStatuses)
    BY <1>1, <2>3, <2>4 DEF TypeOK
  <2>6. /\ Found(cs) /\ Len(cs) = Len(conns)
        /\ \A i \in 1..Len(conns) : cs[i].status = conns[i].status
    BY <2>1, <2>2 DEF Changed, Found
  <2>7. MethodsTyped'
    <3>1. contents' \in {"blank", "missingTile", "errorTile", "image", "nothing"} /\ retrieved' \in Nat
      BY <1>1, <2>3 DEF TypeOK
    <3>2. QED
      BY <1>1, <2>3, <2>6, <3>1 DEF Found, MethodsTyped, StatusComesLater
  <2>8. Busy => Busy'
    BY <1>1, <2>3, <2>6, BusyStays
  <2>9. ASSUME Undisturbed PROVE Undisturbed'
    <3>1. c = connection /\ timers = 0 /\ retrieved = 0
      BY <1>1, <1>2, <2>9 DEF Undisturbed, OneWorker, Retrieved, TypeOK
    <3>2. AllOver'
      BY <2>1, <2>2, <2>3, <2>6, <2>9, <3>1 DEF AllOver, Changed, Undisturbed, OneWorker
    <3>3. OneWorker' /\ Budget' /\ Retrieved'
      BY <2>3, <2>6, <2>9, <3>1, <3>2 DEF AllOver, Undisturbed, OneWorker, Budget, Retrieved
    <3>4. data = {"ok"}
      BY <1>4, <2>9 DEF Undisturbed, OnlyImageData
    <3>5. OnlyImageData'
      BY <2>3, <2>5, <3>2, <3>4 DEF AllOver, OnlyImageData
    <3>6. QED
      BY <3>3, <3>5 DEF Undisturbed
  <2>10. LoadedIsReleased'
    BY <2>3, <2>5 DEF LoadedIsReleased
  <2>11. /\ data' \in SUBSET AllStatuses /\ released' \in BOOLEAN /\ removed' \in BOOLEAN
         /\ errors' \in BOOLEAN /\ gaveUp' \in BOOLEAN /\ retries' \in 0..Retries /\ timers' \in Nat
    BY <1>1, <2>3 DEF TypeOK
  <2>12. QED
    BY <1>1, <2>5, <2>7, <2>8, <2>9, <2>10, <2>11, KeptBy
<1>5. QED
  BY <1>3, <1>4

(* The retry timer keeps the invariant.                                    *)
LEMMA TimerFiresInv ==
  ASSUME IInv, TimerFires
  PROVE  IInv'
<1>1. /\ TypeOK /\ StatusComesLater /\ LoadedIsReleased /\ (~Busy => Undisturbed)
      /\ Len(conns) \in Nat /\ conns \in Seq(Connections) /\ timers \in Nat
  BY LenProperties DEF IInv, TypeOK, Connections
<1>2. Found(conns)
  BY <1>1 DEF Found, StatusComesLater
<1>3. /\ StartLoading(conns) /\ timers > 0 /\ timers' = timers - 1
      /\ UNCHANGED <<retries, data, released, errors, loaded, gaveUp, removed>>
  BY DEF TimerFires
<1>4. MethodsTyped' /\ Len(conns') >= Len(conns) /\ \A i \in 1..Len(conns) : conns'[i] = conns[i]
  BY <1>1, <1>2, <1>3, StartLoadingTyped
<1>5. Len(conns') \in Nat
  BY <1>4, LenProperties DEF MethodsTyped
<1>6. Busy => Busy'
  BY <1>1, <1>4, <1>5, BusyStays
<1>7. ASSUME Undisturbed PROVE Undisturbed'
  <2>1. connection = 0 /\ timers = 1 /\ timers' = 0 /\ retrieved = 0
    BY <1>1, <1>3, <1>7 DEF Undisturbed, OneWorker, Retrieved, TypeOK
  <2>2. \A i \in 1..Len(conns) : conns[i].phase = "over"
    BY <1>7, <2>1 DEF Undisturbed, OneWorker
  <2>3. OnlyImageData' /\ OneWorker' /\ Budget' /\ Retrieved'
    <3>1. CASE /\ conns' \in Seq(Connections) /\ Len(conns') = Len(conns) + 1
               /\ \A i \in 1..Len(conns) : conns'[i] = conns[i]
               /\ conns'[Len(conns) + 1].phase = "waiting" /\ conns'[Len(conns) + 1].status = "none"
               /\ connection' = Len(conns) + 1
               /\ UNCHANGED <<contents, retrieved>>
      <4>1. \A i \in 1..Len(conns') : i \in 1..Len(conns) \/ i = Len(conns) + 1
        BY <1>1, <3>1
      <4>2. OnlyImageData'
        BY <1>3, <1>7, <2>2, <3>1, <4>1 DEF Undisturbed, OnlyImageData
      <4>3. OneWorker'
        BY <2>1, <2>2, <3>1, <4>1 DEF OneWorker
      <4>4. Budget' /\ Retrieved'
        BY <1>1, <1>3, <1>7, <2>1, <3>1, WebTileAssumption DEF Undisturbed, Budget, Retrieved, TypeOK
      <4>5. QED
        BY <4>2, <4>3, <4>4
    <3>2. CASE conns' = conns /\ connection' = 0 /\ contents' = "errorTile" /\ retrieved' = retrieved + 1
      <4>1. OnlyImageData' /\ OneWorker'
        BY <1>3, <1>7, <2>1, <2>2, <3>2 DEF Undisturbed, OnlyImageData, OneWorker
      <4>2. Budget' /\ Retrieved'
        BY <1>1, <1>3, <1>7, <2>1, <3>2, WebTileAssumption DEF Undisturbed, Budget, Retrieved, TypeOK
      <4>3. QED
        BY <4>1, <4>2
    <3>3. QED
      BY <1>1, <1>3, <3>1, <3>2, StartLoadingEffect
  <2>4. QED
    BY <2>3 DEF Undisturbed
<1>8. /\ data' \in SUBSET AllStatuses /\ released' \in BOOLEAN /\ loaded' \in Seq(SUBSET AllStatuses)
      /\ removed' \in BOOLEAN /\ errors' \in BOOLEAN /\ gaveUp' \in BOOLEAN /\ LoadedIsReleased'
      /\ retries' \in 0..Retries /\ timers' \in Nat
  BY <1>1, <1>3 DEF TypeOK, LoadedIsReleased
<1>9. QED
  BY <1>1, <1>4, <1>6, <1>7, <1>8, KeptBy

(* A tile that leaves the screen keeps the invariant.                      *)
LEMMA TileRemovedInv ==
  ASSUME IInv, TileRemovedFromScreen
  PROVE  IInv'
<1>1. Found(conns) /\ errors \in BOOLEAN
  BY DEF IInv, TypeOK, Connections, Found, StatusComesLater
<1>2. errors' \in BOOLEAN /\ removed' \in BOOLEAN
  BY <1>1 DEF TileRemovedFromScreen
<1>3. QED
  BY <1>1, <1>2, CancelLoadingInv DEF TileRemovedFromScreen

(* The inductive invariant holds of every behaviour.                       *)
THEOREM Invariance == Spec => []IInv
<1>1. IInv /\ [Next]_vars => IInv'
  <2> SUFFICES ASSUME IInv, [Next]_vars PROVE IInv'
    OBVIOUS
  <2>1. ASSUME NEW c \in 1..MaxStarted, Callback(c) PROVE IInv'
    BY <2>1, DidReceiveResponseInv, DidReceiveDataInv, DidFailWithErrorInv, DidFinishLoadingInv
       DEF Callback
  <2>2. CASE UNCHANGED vars
    BY <2>2 DEF vars, IInv, TypeOK, StatusComesLater, LoadedIsReleased, Busy, Undisturbed, OneWorker,
       Budget, Retrieved, OnlyImageData
  <2>3. QED
    BY <2>1, <2>2, TimerFiresInv, TileRemovedInv DEF Next
<1>2. QED
  BY InitInv, <1>1, PTL DEF Spec

-----------------------------------------------------------------------------
(* For any number of retries, and whatever the server answers in whatever  *)
(* order: unless a busy server made the tile leave a connection behind, at *)
(* most one connection or timer works for the tile, and it starts at most  *)
(* kWebTileRetries + 1 connections.                                        *)
THEOREM SpecOneAtATime == Spec => []OneAtATime
<1>1. IInv => OneAtATime
  <2> SUFFICES ASSUME IInv PROVE OneAtATime
    OBVIOUS
  <2>1. TypeOK /\ Len(conns) \in Nat
    BY LenProperties DEF IInv, TypeOK
  <2>2. ASSUME ~Busy PROVE Cardinality(Live) + timers <= 1 /\ Len(conns) <= Retries + 1
    <3>1. OneWorker /\ Budget
      BY <2>2 DEF IInv, Undisturbed
    <3>2. Retries \in Nat /\ retries \in Nat /\ timers \in Nat
      BY <2>1, WebTileAssumption DEF TypeOK
    <3>3. Cardinality(Live) + timers <= 1
      <4>1. CASE connection = 0
        <5>1. Live = {}
          BY <3>1, <4>1 DEF Live, OneWorker
        <5>2. QED
          BY <3>1, <3>2, <5>1, FS_EmptySet DEF OneWorker
      <4>2. CASE connection # 0
        <5>1. Live \subseteq {connection} /\ timers = 0
          BY <3>1, <4>2 DEF Live, OneWorker
        <5>2. IsFiniteSet({connection}) /\ Cardinality({connection}) = 1
          BY FS_Singleton
        <5>3. Cardinality(Live) <= 1
          BY <5>1, <5>2, FS_Subset
        <5>4. IsFiniteSet(Live)
          BY <5>1, <5>2, FS_Subset
        <5>5. QED
          BY <5>1, <5>3, <5>4, FS_CardinalityType
      <4>3. QED
        BY <4>1, <4>2
    <3>4. QED
      BY <2>1, <3>1, <3>2, <3>3 DEF Budget
  <2>3. QED
    BY <2>1, <2>2 DEF OneAtATime
<1>2. QED
  BY Invariance, <1>1, PTL

(* ... and RMTileRetrieved is posted at most once for its RMTileRequested. *)
THEOREM SpecRetrievedOnce == Spec => []RetrievedOnce
<1>1. IInv => RetrievedOnce
  BY DEF IInv, Undisturbed, Retrieved, RetrievedOnce
<1>2. QED
  BY Invariance, <1>1, PTL

(* However many connections call back, the listeners get at most one       *)
(* image, and without a busy server what they get is an image.             *)
THEOREM SpecOnlyImagesAreLoaded == Spec => []OnlyImagesAreLoaded
<1>1. IInv => OnlyImagesAreLoaded
  BY DEF IInv, LoadedIsReleased, Undisturbed, OnlyImageData, OnlyImagesAreLoaded
<1>2. QED
  BY Invariance, <1>1, PTL

(* startLoading: leaves a connection that will call back, or an error.     *)
LEMMA StartLoadingIsHeard ==
  ASSUME TypeOK, NEW cs \in Seq(Connections), StartLoading(cs)
  PROVE  Live' # {} \/ contents' = "errorTile"
<1>1. Len(cs) \in Nat
  BY LenProperties
<1>2. CASE Len(conns') = Len(cs) + 1 /\ conns'[Len(cs) + 1].phase = "waiting"
  <2>1. Len(cs) + 1 \in Live'
    BY <1>1, <1>2 DEF Live
  <2>2. QED
    BY <2>1
<1>3. QED
  BY <1>2, StartLoadingEffect

(* requestTile leaves a connection, a timer or an error.                   *)
LEMMA RequestTileIsHeard ==
  ASSUME TypeOK, NEW cs \in Seq(Connections), RequestTile(cs)
  PROVE  NoSilentFailure'
<1>1. timers \in Nat
  BY DEF TypeOK
<1>2. CASE StartLoading(cs)
  BY <1>2, StartLoadingIsHeard DEF NoSilentFailure, Quiescent
<1>3. CASE contents' = "errorTile"
  BY <1>3 DEF NoSilentFailure
<1>4. CASE timers' = timers + 1
  BY <1>1, <1>4 DEF NoSilentFailure, Quiescent
<1>5. QED
  BY <1>2, <1>3, <1>4 DEF RequestTile

(* Each callback of a connection leaves the tile waiting for something,    *)
(* shown, in error or removed.                                             *)
LEMMA CallbackIsHeard ==
  ASSUME IInv, NEW c \in 1..MaxStarted, Callback(c)
  PROVE  NoSilentFailure'
<1>1. /\ TypeOK /\ StatusComesLater /\ Len(conns) \in Nat /\ MaxStarted \in Nat
      /\ conns \in Seq(Connections)
  BY LenProperties, WebTileAssumption DEF IInv, TypeOK, Connections
<1>2. ASSUME NEW status \in Statuses, DidReceiveResponse(c, status) PROVE NoSilentFailure'
  <2> DEFINE new == [conns[c] EXCEPT !.phase = "receiving", !.status = status]
             cs == [conns EXCEPT ![c].phase = "receiving", ![c].status = status]
  <2>1. c \in 1..Len(conns) /\ conns[c].phase = "waiting" /\ status \in AllStatuses
    BY <1>1, <1>2, WebTileAssumption DEF DidReceiveResponse, Waiting
  <2>2. Changed(cs, c, new)
    BY <1>1, <2>1, ResponseChanges
  <2>3. new.phase = "receiving"
    <3>1. conns[c] \in Connections
      BY <1>1, <2>1, ElementOfSeq
    <3>2. QED
      BY <3>1 DEF Connections
  <2>4. \/ conns' = cs
        \/ errors' = TRUE
        \/ RequestTile(cs)
    BY <1>2 DEF DidReceiveResponse
  <2> HIDE DEF new, cs
  <2>5. CASE conns' = cs
    <3>1. c \in Live'
      BY <2>1, <2>2, <2>3, <2>5 DEF Changed, Found, Live
    <3>2. QED
      BY <3>1 DEF NoSilentFailure, Quiescent
  <2>6. CASE errors' = TRUE
    BY <2>6 DEF NoSilentFailure
  <2>7. CASE RequestTile(cs)
    BY <1>1, <2>2, <2>7, RequestTileIsHeard DEF Changed, Found
  <2>8. QED
    BY <2>4, <2>5, <2>6, <2>7
<1>3. CASE DidReceiveData(c)
  <2>1. c \in 1..Len(conns) /\ conns[c].phase = "receiving" /\ conns' = conns
    BY <1>1, <1>3 DEF DidReceiveData, Receiving
  <2>2. c \in Live'
    BY <2>1 DEF Live
  <2>3. QED
    BY <2>2 DEF NoSilentFailure, Quiescent
<1>4. ASSUME c \in 1..Len(conns), RequestTile(Phase(c, "over")) PROVE NoSilentFailure'
  <2>1. Phase(c, "over") \in Seq(Connections)
    BY <1>1, <1>4, PhaseIsOver DEF Changed, Found
  <2>2. QED
    BY <1>1, <1>4, <2>1, RequestTileIsHeard
<1>5. ASSUME NEW retry \in BOOLEAN, DidFailWithError(c, retry) PROVE NoSilentFailure'
  <2>1. c \in 1..Len(conns)
    BY <1>1, <1>5 DEF DidFailWithError, Waiting, Receiving
  <2>2. CASE retry
    BY <1>4, <1>5, <2>1, <2>2 DEF DidFailWithError
  <2>3. CASE ~retry
    BY <1>5, <2>3 DEF DidFailWithError, NoSilentFailure
  <2>4. QED
    BY <2>2, <2>3
<1>6. CASE DidFinishLoading(c)
  <2>1. c \in 1..Len(conns)
    BY <1>1, <1>6 DEF DidFinishLoading, Receiving
  <2>2. CASE released \/ data = {}
    BY <1>4, <1>6, <2>1, <2>2 DEF DidFinishLoading
  <2>3. CASE ~(released \/ data = {})
    BY <1>6, <2>3 DEF DidFinishLoading, NoSilentFailure
  <2>4. QED
    BY <2>2, <2>3
<1>7. QED
  BY <1>2, <1>3, <1>5, <1>6 DEF Callback

(* A tile never ends up blank without a word: when no connection and no    *)
(* timer is left it shows something, posted an error or was removed.       *)
THEOREM SpecNoSilentFailure == Spec => []NoSilentFailure
<1>1. Init => NoSilentFailure
  <2> SUFFICES ASSUME Init PROVE NoSilentFailure
    OBVIOUS
  <2>1. CASE conns = <<[phase |-> "waiting", status |-> "none", hasURL |-> TRUE]>>
    <3>1. 1 \in Live
      BY <2>1 DEF Live
    <3>2. QED
      BY <3>1 DEF NoSilentFailure, Quiescent
  <2>2. CASE contents = "errorTile"
    BY <2>2 DEF NoSilentFailure
  <2>3. QED
    BY <2>1, <2>2 DEF Init
<1>2. IInv /\ NoSilentFailure /\ [Next]_vars => NoSilentFailure'
  <2> SUFFICES ASSUME IInv, NoSilentFailure, [Next]_vars PROVE NoSilentFailure'
    OBVIOUS
  <2>1. CASE TimerFires
    <3>1. conns \in Seq(Connections) /\ TypeOK
      BY DEF IInv, TypeOK, Connections
    <3>2. QED
      BY <2>1, <3>1, StartLoadingIsHeard DEF TimerFires, NoSilentFailure, Quiescent
  <2>2. CASE TileRemovedFromScreen
    BY <2>2 DEF TileRemovedFromScreen, NoSilentFailure
  <2>3. CASE UNCHANGED vars
    BY <2>3 DEF vars, NoSilentFailure, Quiescent, Live
  <2>4. QED
    BY <2>1, <2>2, <2>3, CallbackIsHeard DEF Next
<1>3. QED
  BY Invariance, <1>1, <1>2, PTL DEF Spec
=============================================================================
