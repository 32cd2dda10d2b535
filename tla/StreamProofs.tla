---------------------------- MODULE StreamProofs ----------------------------
(***************************************************************************)
(* What the streams of a connection carry, for any set of calls, any       *)
(* chunking and any ring buffers: as long as no reqId comes round again, a *)
(* reqId names one call, and every piece in the streams and ring buffers   *)
(* carries the reqId of the call it belongs to.                            *)
(***************************************************************************)
EXTENDS ConnectionProofs, FiniteSetTheorems

-----------------------------------------------------------------------------
\* reqIds.  The age of a call's reqId: how many were given out since.

Made == {c \in Calls : reqId[c] # NoId}

Age(c) == IF reqId[c] <= mCurReqId THEN mCurReqId - reqId[c]
          ELSE mCurReqId - reqId[c] + (MaxId + 1)

IdsInv ==
  /\ \A c, d \in Made : reqId[c] = reqId[d] => c = d
  /\ \A c \in Made : Age(c) < Cardinality(Made)

\* The next reqId is new, and every other one is older by one.
LEMMA NextIdIsNew ==
  ASSUME NEW cur \in 0..MaxId, NEW next, NEW id \in 0..MaxId, NEW n \in Nat, n <= MaxId,
         next = IF cur = MaxId THEN 0 ELSE cur + 1,
         NEW age, age = IF id <= cur THEN cur - id ELSE cur - id + (MaxId + 1),
         age < n
  PROVE  /\ id # next
         /\ (IF id <= next THEN next - id ELSE next - id + (MaxId + 1)) < n + 1
<1>1. MaxId \in Nat
  BY IdsAssumption
<1> QED
  BY <1>1

LEMMA SendRequestIds ==
  ASSUME TableInv, IdsInv, NEW c \in Calls, SendRequest(c) PROVE IdsInv'
<1>1. /\ mCurReqId \in 0..MaxId /\ reqId \in [Calls -> 0..MaxId \cup {NoId}]
      /\ mCurReqId' = GetNextReqId /\ reqId' = [reqId EXCEPT ![c] = GetNextReqId]
      /\ reqId[c] = NoId /\ MaxId \in Nat /\ NoId \notin 0..MaxId
  BY IdsAssumption DEF TableInv, SendRequest
<1>2. GetNextReqId \in 0..MaxId
  BY <1>1 DEF GetNextReqId
<1>3. c \notin Made /\ Made' = Made \cup {c} /\ \A d \in Made : reqId'[d] = reqId[d]
  BY <1>1, <1>2 DEF Made
<1>4. /\ IsFiniteSet(Made) /\ Cardinality(Made) \in Nat
      /\ Cardinality(Made') = Cardinality(Made) + 1
      /\ Cardinality(Made) <= MaxId
  <2>1. IsFiniteSet(Calls) /\ Made \subseteq Calls /\ Made' \subseteq Calls
    BY CallsAssumption DEF Made
  <2>2. /\ IsFiniteSet(Made) /\ IsFiniteSet(Made')
        /\ Cardinality(Made') <= Cardinality(Calls)
    BY <2>1, FS_Subset
  <2>3. Cardinality(Made') = Cardinality(Made) + 1
    BY <1>3, <2>2, FS_AddElement
  <2>4. Cardinality(Made) \in Nat /\ Cardinality(Calls) \in Nat
    BY <2>1, <2>2, FS_CardinalityType
  <2> QED BY <1>1, <2>2, <2>3, <2>4, IdsAssumption
<1>5. \A d \in Made : reqId[d] \in 0..MaxId /\ Age(d) < Cardinality(Made)
  BY <1>1 DEF Made, IdsInv
<1>6. ASSUME NEW d \in Made PROVE reqId'[d] # reqId'[c] /\ Age(d)' < Cardinality(Made')
  <2>1. reqId'[c] = mCurReqId' /\ reqId'[d] = reqId[d]
    BY <1>1, <1>2, <1>3
  <2>2. /\ reqId[d] # mCurReqId'
        /\ (IF reqId[d] <= mCurReqId' THEN mCurReqId' - reqId[d]
            ELSE mCurReqId' - reqId[d] + (MaxId + 1)) < Cardinality(Made) + 1
    <3>1. mCurReqId' = IF mCurReqId = MaxId THEN 0 ELSE mCurReqId + 1
      BY <1>1 DEF GetNextReqId
    <3> QED BY <1>1, <1>4, <1>5, <3>1, NextIdIsNew DEF Age
  <2> QED BY <1>4, <2>1, <2>2 DEF Age
<1>7. Age(c)' = 0
  BY <1>1, <1>2 DEF Age
<1>8. 0 < Cardinality(Made')
  BY <1>4
<1> QED
  BY <1>3, <1>6, <1>7, <1>8 DEF IdsInv

-----------------------------------------------------------------------------
\* The streams.

ErrorCodes == {"SUCC", "NOT_FOUND", "PARSE", "MEM"}

RequestMsgs == [id : 0..MaxId, call : Calls, request : {RequestOf[c] : c \in Calls}, len : Nat]
ReplyMsgs   == [id : 0..MaxId, call : Calls, code : ErrorCodes, len : Nat]

\* The messages of a kind that carry the reqId of their call; their pieces.
Genuine(Msgs) == {m \in Msgs : reqId[m.call] = m.id}
Pieces(Msgs)  == [msg : Msgs, part : Nat]

StreamsInv ==
  /\ toServer \in Seq(Pieces(Genuine(RequestMsgs)))
  /\ serverRb \in Seq(Pieces(Genuine(RequestMsgs)))
  /\ toClient \in Seq(Pieces(Genuine(ReplyMsgs)))
  /\ clientRb \in Seq(Pieces(Genuine(ReplyMsgs)))

LEMMA FramePieces ==
  ASSUME NEW Msgs, NEW m \in Msgs, m.len \in Nat
  PROVE  Frame(m) \in Seq(Pieces(Msgs))
<1>1. m.len + 1 \in Nat
  OBVIOUS
<1>2. \A k \in 1..(m.len + 1) : [msg |-> m, part |-> k - 1] \in Pieces(Msgs)
  BY DEF Pieces
<1> QED
  BY <1>1, <1>2 DEF Frame

\* A read cuts a stream in two.
LEMMA CutPieces ==
  ASSUME NEW S, NEW s \in Seq(S), NEW n \in ReadSizes(s)
  PROVE  Read(s, n) \in Seq(S) /\ Unread(s, n) \in Seq(S)
<1>1. n \in 1..Len(s) /\ Len(s) \in Nat
  BY DEF ReadSizes
<1>2. Read(s, n) \in Seq(S)
  BY <1>1, SubSeqProperties DEF Read
<1>3. Unread(s, n) \in Seq(S)
  BY <1>1, SubSeqProperties DEF Unread
<1> QED
  BY <1>2, <1>3

\* What getAvailablePackage takes, and what it leaves.
LEMMA TakenPieces ==
  ASSUME NEW Msgs, \A m \in Msgs : m.len \in Nat,
         NEW rb \in Seq(Pieces(Msgs)), Available(rb)
  PROVE  /\ Package(rb) \in Msgs /\ Contents(rb) \subseteq Msgs
         /\ Rest(rb) \in Seq(Pieces(Msgs)) /\ Len(Rest(rb)) <= Len(rb)
<1>1. rb # <<>> /\ Head(rb) \in Pieces(Msgs) /\ Len(rb) \in Nat
  BY DEF Available
<1>2. Head(rb).msg \in Msgs /\ Head(rb).msg.len \in Nat
  BY <1>1 DEF Pieces
<1>3. /\ Head(rb).msg.len + 2 \in 1..(Len(rb) + 1)
  BY <1>1, <1>2 DEF Available
<1>4. Rest(rb) \in Seq(Pieces(Msgs)) /\ Len(Rest(rb)) <= Len(rb)
  BY <1>1, <1>2, <1>3, SubSeqProperties DEF Rest
<1>5. \A k \in 2..(Head(rb).msg.len + 1) : rb[k] \in Pieces(Msgs)
  BY <1>1, <1>2, <1>3
<1>6. Contents(rb) \subseteq Msgs
  BY <1>5 DEF Contents, Pieces
<1> QED
  BY <1>2, <1>4, <1>6 DEF Package

LEMMA SkippedPieces ==
  ASSUME NEW S, NEW rb \in Seq(S), NEW left \in Skipped(rb)
  PROVE  left \in Seq(S) /\ Len(left) <= Len(rb)
<1>1. PICK k \in DOMAIN rb : left = SubSeq(rb, k + 1, Len(rb))
  BY DEF Skipped
<1>2. Len(rb) \in Nat /\ k \in 1..Len(rb) /\ k + 1 \in 1..(Len(rb) + 1)
  BY <1>1
<1> QED
  BY <1>1, <1>2, SubSeqProperties

\* A request that is made adds to what is genuine and takes nothing away.
LEMMA StillGenuine ==
  ASSUME TableInv, IdsInv, NEW Msgs, \A m \in Msgs : m.call \in Calls /\ m.id \in 0..MaxId,
         \/ UNCHANGED reqId
         \/ \E c \in Calls : \E id : reqId[c] = NoId /\ reqId' = [reqId EXCEPT ![c] = id]
  PROVE  Seq(Pieces(Genuine(Msgs))) \subseteq Seq(Pieces(Genuine(Msgs)))'
<1>1. \A m \in Genuine(Msgs) : reqId'[m.call] = m.id
  BY IdsAssumption DEF Genuine, TableInv
<1>2. Genuine(Msgs) \subseteq {m \in Msgs : reqId'[m.call] = m.id}
  BY <1>1 DEF Genuine
<1>3. ASSUME NEW A, NEW B, A \subseteq B PROVE Seq(Pieces(A)) \subseteq Seq(Pieces(B))
  <2>1. Pieces(A) \subseteq Pieces(B)
    BY <1>3 DEF Pieces
  <2> QED BY <2>1
<1> QED
  BY <1>2, <1>3 DEF Genuine

-----------------------------------------------------------------------------
AnswerInv == TableInv /\ IdsInv /\ StreamsInv

LEMMA InitAnswer == Init => AnswerInv
<1> SUFFICES ASSUME Init PROVE AnswerInv
  OBVIOUS
<1>1. TableInv
  BY InitTable
<1>2. Made = {}
  BY DEF Init, ClientInit, Made
<1>3. StreamsInv
  BY DEF Init, StreamInit, ClientInit, ServerInit, StreamsInv
<1> QED
  BY <1>1, <1>2, <1>3 DEF AnswerInv, IdsInv

\* What IdsInv reads.
LEMMA SameIds ==
  ASSUME IdsInv, UNCHANGED <<reqId, mCurReqId>> PROVE IdsInv'
BY DEF IdsInv, Made, Age

\* Streams of the same pieces, or fewer, are still genuine.
LEMMA GenuineKept ==
  ASSUME AnswerInv,
         \/ UNCHANGED reqId
         \/ \E c \in Calls : \E id : reqId[c] = NoId /\ reqId' = [reqId EXCEPT ![c] = id]
  PROVE  /\ Seq(Pieces(Genuine(RequestMsgs))) \subseteq Seq(Pieces(Genuine(RequestMsgs)'))
         /\ Seq(Pieces(Genuine(ReplyMsgs))) \subseteq Seq(Pieces(Genuine(ReplyMsgs)'))
<1>1. \A m \in RequestMsgs \cup ReplyMsgs : m.call \in Calls /\ m.id \in 0..MaxId
  BY DEF RequestMsgs, ReplyMsgs
<1>2. Seq(Pieces(Genuine(RequestMsgs))) \subseteq Seq(Pieces(Genuine(RequestMsgs)))'
  BY <1>1, StillGenuine DEF AnswerInv
<1>3. Seq(Pieces(Genuine(ReplyMsgs))) \subseteq Seq(Pieces(Genuine(ReplyMsgs)))'
  BY <1>1, StillGenuine DEF AnswerInv
<1>4. /\ Pieces(Genuine(RequestMsgs))' = Pieces(Genuine(RequestMsgs)')
      /\ Pieces(Genuine(ReplyMsgs))' = Pieces(Genuine(ReplyMsgs)')
  BY DEF Pieces
<1> QED
  BY <1>2, <1>3, <1>4

\* StreamsInv of the next state, spelled out.
LEMMA StreamsNext ==
  ASSUME /\ toServer' \in Seq(Pieces(Genuine(RequestMsgs)'))
         /\ serverRb' \in Seq(Pieces(Genuine(RequestMsgs)'))
         /\ toClient' \in Seq(Pieces(Genuine(ReplyMsgs)'))
         /\ clientRb' \in Seq(Pieces(Genuine(ReplyMsgs)'))
  PROVE  StreamsInv'
BY DEF StreamsInv, Pieces

\* A request goes out under a reqId of its own.
LEMMA SendRequestAnswer ==
  ASSUME AnswerInv, NEW c \in Calls, SendRequest(c), UNCHANGED serverVars
  PROVE  IdsInv' /\ StreamsInv'
<1> DEFINE m == [id |-> GetNextReqId, call |-> c, request |-> RequestOf[c], len |-> 1]
<1>1. IdsInv'
  BY SendRequestIds DEF AnswerInv
<1>2. /\ reqId[c] = NoId /\ reqId' = [reqId EXCEPT ![c] = GetNextReqId]
      /\ UNCHANGED <<toClient, clientRb, callbacks, serverRb>>
  BY DEF SendRequest, serverVars
<1>3. /\ mCurReqId \in 0..MaxId /\ MaxId \in Nat
      /\ reqId \in [Calls -> 0..MaxId \cup {NoId}]
  BY IdsAssumption DEF AnswerInv, TableInv
<1>4. GetNextReqId \in 0..MaxId /\ reqId'[c] = GetNextReqId
  BY <1>2, <1>3 DEF GetNextReqId
<1>5. m \in RequestMsgs /\ m.len \in Nat /\ m.call = c /\ m.id = GetNextReqId
  BY <1>4 DEF RequestMsgs
<1>6. m \in Genuine(RequestMsgs)'
  BY <1>4, <1>5 DEF Genuine, RequestMsgs
<1>7. toServer' = toServer \/ toServer' = toServer \o Frame(m)
  BY DEF SendRequest
<1> HIDE DEF m
<1>8. /\ toServer \in Seq(Pieces(Genuine(RequestMsgs)'))
      /\ serverRb' \in Seq(Pieces(Genuine(RequestMsgs)'))
      /\ toClient' \in Seq(Pieces(Genuine(ReplyMsgs)'))
      /\ clientRb' \in Seq(Pieces(Genuine(ReplyMsgs)'))
  BY <1>2, GenuineKept DEF AnswerInv, StreamsInv
<1>9. Frame(m) \in Seq(Pieces(Genuine(RequestMsgs)'))
  BY <1>5, <1>6, FramePieces
<1>10. toServer' \in Seq(Pieces(Genuine(RequestMsgs)'))
  BY <1>7, <1>8, <1>9, ConcatProperties
<1>11. StreamsInv'
  BY <1>8, <1>10, StreamsNext
<1> QED
  BY <1>1, <1>11

LEMMA RequestTimeoutAnswer ==
  ASSUME AnswerInv, NEW c \in Calls, RequestTimeout(c), UNCHANGED serverVars
  PROVE  IdsInv' /\ StreamsInv'
<1>1. UNCHANGED <<reqId, mCurReqId, toServer, toClient, clientRb, serverRb>>
  BY DEF RequestTimeout, streamVars, serverVars
<1>2. StreamsInv'
  BY <1>1, GenuineKept, StreamsNext DEF AnswerInv, StreamsInv
<1> QED
  BY <1>1, <1>2, SameIds DEF AnswerInv

LEMMA ClientReadAnswer ==
  ASSUME AnswerInv, ClientRead, UNCHANGED serverVars
  PROVE  IdsInv' /\ StreamsInv'
<1>1. UNCHANGED <<reqId, mCurReqId, toServer, serverRb>>
  BY DEF ClientRead, serverVars
<1> DEFINE S      == Pieces(Genuine(ReplyMsgs))
           all(n) == clientRb \o Read(toClient, n)
<1>2. PICK n \in ReadSizes(toClient) :
        /\ toClient' = Unread(toClient, n)
        /\ \/ Available(all(n)) /\ clientRb' = Rest(all(n))
           \/ clientRb' \in {all(n), clientRb} \cup Skipped(all(n))
  BY DEF ClientRead
<1> DEFINE rb == all(n)
<1>3. toClient \in Seq(S) /\ clientRb \in Seq(S)
  BY DEF AnswerInv, StreamsInv
<1>4. Read(toClient, n) \in Seq(S) /\ toClient' \in Seq(S)
  BY <1>2, <1>3, CutPieces
<1>5. rb \in Seq(S)
  BY <1>3, <1>4, ConcatProperties
<1>6. \A m \in Genuine(ReplyMsgs) : m.len \in Nat
  BY DEF Genuine, ReplyMsgs
<1> HIDE DEF all
<1>7. clientRb' \in Seq(S)
  BY <1>2, <1>3, <1>5, <1>6, TakenPieces, SkippedPieces
<1>8. StreamsInv'
  BY <1>1, <1>3, <1>4, <1>7, GenuineKept, StreamsNext DEF AnswerInv, StreamsInv
<1> QED
  BY <1>1, <1>8, SameIds DEF AnswerInv

LEMMA ClientDestroyAnswer ==
  ASSUME AnswerInv, ClientDestroy, UNCHANGED serverVars
  PROVE  IdsInv' /\ StreamsInv'
<1>1. /\ UNCHANGED <<reqId, mCurReqId, toServer, serverRb>>
      /\ clientRb' = <<>> /\ toClient' = <<>>
  BY DEF ClientDestroy, serverVars
<1>2. \A S : <<>> \in Seq(S)
  OBVIOUS
<1>3. StreamsInv'
  BY <1>1, <1>2, GenuineKept, StreamsNext DEF AnswerInv, StreamsInv
<1> QED
  BY <1>1, <1>3, SameIds DEF AnswerInv

\* The codes parseServerData can answer with.
LEMMA CodesOf ==
  ASSUME NEW c \in Calls PROVE Codes(RequestOf[c]) \subseteq ErrorCodes
<1>1. RequestOf[c].type \in Types
  BY CallsAssumption
<1>2. \A pid, name : Search(pid, name) \in {"SUCC", "NOT_FOUND"}
  BY DEF Search
<1>3. ErrCode(RequestOf[c]) \in {"SUCC", "NOT_FOUND", "PARSE"}
  BY <1>1, <1>2 DEF ErrCode, Types
<1> QED
  BY <1>3 DEF Codes, ErrorCodes

\* A request is answered under its own reqId.
LEMMA ParseServerDataStreams ==
  ASSUME AnswerInv, NEW m \in Genuine(RequestMsgs), UNCHANGED <<reqId, clientRb>>,
         NEW rb \in Seq(Pieces(Genuine(RequestMsgs))),
         NEW unread \in Seq(Pieces(Genuine(RequestMsgs))),
         ParseServerData(m, rb, unread)
  PROVE  StreamsInv'
<1>1. PICK code \in Codes(m.request) :
        LET reply == [id |-> m.id, call |-> m.call, code |-> code,
                      len |-> ReplyLen(m.request.type, code)] IN
        \/ toClient' = toClient \o Frame(reply) /\ serverRb' = rb /\ toServer' = unread
        \/ toClient' = toClient /\ serverRb' = <<>> /\ toServer' = <<>>
        \/ toClient' = toClient /\ serverRb' = rb /\ toServer' = unread
  BY DEF ParseServerData, StopTaskClient
<1> DEFINE reply == [id |-> m.id, call |-> m.call, code |-> code,
                     len |-> ReplyLen(m.request.type, code)]
           S == Pieces(Genuine(ReplyMsgs))
<1>2. m.id \in 0..MaxId /\ m.call \in Calls /\ reqId[m.call] = m.id
      /\ m.request \in {RequestOf[c] : c \in Calls}
  BY DEF Genuine, RequestMsgs
<1>3. code \in ErrorCodes
  BY <1>1, <1>2, CodesOf
<1>4. reply.len \in Nat
  BY ListAssumption DEF ReplyLen
<1>5. reply \in Genuine(ReplyMsgs)
  BY <1>2, <1>3, <1>4 DEF Genuine, ReplyMsgs
<1>6. Frame(reply) \in Seq(S)
  BY <1>4, <1>5, FramePieces
<1>7. toClient \in Seq(S) /\ clientRb \in Seq(S)
  BY DEF AnswerInv, StreamsInv
<1>8. toClient \o Frame(reply) \in Seq(S)
  BY <1>6, <1>7, ConcatProperties
<1>9. <<>> \in Seq(Pieces(Genuine(RequestMsgs)))
  OBVIOUS
<1>10. \/ toClient' = toClient \o Frame(reply) /\ serverRb' = rb /\ toServer' = unread
       \/ toClient' = toClient /\ serverRb' = <<>> /\ toServer' = <<>>
       \/ toClient' = toClient /\ serverRb' = rb /\ toServer' = unread
  BY <1>1
<1> HIDE DEF reply
<1>11. /\ toClient' \in Seq(S)
       /\ serverRb' \in Seq(Pieces(Genuine(RequestMsgs)))
       /\ toServer' \in Seq(Pieces(Genuine(RequestMsgs)))
  BY <1>7, <1>8, <1>9, <1>10
<1> QED
  BY <1>7, <1>11, GenuineKept, StreamsNext

LEMMA ServerReadStreams ==
  ASSUME AnswerInv, ServerRead, UNCHANGED clientVars
  PROVE  StreamsInv'
<1> DEFINE S == Pieces(Genuine(RequestMsgs))
<1>1. UNCHANGED <<reqId, clientRb>>
  BY DEF clientVars
<1>2. PICK n \in ReadSizes(toServer) :
        LET rb == serverRb \o Read(toServer, n) IN
        \/ StopTaskClient /\ UNCHANGED toClient
        \/ serverRb' = rb /\ toServer' = Unread(toServer, n) /\ UNCHANGED toClient
        \/ Available(rb) /\ ParseServerData(Package(rb), Rest(rb), Unread(toServer, n))
  BY DEF ServerRead
<1> DEFINE rb == serverRb \o Read(toServer, n)
<1>3. /\ toServer \in Seq(S) /\ serverRb \in Seq(S)
      /\ toClient \in Seq(Pieces(Genuine(ReplyMsgs)))
      /\ clientRb \in Seq(Pieces(Genuine(ReplyMsgs)))
  BY DEF AnswerInv, StreamsInv
<1>4. Read(toServer, n) \in Seq(S) /\ Unread(toServer, n) \in Seq(S)
  BY <1>3, CutPieces
<1>5. rb \in Seq(S) /\ <<>> \in Seq(S)
  BY <1>3, <1>4, ConcatProperties
<1>6. CASE StopTaskClient /\ UNCHANGED toClient
  BY <1>1, <1>3, <1>5, <1>6, GenuineKept, StreamsNext DEF StopTaskClient
<1>7. CASE serverRb' = rb /\ toServer' = Unread(toServer, n) /\ UNCHANGED toClient
  BY <1>1, <1>3, <1>4, <1>5, <1>7, GenuineKept, StreamsNext
<1>8. CASE Available(rb) /\ ParseServerData(Package(rb), Rest(rb), Unread(toServer, n))
  <2>1. \A m \in Genuine(RequestMsgs) : m.len \in Nat
    BY DEF Genuine, RequestMsgs
  <2>2. Package(rb) \in Genuine(RequestMsgs) /\ Rest(rb) \in Seq(S)
    BY <1>5, <1>8, <2>1, TakenPieces
  <2> QED BY <1>1, <1>4, <1>8, <2>2, ParseServerDataStreams
<1> QED
  BY <1>2, <1>6, <1>7, <1>8

LEMMA NextAnswer == AnswerInv /\ [Next]_vars => AnswerInv'
<1> SUFFICES ASSUME AnswerInv, [Next]_vars PROVE AnswerInv'
  OBVIOUS
<1>1. TableInv'
  BY NextTable DEF AnswerInv
<1>2. CASE UNCHANGED <<clientVars, toServer, toClient, serverRb>>
  <2>1. UNCHANGED <<reqId, mCurReqId, clientRb>>
    BY <1>2 DEF clientVars
  <2>2. StreamsInv'
    BY <1>2, <2>1, GenuineKept, StreamsNext DEF AnswerInv, StreamsInv
  <2> QED BY <1>1, <2>1, <2>2, SameIds DEF AnswerInv
<1>3. CASE (ServerRead \/ ServerEof) /\ UNCHANGED clientVars
  <2>1. UNCHANGED <<reqId, mCurReqId, clientRb>>
    BY <1>3 DEF clientVars
  <2>2. ASSUME ServerEof PROVE StreamsInv'
    <3>1. serverRb' = <<>> /\ toServer' = <<>> /\ toClient' = toClient
      BY <2>2 DEF ServerEof, StopTaskClient
    <3>2. \A S : <<>> \in Seq(S)
      OBVIOUS
    <3> QED BY <2>1, <3>1, <3>2, GenuineKept, StreamsNext DEF AnswerInv, StreamsInv
  <2> QED BY <1>1, <1>3, <2>1, <2>2, SameIds, ServerReadStreams DEF AnswerInv
<1>4. CASE \/ \E c \in Calls : SendRequest(c) \/ RequestTimeout(c)
           \/ ClientRead \/ ClientDestroy
  <2>1. CASE UNCHANGED serverVars
    BY <1>1, <1>4, <2>1, SendRequestAnswer, RequestTimeoutAnswer, ClientReadAnswer,
       ClientDestroyAnswer DEF AnswerInv
  <2>2. CASE ~UNCHANGED serverVars
    BY <1>3, <2>2 DEF Next, vars
  <2> QED BY <2>1, <2>2
<1> QED
  BY <1>2, <1>3, <1>4 DEF Next, vars, streamVars, serverVars

LEMMA AnswerInvariance == Spec => []AnswerInv
  BY InitAnswer, NextAnswer, PTL DEF Spec

-----------------------------------------------------------------------------
\* Type correctness.

Sizes == Len(serverRb) <= Capacity /\ Len(clientRb) <= Capacity

Flags == clientOpen \in BOOLEAN /\ serverOpen \in BOOLEAN /\ dropped \in BOOLEAN

LEMMA NextFlags == Flags /\ [Next]_vars => Flags'
<1> SUFFICES ASSUME Flags, [Next]_vars PROVE Flags'
  OBVIOUS
<1>1. \/ UNCHANGED <<clientOpen, serverOpen, dropped>>
      \/ clientOpen' = FALSE /\ UNCHANGED <<serverOpen, dropped>>
      \/ serverOpen' = FALSE /\ UNCHANGED <<clientOpen, dropped>>
      \/ dropped' = TRUE /\ UNCHANGED <<clientOpen, serverOpen>>
  BY DEF Next, vars, streamVars, clientVars, SendRequest, RequestTimeout, ClientRead,
         ClientDestroy, ServerRead, ServerEof, StopTaskClient, ParseServerData
<1> QED
  BY <1>1 DEF Flags

LEMMA NextSizes == AnswerInv /\ Sizes /\ [Next]_vars => Sizes'
<1> SUFFICES ASSUME AnswerInv, Sizes, [Next]_vars PROVE Sizes'
  OBVIOUS
<1>1. Len(<<>>) <= Capacity
  BY StreamAssumption
<1>2. ASSUME NEW Msgs, \A m \in Msgs : m.len \in Nat,
             NEW s \in Seq(Pieces(Msgs)), NEW rb \in Seq(Pieces(Msgs)),
             NEW n \in ReadSizes(s), Fits(rb, Read(s, n))
      PROVE  /\ Len(rb \o Read(s, n)) <= Capacity
             /\ Available(rb \o Read(s, n)) => Len(Rest(rb \o Read(s, n))) <= Capacity
             /\ \A left \in Skipped(rb \o Read(s, n)) : Len(left) <= Capacity
  <2>1. Read(s, n) \in Seq(Pieces(Msgs))
    BY CutPieces
  <2>2. /\ rb \o Read(s, n) \in Seq(Pieces(Msgs))
        /\ Len(rb \o Read(s, n)) = Len(rb) + Len(Read(s, n))
    BY <2>1, ConcatProperties
  <2>3. Available(rb \o Read(s, n)) => Len(Rest(rb \o Read(s, n))) <= Len(rb \o Read(s, n))
    BY <1>2, <2>2, TakenPieces
  <2>4. Len(Rest(rb \o Read(s, n))) \in Nat \/ ~Available(rb \o Read(s, n))
    BY <1>2, <2>2, TakenPieces
  <2>5. ASSUME NEW left \in Skipped(rb \o Read(s, n))
        PROVE  Len(left) \in Nat /\ Len(left) <= Len(rb \o Read(s, n))
    <3> DEFINE S   == Pieces(Msgs)
               all == rb \o Read(s, n)
    <3>1. all \in Seq(S) /\ left \in Skipped(all)
      BY <2>2
    <3> HIDE DEF S, all
    <3>2. left \in Seq(S) /\ Len(left) <= Len(all)
      BY <3>1, SkippedPieces
    <3>3. Len(left) \in Nat
      BY <3>2
    <3> QED BY <3>2, <3>3 DEF all
  <2>6. Len(rb \o Read(s, n)) <= Capacity
    BY <1>2, <2>2 DEF Fits
  <2>7. Len(rb \o Read(s, n)) \in Nat /\ Capacity \in Nat
    BY <2>2, StreamAssumption
  <2> QED BY <2>3, <2>4, <2>5, <2>6, <2>7
<1>3. /\ \A m \in Genuine(RequestMsgs) : m.len \in Nat
      /\ \A m \in Genuine(ReplyMsgs) : m.len \in Nat
  BY DEF Genuine, RequestMsgs, ReplyMsgs
<1>4. ASSUME ServerRead PROVE Len(serverRb') <= Capacity
  <2>1. PICK n \in ReadSizes(toServer) :
          LET rb == serverRb \o Read(toServer, n) IN
          \/ serverRb' = <<>>
          \/ Fits(serverRb, Read(toServer, n)) /\ serverRb' = rb
          \/ Fits(serverRb, Read(toServer, n)) /\ Available(rb) /\ serverRb' = Rest(rb)
    BY <1>4 DEF ServerRead, StopTaskClient, ParseServerData
  <2> QED BY <1>1, <1>2, <1>3, <2>1 DEF AnswerInv, StreamsInv
<1>5. ASSUME ClientRead PROVE Len(clientRb') <= Capacity
  <2>1. PICK n \in ReadSizes(toClient) :
          LET rb == clientRb \o Read(toClient, n) IN
          \/ clientRb' = clientRb
          \/ Fits(clientRb, Read(toClient, n)) /\ clientRb' \in {rb} \cup Skipped(rb)
          \/ Fits(clientRb, Read(toClient, n)) /\ Available(rb) /\ clientRb' = Rest(rb)
    BY <1>5 DEF ClientRead
  <2> QED BY <1>2, <1>3, <2>1 DEF AnswerInv, StreamsInv, Sizes
<1>6. \/ ServerRead
      \/ serverRb' = serverRb
      \/ serverRb' = <<>>
  BY DEF Next, vars, serverVars, ServerEof, StopTaskClient
<1>7. \/ ClientRead
      \/ clientRb' = clientRb
      \/ clientRb' = <<>>
  BY DEF Next, vars, clientVars, SendRequest, RequestTimeout, ClientDestroy
<1> QED
  BY <1>1, <1>4, <1>5, <1>6, <1>7 DEF Sizes

\* The ring buffers never hold more than fits, reqIds stay in range, and every
\* timer and entry of the table stands for a call.
THEOREM ConnectionTypes == Spec => []TypeOK
<1>1. Init => Flags
  BY DEF Init, StreamInit, ClientInit, Flags
<1>2. Init => Sizes
  BY StreamAssumption DEF Init, ClientInit, ServerInit, Sizes
<1>3. AnswerInv /\ Flags /\ Sizes => TypeOK
  BY DEF AnswerInv, TableInv, TimersOfTable, Waiting, ToSet, Flags, Sizes, TypeOK
<1> QED
  BY <1>1, <1>2, <1>3, NextFlags, NextSizes, AnswerInvariance, PTL DEF Spec
=============================================================================
