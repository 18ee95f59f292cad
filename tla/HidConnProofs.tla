---------------------------- MODULE HidConnProofs ----------------------------
(***************************************************************************)
(* What HidConn promises its callers, for any callers, devices, retries    *)
(* and channel capacities.                                                 *)
(***************************************************************************)
EXTENDS HidConn, SequenceTheorems, TLAPS

\* A caller's request belongs to its operation, and what it took is a reply.
CallerOK(c) ==
  /\ pc[c] # "idle" =>
       /\ op[c].name \in Operations /\ req[c] \in Requests
       /\ op[c].name # "enumerate" => op[c].dev \in Devices
       /\ IsPing(req[c]) => op[c].dev \in Devices /\ req[c].dev = op[c].dev
       /\ IsGetFeature(req[c]) => op[c].name \in {"deviceType", "hostInfo", "setHost"}
  /\ pc[c] \in {"release", "resume"} /\ out[c] = "ok" => taken[c] \in Replies

TypeInv == TypeOK /\ \A c \in Callers : CallerOK(c)

-----------------------------------------------------------------------------
(* Requests and sequences.                                                 *)

Steps == {"idle", "lock", "drain", "write", "wait", "release", "resume"}

OperationRecords == [name : Operations \cup {"none"}, dev : Devices \cup {Receiver}]

\* What an operation opens with is a request of that operation.
LEMMA OpeningIsRequest ==
  ASSUME NEW o \in OperationRecords, o.name \in Operations,
         o.name # "enumerate" => o.dev \in Devices
  PROVE  /\ Opening(o) \in Requests
         /\ IsPing(Opening(o)) => o.dev \in Devices /\ Opening(o).dev = o.dev
         /\ IsGetFeature(Opening(o)) => o.name \in {"deviceType", "hostInfo", "setHost"}
<1> USE HidConnAssumption DEF OperationRecords, Request, Requests, IsPing, IsGetFeature,
        Features, Indexes, Receiver
<1>1. CASE o.name = "ping"
  BY <1>1 DEF Opening, Ping
<1>2. CASE o.name = "enumerate"
  BY <1>2 DEF Opening
<1>3. CASE o.name \notin {"ping", "enumerate"}
  BY <1>3 DEF Opening, GetFeature, FeatureOf
<1>4. QED
  BY <1>1, <1>2, <1>3

\* Taking the first element, adding a last one and removing one keep a sequence one.
LEMMA RemoveAtIsSeq ==
  ASSUME NEW S, NEW s \in Seq(S), NEW i \in 1..Len(s)
  PROVE  /\ RemoveAt(s, i) \in Seq(S) /\ Len(RemoveAt(s, i)) = Len(s) - 1
<1>1. Len(s) \in Nat /\ \A j \in 1..Len(s) : s[j] \in S
  BY LenProperties, ElementOfSeq
<1>2. /\ SubSeq(s, 1, i-1) \in Seq(S)
      /\ Len(SubSeq(s, 1, i-1)) = i - 1
  BY <1>1, SubSeqProperties
<1>3. /\ SubSeq(s, i+1, Len(s)) \in Seq(S)
      /\ Len(SubSeq(s, i+1, Len(s))) = Len(s) - i
  BY <1>1, SubSeqProperties
<1> DEFINE a == SubSeq(s, 1, i-1)
           b == SubSeq(s, i+1, Len(s))
<1>4. a \o b \in Seq(S) /\ Len(a \o b) = Len(a) + Len(b)
  <2> HIDE DEF a, b
  <2>1. a \in Seq(S) /\ b \in Seq(S)
    BY <1>2, <1>3 DEF a, b
  <2>2. QED
    BY <2>1, ConcatProperties
<1>5. RemoveAt(s, i) = a \o b
  BY DEF RemoveAt
<1> HIDE DEF a, b
<1>6. Len(a) = i - 1 /\ Len(b) = Len(s) - i
  BY <1>2, <1>3 DEF a, b
<1>7. a \o b \in Seq(S) /\ Len(a \o b) = Len(s) - 1
  BY <1>1, <1>4, <1>6
<1>8. QED
  BY <1>5, <1>7, Zenon

-----------------------------------------------------------------------------
(* TypeInv, step by step.                                                  *)

LEMMA TypeInvInit == Init => TypeInv
<1> SUFFICES ASSUME Init PROVE TypeInv
  OBVIOUS
<1>1. TypeOK
  <2>1. <<>> \in Seq(Replies) /\ <<>> \in Seq(Reports) /\ <<>> \in Seq(Requests) /\ Len(<<>>) = 0
    BY EmptySeq
  <2>2. /\ RespCap \in Nat /\ NoteCap \in Nat /\ ReadsCap \in Nat /\ WireBound \in Nat
        /\ Attempts \in Nat
    BY HidConnAssumption
  <2>3. op \in [Callers -> OperationRecords]
    BY DEF Init, NoOperation, OperationRecords
  <2>4. reader \in [at : {"read", "route", "done"}, rep : Reports \cup {NoReply}, mine : BOOLEAN]
        /\ ~reader.mine
    BY DEF Init, Reading
  <2>5. /\ idx \in [Callers -> Indexes] /\ out \in [Callers -> Outcomes]
        /\ left \in [Callers -> 0..Attempts]
    BY <2>2 DEF Init, Indexes, Outcomes
  <2>6. /\ pc \in [Callers -> Steps] /\ req \in [Callers -> Requests \cup {NoRequest}]
        /\ reqMu \in Callers \cup {NoCaller} /\ curMatch \in Requests \cup {NoRequest}
        /\ closed \in BOOLEAN /\ link \subseteq Devices
        /\ taken \in [Callers -> Replies \cup {NoReply}] /\ excused \in [Callers -> BOOLEAN]
    BY DEF Init, Steps
  <2>7. /\ respCh \in Seq(Replies) /\ Len(respCh) <= RespCap /\ notifyCh \in 0..NoteCap
        /\ reads \in Seq(Reports) /\ Len(reads) <= ReadsCap
        /\ wire \in Seq(Requests) /\ Len(wire) <= WireBound
    BY <2>1, <2>2 DEF Init
  <2>8. QED
    BY <2>3, <2>4, <2>5, <2>6, <2>7, Zenon DEF TypeOK, OperationRecords, Steps
<1>2. \A c \in Callers : CallerOK(c)
  BY DEF Init, CallerOK
<1>3. QED
  BY <1>1, <1>2 DEF TypeInv

\* A step that leaves the callers alone.
LEMMA CallersFrame ==
  ASSUME \A c \in Callers : CallerOK(c), UNCHANGED <<pc, op, req, out, taken>>
  PROVE  \A c \in Callers : CallerOK(c)'
PROOF BY DEF CallerOK

\* The critical sections of reqMu.
LEMMA TypeInvLock ==
  ASSUME TypeInv, NEW c \in Callers, Acquire(c) \/ AcquireClosed(c) \/ Release(c)
  PROVE  TypeInv'
<1> USE DEF TypeInv, Goto
<1>1. TypeOK'
  <2>1. pc' \in [Callers -> Steps]
    BY DEF TypeOK, Steps, Acquire, AcquireClosed, Release
  <2>2. out' \in [Callers -> Outcomes] /\ excused' \in [Callers -> BOOLEAN]
    BY DEF TypeOK, Acquire, AcquireClosed, Release, callVars, histVars, Outcomes
  <2>3. reqMu' \in Callers \cup {NoCaller} /\ curMatch' \in Requests \cup {NoRequest}
    BY DEF TypeOK, Acquire, AcquireClosed, Release, chanVars
  <2>4. UNCHANGED <<op, idx, left, req, respCh, notifyCh, reader, closed, reads, wire, link, taken>>
    BY DEF Acquire, AcquireClosed, Release, callVars, chanVars, envVars, histVars
  <2>5. QED
    BY <2>1, <2>2, <2>3, <2>4 DEF TypeOK, Steps
<1>2. \A d \in Callers : CallerOK(d)'
  BY DEF TypeOK, CallerOK, Acquire, AcquireClosed, Release, callVars, histVars
<1>3. QED
  BY <1>1, <1>2

\* The steps of a request in between.
LEMMA TypeInvRequest ==
  ASSUME TypeInv, NEW c \in Callers,
         \/ Drain(c) \/ Write(c) \/ WriteFails(c)
         \/ TakeReply(c) \/ TimeOut(c) \/ SeeClosed(c)
  PROVE  TypeInv'
<1> USE DEF TypeInv, Goto, Ends
<1>1. pc' \in [Callers -> Steps]
  <2>1. PICK l \in Steps : pc' = [pc EXCEPT ![c] = l]
    BY DEF Steps, Drain, Write, WriteFails, TakeReply, TimeOut, SeeClosed
  <2>2. QED
    BY <2>1 DEF TypeOK, Steps
<1>2. respCh # <<>> => /\ Head(respCh) \in Replies /\ Tail(respCh) \in Seq(Replies)
                       /\ Len(Tail(respCh)) <= RespCap
  BY HidConnAssumption, HeadTailProperties, LenProperties DEF TypeOK
<1>3. respCh' \in Seq(Replies) /\ Len(respCh') <= RespCap
  BY <1>2 DEF TypeOK, Drain, Write, WriteFails, TakeReply, TimeOut, SeeClosed, chanVars
<1>4. /\ out' \in [Callers -> Outcomes] /\ taken' \in [Callers -> Replies \cup {NoReply}]
      /\ out'[c] = "ok" /\ pc'[c] = "release" => taken'[c] \in Replies
      /\ \A d \in Callers \ {c} : out'[d] = out[d] /\ taken'[d] = taken[d]
  <2>1. CASE TakeReply(c)
    <3>1. Head(respCh) \in Replies /\ Head(respCh).as \in {"ok", "busy", "fatal"}
      BY <1>2, <2>1 DEF TakeReply, Replies
    <3>2. PICK o \in Outcomes : out' = [out EXCEPT ![c] = o]
      <4> DEFINE o == IF IsErrorReply(Head(respCh)) THEN Head(respCh).as ELSE "ok"
      <4>1. o \in Outcomes
        BY <3>1 DEF Outcomes
      <4>2. out' = [out EXCEPT ![c] = o]
        BY <2>1 DEF TakeReply
      <4>3. QED
        BY <4>1, <4>2
    <3>3. QED
      BY <2>1, <3>1, <3>2 DEF TakeReply, TypeOK
  <2>2. CASE ~TakeReply(c)
    <3>1. taken' = taken /\ (pc'[c] = "release" => out'[c] # "ok")
      BY <2>2 DEF TypeOK, Drain, Write, WriteFails, TimeOut, SeeClosed, histVars, callVars
    <3>2. out' \in [Callers -> Outcomes] /\ \A d \in Callers \ {c} : out'[d] = out[d]
      BY <2>2 DEF TypeOK, Drain, Write, WriteFails, TimeOut, SeeClosed, Outcomes, callVars
    <3>3. QED
      BY <3>1, <3>2 DEF TypeOK
  <2>3. QED
    BY <2>1, <2>2
<1>5. wire' \in Seq(Requests) /\ Len(wire') <= WireBound
  <2>1. CASE Write(c)
    <3>1. req[c] \in Requests
      BY <2>1 DEF Write, CallerOK
    <3>2. Append(wire, req[c]) \in Seq(Requests)
      BY <3>1, AppendProperties DEF TypeOK
    <3>3. QED
      BY <2>1, <3>2 DEF Write, TypeOK
  <2>2. CASE UNCHANGED wire
    BY <2>2 DEF TypeOK
  <2>3. QED
    BY <2>1, <2>2 DEF Drain, WriteFails, TakeReply, TimeOut, SeeClosed, envVars
<1>6. UNCHANGED <<op, idx, left, req, reqMu, curMatch, notifyCh, reader, closed, reads, link, excused>>
  BY DEF Drain, Write, WriteFails, TakeReply, TimeOut, SeeClosed, callVars, chanVars, envVars,
     histVars
<1>7. TypeOK'
  BY <1>1, <1>3, <1>4, <1>5, <1>6 DEF TypeOK, Steps
<1>8. pc[c] # "idle" /\ pc'[c] # "resume" /\ \A d \in Callers \ {c} : pc'[d] = pc[d]
  BY DEF TypeOK, Drain, Write, WriteFails, TakeReply, TimeOut, SeeClosed
<1>9. \A d \in Callers : CallerOK(d)'
  BY <1>4, <1>6, <1>8 DEF CallerOK
<1>10. QED
  BY <1>7, <1>9

RestVars == <<reqMu, chanVars, notifyCh, reader, closed, envVars, excused>>

\* A caller that sends a request of its operation.
LEMMA SendsKeeps ==
  ASSUME TypeInv, NEW c \in Callers, Sends(c), UNCHANGED RestVars,
         NEW o \in OperationRecords, NEW r \in Requests,
         o.name \in Operations, o.name # "enumerate" => o.dev \in Devices,
         IsPing(r) => o.dev \in Devices /\ r.dev = o.dev,
         IsGetFeature(r) => o.name \in {"deviceType", "hostInfo", "setHost"},
         op' = [op EXCEPT ![c] = o], req' = [req EXCEPT ![c] = r],
         idx' \in [Callers -> Indexes], left' \in [Callers -> 0..Attempts]
  PROVE  TypeInv'
<1> USE DEF TypeInv, Sends, Goto
<1>1. /\ pc' \in [Callers -> Steps] /\ out' \in [Callers -> Outcomes]
      /\ taken' \in [Callers -> Replies \cup {NoReply}]
      /\ op' \in [Callers -> OperationRecords]
      /\ req' \in [Callers -> Requests \cup {NoRequest}]
  BY DEF TypeOK, Steps, Outcomes, OperationRecords
<1>2. TypeOK'
  BY <1>1 DEF TypeOK, RestVars, chanVars, envVars, Steps, OperationRecords
<1>3. pc'[c] = "lock" /\ out'[c] = "none" /\ op'[c] = o /\ req'[c] = r
  BY DEF TypeOK
<1>4. CallerOK(c)'
  BY <1>3 DEF CallerOK
<1>5. \A d \in Callers \ {c} : CallerOK(d)'
  BY DEF TypeOK, CallerOK
<1>6. QED
  BY <1>2, <1>4, <1>5

LEMMA ReturnKeeps ==
  ASSUME TypeInv, NEW c \in Callers, NEW o \in Outcomes, Return(c, o), UNCHANGED RestVars
  PROVE  TypeInv'
<1> USE DEF TypeInv, Return, Goto
<1>1. /\ pc' \in [Callers -> Steps] /\ out' \in [Callers -> Outcomes]
      /\ taken' \in [Callers -> Replies \cup {NoReply}]
      /\ op' \in [Callers -> OperationRecords]
      /\ req' \in [Callers -> Requests \cup {NoRequest}]
      /\ idx' \in [Callers -> Indexes] /\ left' \in [Callers -> 0..Attempts]
  BY HidConnAssumption DEF TypeOK, Steps, OperationRecords, NoOperation, Indexes
<1>2. TypeOK'
  BY <1>1 DEF TypeOK, RestVars, chanVars, envVars, Steps, OperationRecords
<1>3. \A d \in Callers : CallerOK(d)'
  BY DEF TypeOK, CallerOK
<1>4. QED
  BY <1>2, <1>3

LEMMA BeginKeeps == ASSUME TypeInv, NEW c \in Callers, Begin(c) PROVE TypeInv'
<1>1. PICK name \in Operations, d \in Devices, o \in OperationRecords :
        /\ o = [name |-> name, dev |-> IF name = "enumerate" THEN Receiver ELSE d]
        /\ op' = [op EXCEPT ![c] = o]
        /\ left' = [left EXCEPT ![c] = AttemptsOf(name)]
        /\ req' = [req EXCEPT ![c] = Opening(o)]
  <2>1. PICK name \in Operations, d \in Devices :
          LET o == [name |-> name, dev |-> IF name = "enumerate" THEN Receiver ELSE d]
          IN  /\ op' = [op EXCEPT ![c] = o]
              /\ left' = [left EXCEPT ![c] = AttemptsOf(name)]
              /\ req' = [req EXCEPT ![c] = Opening(o)]
    BY DEF Begin
  <2>2. [name |-> name, dev |-> IF name = "enumerate" THEN Receiver ELSE d] \in OperationRecords
    BY DEF OperationRecords
  <2>3. QED
    BY <2>1, <2>2
<1>2. o.name \in Operations /\ (o.name # "enumerate" => o.dev \in Devices)
  BY <1>1
<1>3. AttemptsOf(name) \in 0..Attempts
  BY HidConnAssumption DEF AttemptsOf
<1>4. left' \in [Callers -> 0..Attempts] /\ idx' \in [Callers -> Indexes]
  BY <1>1, <1>3 DEF TypeInv, TypeOK, Begin
<1>5. Sends(c) /\ UNCHANGED RestVars
  BY DEF Begin, RestVars
<1> HIDE DEF TypeInv
<1>6. QED
  BY <1>1, <1>2, <1>4, <1>5, OpeningIsRequest, SendsKeeps

LEMMA RetryKeeps == ASSUME TypeInv, NEW c \in Callers, RetryOperation(c) PROVE TypeInv'
<1> DEFINE o == op[c]
<1>1. o \in OperationRecords /\ o.name \in Operations /\ (o.name # "enumerate" => o.dev \in Devices)
  BY DEF TypeInv, TypeOK, OperationRecords, CallerOK, RetryOperation
<1>2. op' = [op EXCEPT ![c] = o] /\ req' = [req EXCEPT ![c] = Opening(o)]
  BY DEF RetryOperation, TypeInv, TypeOK
<1>3. left' \in [Callers -> 0..Attempts] /\ idx' \in [Callers -> Indexes]
  BY HidConnAssumption DEF TypeInv, TypeOK, RetryOperation, Indexes
<1>4. Sends(c) /\ UNCHANGED RestVars
  BY DEF RetryOperation, RestVars
<1> HIDE DEF o
<1>5. QED
  BY <1>1, <1>2, <1>3, <1>4, OpeningIsRequest, SendsKeeps

\* FeatureIndex took a reply, and the index it returns is one byte or another.
LEMMA IndexIsIndex == ASSUME NEW rep \in Replies PROVE IndexIn(rep) \subseteq Indexes
PROOF BY DEF IndexIn, Replies, Requests, Indexes, IsGetFeature

LEMMA CallFeatureKeeps == ASSUME TypeInv, NEW c \in Callers, CallFeature(c) PROVE TypeInv'
<1>1. PICK i \in IndexIn(taken[c]) :
        IF i = "root"
        THEN Return(c, "fatal")
        ELSE /\ idx' = [idx EXCEPT ![c] = i]
             /\ req' = [req EXCEPT ![c] = Request(op[c].dev, i, FunctionOf(op[c].name), "none")]
             /\ Sends(c)
             /\ UNCHANGED <<op, left>>
  BY DEF CallFeature
<1>2. UNCHANGED RestVars
  BY DEF CallFeature, RestVars
<1>3. CASE i = "root"
  BY <1>1, <1>2, <1>3, ReturnKeeps DEF Outcomes
<1>4. CASE i # "root"
  <2> DEFINE o == op[c]
             r == Request(op[c].dev, i, FunctionOf(op[c].name), "none")
  <2>1. /\ o \in OperationRecords /\ o.name \in {"deviceType", "hostInfo", "setHost"}
        /\ o.dev \in Devices /\ o.name \in Operations
    BY DEF TypeInv, TypeOK, OperationRecords, CallerOK, CallFeature
  <2>2. i \in Indexes
    <3>1. taken[c] \in Replies
      BY DEF TypeInv, CallerOK, CallFeature
    <3>2. IndexIn(taken[c]) \subseteq Indexes
      BY <3>1, IndexIsIndex, Zenon
    <3>3. QED
      BY <1>1, <3>2
  <2>3. r \in Requests /\ ~IsPing(r) /\ ~IsGetFeature(r)
    BY <1>4, <2>1, <2>2 DEF Request, Requests, IsPing, IsGetFeature, FunctionOf
  <2>4. op' = [op EXCEPT ![c] = o] /\ req' = [req EXCEPT ![c] = r] /\ Sends(c)
    BY <1>1, <1>4 DEF TypeInv, TypeOK
  <2>5. idx' \in [Callers -> Indexes] /\ left' \in [Callers -> 0..Attempts]
    <3>1. idx \in [Callers -> Indexes] /\ left \in [Callers -> 0..Attempts]
      BY DEF TypeInv, TypeOK
    <3>2. idx' = [idx EXCEPT ![c] = i] /\ left' = left
      BY <1>1, <1>4
    <3>3. QED
      BY <2>2, <3>1, <3>2
  <2> HIDE DEF o, r
  <2>6. QED
    BY <1>2, <2>1, <2>3, <2>4, <2>5, SendsKeeps
<1>5. QED
  BY <1>3, <1>4

LEMMA FinishKeeps == ASSUME TypeInv, NEW c \in Callers, Finish(c) PROVE TypeInv'
<1>1. PICK o \in Outcomes : Return(c, o)
  BY DEF Finish, TypeInv, TypeOK, Outcomes
<1>2. UNCHANGED RestVars
  BY DEF Finish, RestVars
<1>3. QED
  BY <1>1, <1>2, ReturnKeeps

\* readLoop, Close and the listener.
LEMMA ReadLoopKeeps == ASSUME TypeInv, ReadLoop PROVE TypeInv'
<1>1. UNCHANGED <<pc, callVars, reqMu, curMatch, closed, wire, link, histVars>>
  BY DEF ReadLoop, ReaderTakes, ReaderAnswers, ReaderNotifies, ReaderExits, chanVars, envVars
<1>2. reads' \in Seq(Reports) /\ Len(reads') <= ReadsCap
  <2>1. CASE ReaderTakes
    <3>1. Tail(reads) \in Seq(Reports) /\ Len(Tail(reads)) = Len(reads) - 1
      BY <2>1, HeadTailProperties DEF ReaderTakes, TypeInv, TypeOK
    <3>2. Len(reads) \in Nat /\ Len(reads) <= ReadsCap /\ ReadsCap \in Nat
      BY HidConnAssumption, LenProperties DEF TypeInv, TypeOK
    <3>3. QED
      BY <2>1, <3>1, <3>2 DEF ReaderTakes
  <2>2. CASE ~ReaderTakes
    BY <2>2 DEF ReadLoop, ReaderAnswers, ReaderNotifies, ReaderExits, envVars, TypeInv, TypeOK
  <2>3. QED
    BY <2>1, <2>2
<1>3. /\ reader' \in [at : {"read", "route", "done"}, rep : Reports \cup {NoReply}, mine : BOOLEAN]
      /\ reader'.mine => reader'.rep \in Replies
  <2>1. CASE ReaderTakes
    <3>1. Head(reads) \in Reports
      BY <2>1, HeadTailProperties DEF ReaderTakes, TypeInv, TypeOK
    <3>2. Matches(Head(reads), curMatch) \in BOOLEAN
      BY DEF Matches
    <3>3. Matches(Head(reads), curMatch) => Head(reads) \in Replies
      BY <3>1 DEF Matches, Reports, Notes
    <3>4. QED
      BY <2>1, <3>1, <3>2, <3>3 DEF ReaderTakes
  <2>2. CASE ReaderLoops
    BY <2>2 DEF ReaderLoops, Reading
  <2>3. QED
    BY <2>1, <2>2 DEF ReadLoop, ReaderAnswers, ReaderNotifies, ReaderExits
<1>4. respCh' \in Seq(Replies) /\ Len(respCh') <= RespCap
  <2>1. CASE ReaderAnswers
    <3>1. Append(respCh, reader.rep) \in Seq(Replies)
          /\ Len(Append(respCh, reader.rep)) = Len(respCh) + 1
      BY <2>1, AppendProperties DEF ReaderAnswers, TypeInv, TypeOK
    <3>2. Len(respCh) \in Nat /\ RespCap \in Nat
      BY HidConnAssumption, LenProperties DEF TypeInv, TypeOK
    <3>3. QED
      BY <2>1, <3>1, <3>2 DEF ReaderAnswers, TypeInv, TypeOK
  <2>2. CASE ~ReaderAnswers
    BY <2>2 DEF ReadLoop, ReaderTakes, ReaderNotifies, ReaderExits, chanVars, TypeInv, TypeOK
  <2>3. QED
    BY <2>1, <2>2
<1>5. notifyCh' \in 0..NoteCap
  <2>1. notifyCh \in 0..NoteCap /\ NoteCap \in Nat
    BY HidConnAssumption DEF TypeInv, TypeOK
  <2>2. notifyCh' = notifyCh \/ (notifyCh < NoteCap /\ notifyCh' = notifyCh + 1)
    BY DEF ReadLoop, ReaderTakes, ReaderAnswers, ReaderNotifies, ReaderExits
  <2>3. QED
    BY <2>1, <2>2
<1>6. TypeOK'
  BY <1>1, <1>2, <1>3, <1>4, <1>5 DEF TypeInv, TypeOK, callVars, histVars
<1>7. QED
  BY <1>1, <1>6, CallersFrame DEF TypeInv, callVars, histVars

LEMMA CloseKeeps == ASSUME TypeInv, Close \/ Listen PROVE TypeInv'
<1>1. UNCHANGED <<pc, callVars, reqMu, chanVars, reader, envVars, histVars>>
  BY DEF Close, Listen
<1>2. closed' \in BOOLEAN /\ notifyCh' \in 0..NoteCap
  <2>1. notifyCh \in 0..NoteCap /\ NoteCap \in Nat /\ closed \in BOOLEAN
    BY HidConnAssumption DEF TypeInv, TypeOK
  <2>2. CASE Close
    BY <2>1, <2>2 DEF Close
  <2>3. CASE Listen
    BY <2>1, <2>3 DEF Listen
  <2>4. QED
    BY <2>2, <2>3
<1>3. TypeOK'
  BY <1>1, <1>2 DEF TypeInv, TypeOK, callVars, chanVars, envVars, histVars
<1>4. QED
  BY <1>1, <1>3, CallersFrame DEF TypeInv, callVars, histVars

\* A report that arrives.
LEMMA ReadsIsSeq ==
  ASSUME TypeInv, NEW rep \in Reports, Reads(rep)
  PROVE  reads' \in Seq(Reports) /\ Len(reads') <= ReadsCap
<1>1. Append(reads, rep) \in Seq(Reports) /\ Len(Append(reads, rep)) = Len(reads) + 1
  BY AppendProperties DEF TypeInv, TypeOK
<1>2. Len(reads) \in Nat /\ ReadsCap \in Nat
  BY HidConnAssumption, LenProperties DEF TypeInv, TypeOK
<1>3. QED
  BY <1>1, <1>2 DEF Reads

\* What the devices and the receiver make of the request at place i.
LEMMA AnswerReads ==
  ASSUME TypeInv, NEW i \in 1..Len(wire),
         \/ DeviceAnswers(i) \/ DeviceRefuses(i) \/ ReceiverRefuses(i)
         \/ DeviceLeaves(i) \/ NothingComes(i)
  PROVE  /\ link' \subseteq link
         /\ \/ UNCHANGED reads
            \/ \E rep \in Replies : /\ Reads(rep)
                                    /\ ~IsErrorReply(rep) => Here(wire[i]) /\ rep.to = wire[i]
<1>1. wire[i] \in Requests
  BY ElementOfSeq DEF TypeInv, TypeOK
<1>2. link' \subseteq link
  BY DEF DeviceAnswers, DeviceRefuses, ReceiverRefuses, DeviceLeaves, NothingComes
<1>3. CASE DeviceAnswers(i)
  <2>1. Reply(wire[i], "ok", "long") \in Replies
    BY <1>1 DEF Reply, Replies
  <2>2. QED
    BY <1>2, <1>3, <2>1 DEF DeviceAnswers, Reply
<1>4. CASE DeviceRefuses(i)
  <2>1. PICK as \in {"busy", "fatal"}, frame \in ErrorFrames : Reads(Reply(wire[i], as, frame))
    BY <1>4 DEF DeviceRefuses
  <2>2. Reply(wire[i], as, frame) \in Replies /\ Reply(wire[i], as, frame).to = wire[i]
    BY <1>1, HidConnAssumption DEF Reply, Replies
  <2>3. Here(wire[i])
    BY <1>4 DEF DeviceRefuses, Here
  <2>4. QED
    BY <1>2, <2>1, <2>2, <2>3
<1>5. CASE ReceiverRefuses(i)
  <2>1. Reply(wire[i], "fatal", "short") \in Replies
    BY <1>1 DEF Reply, Replies
  <2>2. QED
    BY <1>2, <1>5, <2>1 DEF ReceiverRefuses, Reply, IsErrorReply
<1>6. CASE DeviceLeaves(i) \/ NothingComes(i)
  BY <1>2, <1>6 DEF DeviceLeaves, NothingComes
<1>7. QED
  BY <1>3, <1>4, <1>5, <1>6

LEMMA AnswerKeeps == ASSUME TypeInv, Answer PROVE TypeInv'
<1>1. PICK i \in 1..Len(wire) :
        /\ wire' = RemoveAt(wire, i)
        /\ \/ DeviceAnswers(i) \/ DeviceRefuses(i) \/ ReceiverRefuses(i)
           \/ DeviceLeaves(i) \/ NothingComes(i)
        /\ EnvFrame /\ UNCHANGED excused
  BY DEF Answer
<1>2. link' \subseteq Devices /\ reads' \in Seq(Reports) /\ Len(reads') <= ReadsCap
  <2>1. \A rep \in Replies : rep \in Reports
    BY DEF Reports
  <2>2. QED
    BY <1>1, <2>1, AnswerReads, ReadsIsSeq DEF TypeInv, TypeOK
<1>3. wire' \in Seq(Requests) /\ Len(wire') <= WireBound
  <2>1. wire' \in Seq(Requests) /\ Len(wire') = Len(wire) - 1
    BY <1>1, RemoveAtIsSeq DEF TypeInv, TypeOK
  <2>2. Len(wire) \in Nat /\ Len(wire) <= WireBound /\ WireBound \in Nat
    BY HidConnAssumption, LenProperties DEF TypeInv, TypeOK
  <2>3. QED
    BY <2>1, <2>2
<1>4. TypeOK'
  BY <1>1, <1>2, <1>3 DEF EnvFrame, TypeInv, TypeOK, callVars, chanVars
<1>5. QED
  BY <1>1, <1>4, CallersFrame DEF TypeInv, EnvFrame, callVars

LEMMA DeviceMovesKeeps == ASSUME TypeInv, DeviceMoves PROVE TypeInv'
<1>1. PICK d \in Devices :
        /\ link' = IF d \in link THEN link \ {d} ELSE link \cup {d}
        /\ Reads(Note(d)) \/ UNCHANGED reads
        /\ excused' = [c \in Callers |-> excused[c] \/ (Outstanding(c) /\ op[c].dev = d)]
        /\ EnvFrame /\ UNCHANGED wire
  BY DEF DeviceMoves
<1>2. Note(d) \in Reports
  BY DEF Note, Notes, Reports
<1>3. reads' \in Seq(Reports) /\ Len(reads') <= ReadsCap
  BY <1>1, <1>2, ReadsIsSeq DEF TypeInv, TypeOK
<1>4. link' \subseteq Devices
  BY <1>1 DEF TypeInv, TypeOK
<1>5. excused' \in [Callers -> BOOLEAN]
  BY <1>1 DEF TypeInv, TypeOK
<1>6. TypeOK'
  BY <1>1, <1>3, <1>4, <1>5 DEF EnvFrame, TypeInv, TypeOK, callVars, chanVars
<1>7. QED
  BY <1>1, <1>6, CallersFrame DEF TypeInv, EnvFrame, callVars

LEMMA TypeInvNext == TypeInv /\ [Next]_vars => TypeInv'
<1> SUFFICES ASSUME TypeInv, [Next]_vars PROVE TypeInv'
  OBVIOUS
<1>1. ASSUME NEW c \in Callers, Begin(c) \/ Caller(c) PROVE TypeInv'
  BY <1>1, BeginKeeps, RetryKeeps, CallFeatureKeeps, FinishKeeps, TypeInvLock, TypeInvRequest
     DEF Caller
<1>2. CASE UNCHANGED vars
  <2>1. TypeOK'
    BY <1>2 DEF TypeInv, TypeOK, vars, callVars, chanVars, envVars, histVars
  <2>2. QED
    BY <1>2, <2>1, CallersFrame DEF TypeInv, vars, callVars, histVars
<1>3. QED
  BY <1>1, <1>2, ReadLoopKeeps, CloseKeeps, AnswerKeeps, DeviceMovesKeeps DEF Next

LEMMA TypeInvariant == Spec => []TypeInv
PROOF BY TypeInvInit, TypeInvNext, PTL DEF Spec

\* Requests, replies and channels hold what they should, for any devices and callers.
THEOREM TypeCorrect == Spec => []TypeOK
<1>1. TypeInv => TypeOK
  BY DEF TypeInv
<1>2. QED
  BY <1>1, TypeInvariant, PTL

-----------------------------------------------------------------------------
(* Requests are serialised.                                                *)

\* No other caller's matcher and no other holder of reqMu disturb a caller.
LEMMA OthersKeepSerialized ==
  ASSUME RequestsAreSerialized, \A c \in Callers : Outstanding(c)' => Outstanding(c),
         UNCHANGED <<reqMu, curMatch, req>>
  PROVE  RequestsAreSerialized'
PROOF BY DEF RequestsAreSerialized

LEMMA SerializedInit == Init => RequestsAreSerialized
PROOF BY DEF Init, RequestsAreSerialized, Outstanding

LEMMA SerializedNext ==
  ASSUME TypeInv, RequestsAreSerialized, [Next]_vars
  PROVE  RequestsAreSerialized'
<1>1. ASSUME NEW c \in Callers, Acquire(c) PROVE RequestsAreSerialized'
  <2>1. \A d \in Callers \ {c} : ~Outstanding(d)
    BY <1>1, HidConnAssumption DEF Acquire, RequestsAreSerialized
  <2>2. \A d \in Callers \ {c} : ~Outstanding(d)'
    BY <1>1, <2>1 DEF Acquire, Goto, Outstanding, TypeInv, TypeOK
  <2>3. reqMu' = c /\ curMatch' = req'[c]
    BY <1>1 DEF Acquire, callVars
  <2>4. QED
    BY <2>2, <2>3 DEF RequestsAreSerialized
<1>2. ASSUME NEW c \in Callers, Release(c) PROVE RequestsAreSerialized'
  <2>1. \A d \in Callers \ {c} : ~Outstanding(d)
    BY <1>2 DEF Release, RequestsAreSerialized, Outstanding
  <2>2. \A d \in Callers : ~Outstanding(d)'
    BY <1>2, <2>1 DEF Release, Goto, Outstanding, TypeInv, TypeOK
  <2>3. QED
    BY <2>2 DEF RequestsAreSerialized
<1>3. ASSUME NEW c \in Callers,
             \/ Drain(c) \/ Write(c) \/ WriteFails(c) \/ TakeReply(c) \/ TimeOut(c)
             \/ SeeClosed(c) \/ AcquireClosed(c)
      PROVE  RequestsAreSerialized'
  <2>1. \A d \in Callers : Outstanding(d)' => Outstanding(d)
    BY <1>3 DEF Drain, Write, WriteFails, TakeReply, TimeOut, SeeClosed, AcquireClosed, Ends,
       Goto, Outstanding, TypeInv, TypeOK
  <2>2. UNCHANGED <<reqMu, curMatch, req>>
    BY <1>3 DEF Drain, Write, WriteFails, TakeReply, TimeOut, SeeClosed, AcquireClosed, callVars,
       chanVars
  <2>3. QED
    BY <2>1, <2>2, OthersKeepSerialized
<1>4. ASSUME NEW c \in Callers,
             Begin(c) \/ CallFeature(c) \/ RetryOperation(c) \/ Finish(c)
      PROVE  RequestsAreSerialized'
  <2>1. UNCHANGED <<reqMu, curMatch>>
    BY <1>4 DEF Begin, CallFeature, RetryOperation, Finish, chanVars
  <2>2. ~Outstanding(c)' /\ \A d \in Callers \ {c} : pc'[d] = pc[d] /\ req'[d] = req[d]
    BY <1>4 DEF Begin, CallFeature, RetryOperation, Finish, Sends, Return, Goto, Outstanding,
       TypeInv, TypeOK
  <2>3. QED
    BY <2>1, <2>2 DEF RequestsAreSerialized, Outstanding
<1>5. CASE ReadLoop \/ Close \/ Listen \/ Answer \/ DeviceMoves \/ UNCHANGED vars
  <2>1. UNCHANGED <<pc, reqMu, curMatch, req>>
    BY <1>5 DEF ReadLoop, ReaderTakes, ReaderAnswers, ReaderNotifies, ReaderExits, Close, Listen,
       Answer, DeviceMoves, EnvFrame, vars, callVars, chanVars
  <2>2. QED
    BY <2>1, OthersKeepSerialized DEF Outstanding
<1>6. QED
  BY <1>1, <1>2, <1>3, <1>4, <1>5 DEF Next, Caller

\* However many goroutines share a connection, the matcher that is installed while
\* one of them sends or waits is its own (reqMu, hidpp.go).
THEOREM Serialized == Spec => []RequestsAreSerialized
<1>1. TypeInv /\ RequestsAreSerialized /\ [Next]_vars => RequestsAreSerialized'
  BY SerializedNext
<1>2. QED
  BY <1>1, SerializedInit, TypeInvariant, PTL DEF Spec

-----------------------------------------------------------------------------
(* What a ping tells.  "Answer" is whatever request takes for one: a long   *)
(* report of an error is one, and comes from the device all the same.      *)

\* While a ping of a device that is away waits, no answer of that device is about.
Unanswered(c) ==
  Outstanding(c) /\ IsPing(req[c]) /\ ~excused[c] =>
    /\ op[c].dev \notin link
    /\ \A i \in 1..Len(reads) :
         reads[i].kind = "reply" /\ ~IsErrorReply(reads[i]) => reads[i].to.dev # op[c].dev
    /\ reader.mine => IsErrorReply(reader.rep)
    /\ \A i \in 1..Len(respCh) : IsErrorReply(respCh[i])
    /\ pc[c] = "release" => out[c] # "ok"

PingInv == TypeInv /\ RequestsAreSerialized /\ \A c \in Callers : Unanswered(c)

LEMMA OthersStayUnanswered ==
  ASSUME NEW c \in Callers, Unanswered(c),
         UNCHANGED <<pc[c], req[c], excused[c], op[c], out[c], link, reads, reader, respCh>>
  PROVE  Unanswered(c)'
PROOF BY DEF Unanswered, Outstanding

\* A caller that holds reqMu is the only one between Lock and Unlock.
LEMMA OneOutstanding ==
  ASSUME RequestsAreSerialized, NEW c \in Callers, NEW d \in Callers,
         Outstanding(c), Outstanding(d)
  PROVE  c = d
PROOF BY DEF RequestsAreSerialized

LEMMA AcquireUnanswered ==
  ASSUME PingInv, NEW c \in Callers, Acquire(c)
  PROVE  \A d \in Callers : Unanswered(d)'
<1> USE DEF PingInv
<1>1. \A d \in Callers \ {c} : ~Outstanding(d)'
  <2>1. \A d \in Callers \ {c} : ~Outstanding(d)
    BY HidConnAssumption DEF Acquire, RequestsAreSerialized
  <2>2. QED
    BY <2>1 DEF Acquire, Goto, Outstanding, TypeInv, TypeOK
<1>2. /\ pc'[c] = "drain" /\ excused'[c] = (op[c].dev \in link \/ OldAnswers)
      /\ UNCHANGED <<op, req, out, link, reads, reader, respCh>>
  BY DEF Acquire, Goto, callVars, envVars, TypeInv, TypeOK
<1>3. ASSUME ~OldAnswers
      PROVE  /\ \A i \in 1..Len(reads) : ~(reads[i].kind = "reply" /\ ~IsErrorReply(reads[i]))
             /\ \A i \in 1..Len(respCh) : IsErrorReply(respCh[i])
             /\ reader.mine => IsErrorReply(reader.rep)
  <2>1. \A rep \in Range(reads) \cup Range(respCh) \cup {reader.rep} :
          ~(rep.kind = "reply" /\ ~IsErrorReply(rep))
    BY <1>3 DEF OldAnswers
  <2>2. \A i \in 1..Len(reads) : reads[i] \in Range(reads)
    BY LenProperties DEF Range, TypeInv, TypeOK
  <2>3. \A i \in 1..Len(respCh) : respCh[i] \in Range(respCh) /\ respCh[i].kind = "reply"
    <3>1. \A i \in 1..Len(respCh) : respCh[i] \in Replies
      BY ElementOfSeq DEF TypeInv, TypeOK
    <3>2. QED
      BY <3>1, LenProperties DEF Range, TypeInv, TypeOK, Replies
  <2>4. reader.mine => reader.rep.kind = "reply"
    BY DEF TypeInv, TypeOK, Replies
  <2>5. QED
    BY <2>1, <2>2, <2>3, <2>4
<1>4. Unanswered(c)'
  BY <1>2, <1>3 DEF Unanswered
<1>5. QED
  BY <1>1, <1>4 DEF Unanswered

\* The channel holds no answer, so what is taken from it is an error frame.
LEMMA TakeReplyUnanswered ==
  ASSUME PingInv, NEW c \in Callers, TakeReply(c)
  PROVE  Unanswered(c)'
<1> USE DEF PingInv
<1>1. Head(respCh) \in Replies /\ Head(respCh) = respCh[1] /\ 1 \in 1..Len(respCh)
  BY HeadTailProperties, LenProperties, EmptySeq DEF TakeReply, TypeInv, TypeOK
<1>2. Len(Tail(respCh)) = Len(respCh) - 1
      /\ \A i \in 1..Len(Tail(respCh)) : Tail(respCh)[i] = respCh[i+1] /\ i+1 \in 1..Len(respCh)
  BY HeadTailProperties, LenProperties DEF TakeReply, TypeInv, TypeOK
<1>3. /\ UNCHANGED <<op, req, excused, link, reads, reader>>
      /\ respCh' = Tail(respCh) /\ Outstanding(c)
      /\ out'[c] = IF IsErrorReply(Head(respCh)) THEN Head(respCh).as ELSE "ok"
  BY DEF TakeReply, Ends, Outstanding, envVars, TypeInv, TypeOK
<1>4. ASSUME IsErrorReply(Head(respCh)) PROVE out'[c] # "ok"
  BY <1>3, <1>4 DEF IsErrorReply
<1>5. QED
  BY <1>1, <1>2, <1>3, <1>4 DEF Unanswered

LEMMA RequestUnanswered ==
  ASSUME PingInv, NEW c \in Callers,
         Drain(c) \/ Write(c) \/ WriteFails(c) \/ TimeOut(c) \/ SeeClosed(c)
  PROVE  Unanswered(c)'
<1> USE DEF PingInv
<1>1. /\ UNCHANGED <<op, req, excused, link, reads, reader>>
      /\ Outstanding(c) /\ (pc'[c] = "release" => out'[c] # "ok")
  BY DEF Drain, Write, WriteFails, TimeOut, SeeClosed, Ends, Goto, Outstanding, callVars,
     envVars, histVars, TypeInv, TypeOK
<1>2. ASSUME \A i \in 1..Len(respCh) : IsErrorReply(respCh[i])
      PROVE  \A i \in 1..Len(respCh') : IsErrorReply(respCh'[i])
  <2>1. CASE Drain(c) /\ respCh # <<>>
    <3>1. /\ Len(Tail(respCh)) = Len(respCh) - 1
          /\ \A i \in 1..Len(Tail(respCh)) : Tail(respCh)[i] = respCh[i+1] /\ i+1 \in 1..Len(respCh)
      BY <2>1, HeadTailProperties, LenProperties DEF TypeInv, TypeOK
    <3>2. QED
      BY <1>2, <2>1, <3>1 DEF Drain
  <2>2. CASE ~(Drain(c) /\ respCh # <<>>)
    BY <1>2, <2>2 DEF Drain, Write, WriteFails, TimeOut, SeeClosed, chanVars
  <2>3. QED
    BY <2>1, <2>2
<1>3. QED
  BY <1>1, <1>2 DEF Unanswered

\* The steps of one caller leave the others' claims alone.
LEMMA CallerUnanswered ==
  ASSUME PingInv, NEW c \in Callers, Begin(c) \/ Caller(c)
  PROVE  \A d \in Callers : Unanswered(d)'
<1> USE DEF PingInv
<1>1. CASE Acquire(c)
  BY <1>1, AcquireUnanswered
<1>2. CASE \/ Drain(c) \/ Write(c) \/ WriteFails(c) \/ TakeReply(c) \/ TimeOut(c)
           \/ SeeClosed(c)
  <2>1. Unanswered(c)'
    BY <1>2, TakeReplyUnanswered, RequestUnanswered
  <2>2. \A d \in Callers \ {c} : ~Outstanding(d)
    BY <1>2, OneOutstanding DEF Drain, Write, WriteFails, TakeReply, TimeOut, SeeClosed, Outstanding
  <2>3. \A d \in Callers \ {c} : ~Outstanding(d)'
    BY <1>2, <2>2 DEF Drain, Write, WriteFails, TakeReply, TimeOut, SeeClosed, Ends, Goto,
       Outstanding, TypeInv, TypeOK
  <2>4. QED
    BY <2>1, <2>3 DEF Unanswered
<1>3. CASE \/ AcquireClosed(c) \/ Release(c) \/ Begin(c) \/ CallFeature(c)
           \/ RetryOperation(c) \/ Finish(c)
  <2>1. ~Outstanding(c)'
    BY <1>3 DEF AcquireClosed, Release, Begin, CallFeature, RetryOperation, Finish, Sends, Return,
       Goto, Outstanding, TypeInv, TypeOK
  <2>2. ASSUME NEW d \in Callers \ {c}
        PROVE  UNCHANGED <<pc[d], req[d], excused[d], op[d], out[d]>>
    <3>1. UNCHANGED <<pc[d], excused[d]>>
      BY <1>3 DEF AcquireClosed, Release, Begin, CallFeature, RetryOperation, Finish, Sends, Return,
         Goto, histVars, TypeInv, TypeOK
    <3>2. UNCHANGED <<req[d], op[d], out[d]>>
      BY <1>3 DEF AcquireClosed, Release, Begin, CallFeature, RetryOperation, Finish, Sends, Return,
         callVars, TypeInv, TypeOK
    <3>3. QED
      BY <3>1, <3>2
  <2>3. UNCHANGED <<link, reads, reader, respCh>>
    BY <1>3 DEF AcquireClosed, Release, Begin, CallFeature, RetryOperation, Finish, chanVars, envVars
  <2>4. \A d \in Callers \ {c} : Unanswered(d)'
    BY <2>2, <2>3, OthersStayUnanswered
  <2>5. QED
    BY <2>1, <2>4 DEF Unanswered
<1>4. QED
  BY <1>1, <1>2, <1>3 DEF Caller

LEMMA ReaderTakesUnanswered ==
  ASSUME PingInv, NEW c \in Callers, ReaderTakes PROVE Unanswered(c)'
<1> USE DEF PingInv
<1>1. /\ reads # <<>> /\ reads' = Tail(reads)
      /\ reader' = [at |-> "route", rep |-> Head(reads), mine |-> Matches(Head(reads), curMatch)]
      /\ UNCHANGED <<pc, op, req, out, excused, link, respCh>>
  BY DEF ReaderTakes, callVars, chanVars, histVars
<1>2. /\ Len(Tail(reads)) = Len(reads) - 1 /\ Head(reads) = reads[1] /\ 1 \in 1..Len(reads)
      /\ \A i \in 1..Len(Tail(reads)) : Tail(reads)[i] = reads[i+1] /\ i+1 \in 1..Len(reads)
  BY <1>1, HeadTailProperties, LenProperties, EmptySeq DEF TypeInv, TypeOK
<1>3. ASSUME Outstanding(c), IsPing(req[c]), Matches(Head(reads), curMatch)
      PROVE  Head(reads).kind = "reply" /\ Head(reads).to.dev = op[c].dev
  <2>1. curMatch = req[c] /\ req[c].dev = op[c].dev
    BY <1>3 DEF RequestsAreSerialized, TypeInv, CallerOK, Outstanding
  <2>2. Head(reads).to.dev = curMatch.dev
    BY <1>3 DEF Matches, Key
  <2>3. QED
    BY <1>3, <2>1, <2>2 DEF Matches
<1>4. QED
  BY <1>1, <1>2, <1>3 DEF Unanswered, Outstanding

LEMMA ReadLoopUnanswered ==
  ASSUME PingInv, NEW c \in Callers, ReadLoop PROVE Unanswered(c)'
<1> USE DEF PingInv
<1>1. CASE ReaderTakes
  BY <1>1, ReaderTakesUnanswered
<1>2. CASE ReaderAnswers
  <2>1. UNCHANGED <<pc, op, req, out, excused, link, reads>> /\ ~reader'.mine /\ reader.mine
    BY <1>2 DEF ReaderAnswers, ReaderLoops, Reading, callVars, histVars, envVars
  <2>2. ASSUME IsErrorReply(reader.rep), \A i \in 1..Len(respCh) : IsErrorReply(respCh[i])
        PROVE  \A i \in 1..Len(respCh') : IsErrorReply(respCh'[i])
    <3>1. /\ Len(Append(respCh, reader.rep)) = Len(respCh) + 1
          /\ \A i \in 1..Len(respCh) : Append(respCh, reader.rep)[i] = respCh[i]
          /\ Append(respCh, reader.rep)[Len(respCh) + 1] = reader.rep
      BY <2>1, AppendProperties DEF TypeInv, TypeOK
    <3>2. Len(respCh) \in Nat
      BY LenProperties DEF TypeInv, TypeOK
    <3>3. QED
      BY <1>2, <2>2, <3>1, <3>2 DEF ReaderAnswers
  <2>3. QED
    BY <2>1, <2>2 DEF Unanswered, Outstanding
<1>3. CASE ReaderNotifies \/ ReaderExits
  <2>1. UNCHANGED <<pc, op, req, out, excused, link, reads, respCh>> /\ ~reader'.mine
    BY <1>3 DEF ReaderNotifies, ReaderExits, ReaderLoops, Reading, callVars, histVars, envVars,
       chanVars
  <2>2. QED
    BY <2>1 DEF Unanswered, Outstanding
<1>4. QED
  BY <1>1, <1>2, <1>3 DEF ReadLoop

\* A report arrives that is no answer of the device.
LEMMA ArrivalUnanswered ==
  ASSUME PingInv, NEW c \in Callers, NEW rep \in Reports, Reads(rep),
         Outstanding(c) /\ IsPing(req[c]) /\ ~excused'[c] =>
           /\ ~excused[c] /\ op[c].dev \notin link'
           /\ rep.kind = "reply" /\ ~IsErrorReply(rep) => rep.to.dev # op[c].dev,
         UNCHANGED <<pc, op, req, out, reader, respCh>>
  PROVE  Unanswered(c)'
<1> USE DEF PingInv
<1>1. /\ Len(reads') = Len(reads) + 1 /\ \A i \in 1..Len(reads) : reads'[i] = reads[i]
      /\ reads'[Len(reads) + 1] = rep
  BY AppendProperties DEF Reads, TypeInv, TypeOK
<1>2. Len(reads) \in Nat
  BY LenProperties DEF TypeInv, TypeOK
<1>3. ASSUME Outstanding(c), IsPing(req[c]), ~excused'[c], NEW i \in 1..Len(reads'),
             reads'[i].kind = "reply", ~IsErrorReply(reads'[i])
      PROVE  reads'[i].to.dev # op[c].dev
  <2>1. CASE i = Len(reads) + 1
    BY <1>1, <1>3, <2>1
  <2>2. CASE i \in 1..Len(reads)
    BY <1>1, <1>3, <2>2 DEF Unanswered
  <2>3. QED
    BY <1>1, <1>2, <2>1, <2>2
<1>4. QED
  BY <1>3 DEF Unanswered, Outstanding

LEMMA QuietUnanswered ==
  ASSUME PingInv, NEW c \in Callers,
         Outstanding(c) /\ IsPing(req[c]) /\ ~excused'[c] => ~excused[c] /\ op[c].dev \notin link',
         UNCHANGED <<pc, op, req, out, reads, reader, respCh>>
  PROVE  Unanswered(c)'
PROOF BY DEF PingInv, Unanswered, Outstanding

\* Only a device that is on this host, or the receiver, answers.
LEMMA AnswerUnanswered ==
  ASSUME PingInv, NEW c \in Callers, Answer PROVE Unanswered(c)'
<1> USE DEF PingInv
<1>1. PICK i \in 1..Len(wire) :
        /\ \/ DeviceAnswers(i) \/ DeviceRefuses(i) \/ ReceiverRefuses(i)
           \/ DeviceLeaves(i) \/ NothingComes(i)
        /\ EnvFrame /\ UNCHANGED excused
  BY DEF Answer
<1>2. UNCHANGED <<pc, op, req, out, reader, respCh, excused>>
  BY <1>1 DEF EnvFrame, callVars, chanVars
<1>3. link' \subseteq link
  BY <1>1, AnswerReads
<1>4. Outstanding(c) /\ IsPing(req[c]) /\ ~excused[c] =>
        /\ op[c].dev \notin link' /\ op[c].dev \notin link \cup {Receiver}
  <2>1. Outstanding(c) /\ IsPing(req[c]) => op[c].dev \in Devices
    BY DEF Outstanding, TypeInv, CallerOK
  <2>2. Receiver \notin Devices
    BY HidConnAssumption DEF Receiver
  <2>3. QED
    BY <1>3, <2>1, <2>2 DEF Unanswered
<1>5. CASE UNCHANGED reads
  BY <1>2, <1>4, <1>5, QuietUnanswered
<1>6. CASE \E rep \in Replies : Reads(rep) /\ (~IsErrorReply(rep) => Here(wire[i]) /\ rep.to = wire[i])
  <2>1. PICK rep \in Replies : Reads(rep) /\ (~IsErrorReply(rep) => Here(wire[i]) /\ rep.to = wire[i])
    BY <1>6
  <2>2. rep \in Reports
    BY DEF Reports
  <2>3. Outstanding(c) /\ IsPing(req[c]) /\ ~excused'[c] /\ ~IsErrorReply(rep) =>
          rep.to.dev # op[c].dev
    BY <1>2, <1>4, <2>1 DEF Here
  <2>4. QED
    BY <1>2, <1>4, <2>1, <2>2, <2>3, ArrivalUnanswered
<1>7. QED
  BY <1>1, <1>5, <1>6, AnswerReads

LEMMA DeviceMovesUnanswered ==
  ASSUME PingInv, NEW c \in Callers, DeviceMoves PROVE Unanswered(c)'
<1> USE DEF PingInv
<1>1. PICK d \in Devices :
        /\ link' = IF d \in link THEN link \ {d} ELSE link \cup {d}
        /\ Reads(Note(d)) \/ UNCHANGED reads
        /\ excused' = [b \in Callers |-> excused[b] \/ (Outstanding(b) /\ op[b].dev = d)]
        /\ EnvFrame
  BY DEF DeviceMoves
<1>2. UNCHANGED <<pc, op, req, out, reader, respCh>>
  BY <1>1 DEF EnvFrame, callVars, chanVars
<1>3. Outstanding(c) /\ IsPing(req[c]) /\ ~excused'[c] => ~excused[c] /\ op[c].dev \notin link'
  BY <1>1 DEF Unanswered
<1>4. Note(d) \in Reports /\ Note(d).kind # "reply"
  BY DEF Note, Notes, Reports
<1>5. QED
  BY <1>1, <1>2, <1>3, <1>4, ArrivalUnanswered, QuietUnanswered

LEMMA PingInvInit == Init => PingInv
PROOF BY TypeInvInit, SerializedInit DEF PingInv, Init, Unanswered, Outstanding

LEMMA PingInvNext == ASSUME PingInv, [Next]_vars PROVE PingInv'
<1>1. TypeInv' /\ RequestsAreSerialized'
  BY TypeInvNext, SerializedNext DEF PingInv
<1>2. ASSUME NEW c \in Callers PROVE Unanswered(c)'
  <2>1. CASE Close \/ Listen \/ UNCHANGED vars
    <3>1. UNCHANGED <<pc, op, req, out, excused, link, reads, reader, respCh>>
      BY <2>1 DEF Close, Listen, vars, callVars, chanVars, envVars, histVars
    <3>2. QED
      BY <3>1, OthersStayUnanswered DEF PingInv
  <2>2. QED
    BY <2>1, CallerUnanswered, ReadLoopUnanswered, AnswerUnanswered, DeviceMovesUnanswered DEF Next
<1>3. QED
  BY <1>1, <1>2 DEF PingInv

\* Whatever reports devices send their errors in: a ping that succeeds tells that its
\* device was on this host since the ping began, or that an older answer was still on
\* its way then (Ping and request, hidpp.go; what Controller builds on).
THEOREM PingsTellPresence == Spec => []PingTellsPresence
<1>1. PingInv /\ [Next]_vars => PingInv'
  BY PingInvNext
<1>2. PingInv => PingTellsPresence
  BY DEF PingInv, Unanswered, PingTellsPresence, Outstanding
<1>3. QED
  BY <1>1, <1>2, PingInvInit, PTL DEF Spec
=============================================================================
