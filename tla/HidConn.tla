------------------------------ MODULE HidConn -------------------------------
(***************************************************************************)
(* Package hidpp: one connection to a receiver.  Callers serialise their   *)
(* requests on reqMu; the single readLoop routes every report either to    *)
(* the request that waits, if its matcher accepts the report, or to        *)
(* notifyCh.  Neither the device nor the receiver numbers its replies: a   *)
(* matcher knows the device, the feature and the function only, and what   *)
(* is left in respCh is not matched again.                                 *)
(*                                                                         *)
(* A step is one critical section of reqMu or matchMu, one channel         *)
(* operation or one read or write of the receiver.  Devices, the receiver  *)
(* and the merged reads of hidtransport are the environment.               *)
(***************************************************************************)
EXTENDS Naturals, Sequences, FiniteSets, SequencesExt

CONSTANTS Callers,     \* goroutines that use the connection
          Devices,     \* slots of paired devices
          HostDevices, \* those that have feature 0x1814 (CHANGE HOST)
          Operations,  \* the exported operations the callers use
          ErrorFrames, \* reports that carry a device's error: "short", "long"
          Attempts,    \* attempts of withRetry (4 in the code)
          RespCap,     \* capacity of respCh (4 in the code)
          NoteCap,     \* capacity of notifyCh (32 in the code)
          ReadsCap,    \* capacity of Receiver.reads (64 in the code)
          WireBound,   \* bound: requests a device has yet to answer
          MayClose     \* whether the connection may be closed

Receiver == 0   \* device index 0xFF
NoCaller == 0

ASSUME HidConnAssumption ==
  /\ NoCaller \notin Callers
  /\ Devices \subseteq Nat \ {0}
  /\ HostDevices \subseteq Devices
  /\ Operations \subseteq {"ping", "enumerate", "deviceType", "hostInfo", "setHost"}
  /\ ErrorFrames \subseteq {"short", "long"}
  /\ {Attempts, RespCap, NoteCap, ReadsCap, WireBound} \subseteq Nat \ {0}
  /\ MayClose \in BOOLEAN

VARIABLES
  pc,       \* where each caller is in its operation
  op,       \* the operation each caller performs, and its device
  idx,      \* the feature index FeatureIndex returned to each caller
  left,     \* attempts each caller has left
  req,      \* the request each caller sends
  out,      \* how the caller's last request ended, and the operation's result
  reqMu,    \* the holder of reqMu
  curMatch, \* the request whose matcher is installed
  respCh,   \* replies for the waiting request
  notifyCh, \* how many unsolicited reports are not yet read
  reader,   \* readLoop: where it is, the report it routes, whether curMatch took it
  closed,   \* Close was called
  reads,    \* environment: reports read from the receiver's handles
  wire,     \* environment: requests a device has yet to answer
  link,     \* environment: devices on this host
  taken,    \* history: the reply each caller's last request took
  excused   \* history: the device was here, or an old reply was about,
            \* at some time since the caller's request began

callVars == <<op, idx, left, req, out>>
chanVars == <<curMatch, respCh>>
envVars == <<reads, wire, link>>
histVars == <<taken, excused>>
vars == <<pc, callVars, reqMu, chanVars, notifyCh, reader, closed, envVars, histVars>>

NoOperation == [name |-> "none", dev |-> Receiver]

Features == {"type", "host"}

\* Feature indexes: the root's (0, also "not supported"), those of the two
\* features, and any other byte.
Indexes == Features \cup {"root", "other"}

\* A request: bytes 1, 2 and 3 (device, feature index, function), and the rest.
Request(dev, feat, fn, arg) == [dev |-> dev, feat |-> feat, fn |-> fn, arg |-> arg]

IsPing(r) == r.feat = "root" /\ r.fn = 1
IsGetFeature(r) == r.feat = "root" /\ r.fn = 0

\* What is sent: getFeature asks for a feature.
Requests == { r \in [dev : Devices \cup {Receiver}, feat : Indexes, fn : 0..2,
                     arg : Features \cup {"none"}] : IsGetFeature(r) => r.arg \in Features }
NoRequest == Request(Receiver, "root", 0, "none")

\* A reply echoes the head of its request, shifted in an error frame; a
\* notification tells that a link was established or lost.
Reply(r, as, frame) == [kind |-> "reply", to |-> r, as |-> as, frame |-> frame]
Note(d) == [kind |-> "note", dev |-> d]
Replies == [kind : {"reply"}, to : Requests, as : {"ok", "busy", "fatal"},
            frame : {"short", "long"}]
Notes == [kind : {"note"}, dev : Devices]
Reports == Replies \cup Notes
NoReply == [kind |-> "none"]
Reading == [at |-> "read", rep |-> NoReply, mine |-> FALSE]

Outcomes == {"none", "ok", "busy", "fatal", "timeout", "closed"}

TypeOK ==
  /\ pc \in [Callers -> {"idle", "lock", "drain", "write", "wait", "release", "resume"}]
  /\ op \in [Callers -> [name : Operations \cup {"none"}, dev : Devices \cup {Receiver}]]
  /\ idx \in [Callers -> Indexes]
  /\ left \in [Callers -> 0..Attempts]
  /\ req \in [Callers -> Requests \cup {NoRequest}]
  /\ out \in [Callers -> Outcomes]
  /\ reqMu \in Callers \cup {NoCaller}
  /\ curMatch \in Requests \cup {NoRequest}
  /\ respCh \in Seq(Replies) /\ Len(respCh) <= RespCap
  /\ notifyCh \in 0..NoteCap
  /\ reader \in [at : {"read", "route", "done"}, rep : Reports \cup {NoReply},
                 mine : BOOLEAN]
  /\ reader.mine => reader.rep \in Replies
  /\ closed \in BOOLEAN
  /\ reads \in Seq(Reports) /\ Len(reads) <= ReadsCap
  /\ wire \in Seq(Requests) /\ Len(wire) <= WireBound
  /\ link \subseteq Devices
  /\ taken \in [Callers -> Replies \cup {NoReply}]
  /\ excused \in [Callers -> BOOLEAN]

-----------------------------------------------------------------------------
(* Requests, replies and what the code makes of them.                      *)

Ping(d) == Request(d, "root", 1, "none")
GetFeature(d, f) == Request(d, "root", 0, f)

\* Operations that look up a feature and call it, and those that withRetry runs.
FeatureOf(name) == IF name = "deviceType" THEN "type" ELSE "host"
FunctionOf(name) == CASE name = "deviceType" -> 2
                      [] name = "hostInfo"   -> 0
                      [] name = "setHost"    -> 1
AttemptsOf(name) == IF name \in {"hostInfo", "setHost"} THEN Attempts ELSE 1

\* The first request of an operation.
Opening(o) == CASE o.name = "ping"      -> Ping(o.dev)
                [] o.name = "enumerate" -> Request(Receiver, "other", 2, "none")
                [] OTHER                -> GetFeature(o.dev, FeatureOf(o.name))

\* What matcherFor remembers of a request.
Key(r) == <<r.dev, r.feat, r.fn>>

\* Bug: the matcher looks at the device index only.
MatchesDevice(rep, m) ==
  m # NoRequest /\ m.dev = IF rep.kind = "note" THEN rep.dev ELSE rep.to.dev

\* The predicate of matcherFor, for a normal echo and for an error frame.
Matches(rep, m) == m # NoRequest /\ rep.kind = "reply" /\ Key(rep.to) = Key(m)

\* Bug: error frames are not told from answers.
NeverError(rep) == FALSE

\* isErrorReply: only a short report counts as an error frame.
IsErrorReply(rep) == rep.as # "ok" /\ rep.frame = "short"

\* rep[4], which FeatureIndex returns: the index of the feature that was asked
\* for, 0 if the device lacks it; in an error frame the function byte, in the
\* reply to another request anything.
IndexIn(rep) ==
  IF rep.as # "ok" THEN {"other"}
  ELSE IF ~IsGetFeature(rep.to) THEN Indexes
  ELSE {IF rep.to.arg = "host" /\ rep.to.dev \notin HostDevices THEN "root" ELSE rep.to.arg}

\* transient.
Transient(o) == o \in {"timeout", "busy"}

\* Replies that are about before a request is even written, and that request
\* would take for its answer.
OldAnswers ==
  \E rep \in Range(reads) \cup Range(respCh) \cup {reader.rep} :
    rep.kind = "reply" /\ ~IsErrorReply(rep)

-----------------------------------------------------------------------------
(* request, step by step.                                                  *)

\* The caller is between reqMu.Lock and reqMu.Unlock.
Outstanding(c) == pc[c] \in {"drain", "write", "wait", "release"}

Goto(c, l) == pc' = [pc EXCEPT ![c] = l]
Ends(c, o) == Goto(c, "release") /\ out' = [out EXCEPT ![c] = o]

\* Bug: the request does not wait for reqMu.
AcquireAtOnce(c) ==
  /\ pc[c] = "lock" /\ ~closed
  /\ Goto(c, "drain")
  /\ reqMu' = c /\ curMatch' = req[c]
  /\ excused' = [excused EXCEPT ![c] = op[c].dev \in link \/ OldAnswers]
  /\ UNCHANGED <<callVars, respCh, notifyCh, reader, closed, envVars, taken>>

\* reqMu.Lock, the test of closed, and setMatch(matcherFor(req)).
Acquire(c) ==
  /\ pc[c] = "lock" /\ reqMu = NoCaller /\ ~closed
  /\ Goto(c, "drain")
  /\ reqMu' = c /\ curMatch' = req[c]
  /\ excused' = [excused EXCEPT ![c] = op[c].dev \in link \/ OldAnswers]
  /\ UNCHANGED <<callVars, respCh, notifyCh, reader, closed, envVars, taken>>

AcquireClosed(c) ==
  /\ pc[c] = "lock" /\ reqMu = NoCaller /\ closed
  /\ Goto(c, "resume") /\ out' = [out EXCEPT ![c] = "closed"]
  /\ UNCHANGED <<op, idx, left, req, reqMu, chanVars, notifyCh, reader, closed,
                 envVars, histVars>>

\* "Drain any stale response": one at most.
Drain(c) ==
  /\ pc[c] = "drain"
  /\ Goto(c, "write")
  /\ respCh' = IF respCh = <<>> THEN <<>> ELSE Tail(respCh)
  /\ UNCHANGED <<callVars, reqMu, curMatch, notifyCh, reader, closed, envVars, histVars>>

\* rcv.Write: the request may be lost on its way to the device.
Write(c) ==
  /\ pc[c] = "write"
  /\ Goto(c, "wait")
  /\ wire' \in {wire} \cup {w \in {Append(wire, req[c])} : Len(w) <= WireBound}
  /\ UNCHANGED <<callVars, reqMu, chanVars, notifyCh, reader, closed, reads, link,
                 histVars>>

\* rcv.Write fails: the handle is closed or the receiver is gone.
WriteFails(c) ==
  /\ pc[c] = "write"
  /\ Ends(c, "fatal")
  /\ UNCHANGED <<op, idx, left, req, reqMu, chanVars, notifyCh, reader, closed,
                 envVars, histVars>>

\* The three cases of the select: a reply, the timeout, the connection's end.
TakeReply(c) ==
  /\ pc[c] = "wait" /\ respCh # <<>>
  /\ respCh' = Tail(respCh)
  /\ taken' = [taken EXCEPT ![c] = Head(respCh)]
  /\ Ends(c, IF IsErrorReply(Head(respCh)) THEN Head(respCh).as ELSE "ok")
  /\ UNCHANGED <<op, idx, left, req, reqMu, curMatch, notifyCh, reader, closed,
                 envVars, excused>>

TimeOut(c) ==
  /\ pc[c] = "wait"
  /\ Ends(c, "timeout")
  /\ UNCHANGED <<op, idx, left, req, reqMu, chanVars, notifyCh, reader, closed,
                 envVars, histVars>>

SeeClosed(c) ==
  /\ pc[c] = "wait" /\ closed
  /\ Ends(c, "closed")
  /\ UNCHANGED <<op, idx, left, req, reqMu, chanVars, notifyCh, reader, closed,
                 envVars, histVars>>

\* The deferred setMatch(nil) and reqMu.Unlock.
Release(c) ==
  /\ pc[c] = "release"
  /\ Goto(c, "resume")
  /\ curMatch' = NoRequest /\ reqMu' = NoCaller
  /\ excused' = [excused EXCEPT ![c] = FALSE]
  /\ UNCHANGED <<callVars, respCh, notifyCh, reader, closed, envVars, taken>>

-----------------------------------------------------------------------------
(* The exported operations, built on request.                              *)

\* The caller sends req.
Sends(c) ==
  /\ Goto(c, "lock")
  /\ out' = [out EXCEPT ![c] = "none"]
  /\ taken' = [taken EXCEPT ![c] = NoReply]

\* A caller starts an operation.
Begin(c) ==
  /\ pc[c] = "idle"
  /\ \E name \in Operations, d \in Devices :
       LET o == [name |-> name, dev |-> IF name = "enumerate" THEN Receiver ELSE d]
       IN /\ op' = [op EXCEPT ![c] = o]
          /\ left' = [left EXCEPT ![c] = AttemptsOf(name)]
          /\ req' = [req EXCEPT ![c] = Opening(o)]
  /\ Sends(c)
  /\ UNCHANGED <<idx, reqMu, chanVars, notifyCh, reader, closed, envVars, excused>>

\* The operation returns.
Return(c, o) ==
  /\ Goto(c, "idle")
  /\ out' = [out EXCEPT ![c] = o]
  /\ taken' = [taken EXCEPT ![c] = NoReply]
  /\ op' = [op EXCEPT ![c] = NoOperation]
  /\ idx' = [idx EXCEPT ![c] = "root"]
  /\ left' = [left EXCEPT ![c] = 0]
  /\ req' = [req EXCEPT ![c] = NoRequest]

\* FeatureIndex came back with an index: the feature is called through it.
CallFeature(c) ==
  /\ pc[c] = "resume" /\ IsGetFeature(req[c]) /\ out[c] = "ok"
  /\ \E i \in IndexIn(taken[c]) :
       IF i = "root"
       THEN Return(c, "fatal")
       ELSE /\ idx' = [idx EXCEPT ![c] = i]
            /\ req' = [req EXCEPT ![c] =
                         Request(op[c].dev, i, FunctionOf(op[c].name), "none")]
            /\ Sends(c)
            /\ UNCHANGED <<op, left>>
  /\ UNCHANGED <<reqMu, chanVars, notifyCh, reader, closed, envVars, excused>>

\* Bug: withRetry does not count its attempts.
RetryForever(c) == Transient(out[c]) /\ AttemptsOf(op[c].name) > 1

\* withRetry goes on: the attempt failed, and not for good.
RetryIsDue(c) == Transient(out[c]) /\ left[c] > 1

\* A timeout of SetHost's last request means that the device has left.
LeftBeforeAck(c) == op[c].name = "setHost" /\ idx[c] # "root" /\ out[c] = "timeout"

RetryOperation(c) ==
  /\ pc[c] = "resume" /\ RetryIsDue(c) /\ ~LeftBeforeAck(c)
  /\ Sends(c)
  /\ left' = [left EXCEPT ![c] = IF left[c] = 0 THEN 0 ELSE left[c] - 1]
  /\ idx' = [idx EXCEPT ![c] = "root"]
  /\ req' = [req EXCEPT ![c] = Opening(op[c])]
  /\ UNCHANGED <<op, reqMu, chanVars, notifyCh, reader, closed, envVars, excused>>

Finish(c) ==
  /\ pc[c] = "resume"
  /\ ~(IsGetFeature(req[c]) /\ out[c] = "ok")
  /\ ~RetryIsDue(c) \/ LeftBeforeAck(c)
  /\ Return(c, IF LeftBeforeAck(c) THEN "ok" ELSE out[c])
  /\ UNCHANGED <<reqMu, chanVars, notifyCh, reader, closed, envVars, excused>>

Caller(c) ==
  \/ Acquire(c) \/ AcquireClosed(c) \/ Drain(c) \/ Write(c) \/ WriteFails(c)
  \/ TakeReply(c) \/ TimeOut(c) \/ SeeClosed(c) \/ Release(c)
  \/ CallFeature(c) \/ RetryOperation(c) \/ Finish(c)

-----------------------------------------------------------------------------
(* readLoop and Close.                                                     *)

\* A report is read and the matcher of this instant decides whose it is; matchMu
\* is released before the report is routed.
ReaderTakes ==
  /\ reader.at = "read" /\ reads # <<>>
  /\ reads' = Tail(reads)
  /\ reader' = [at |-> "route", rep |-> Head(reads), mine |-> Matches(Head(reads), curMatch)]
  /\ UNCHANGED <<pc, callVars, reqMu, chanVars, notifyCh, closed, wire, link, histVars>>

\* The top of the loop, or the exit when the connection is closed.
ReaderLoops == reader' = IF closed THEN [Reading EXCEPT !.at = "done"] ELSE Reading

\* A full respCh drops the reply.
ReaderAnswers ==
  /\ reader.at = "route" /\ reader.mine
  /\ respCh' = IF Len(respCh) < RespCap THEN Append(respCh, reader.rep) ELSE respCh
  /\ ReaderLoops
  /\ UNCHANGED <<pc, callVars, reqMu, curMatch, notifyCh, closed, envVars, histVars>>

\* Bug: the send to notifyCh waits until somebody listens.
NotifiesWhenHeard ==
  /\ reader.at = "route" /\ ~reader.mine
  /\ notifyCh < NoteCap
  /\ notifyCh' = notifyCh + 1
  /\ ReaderLoops
  /\ UNCHANGED <<pc, callVars, reqMu, chanVars, closed, envVars, histVars>>

\* "Drop if nobody is listening fast enough."
ReaderNotifies ==
  /\ reader.at = "route" /\ ~reader.mine
  /\ notifyCh' = IF notifyCh < NoteCap THEN notifyCh + 1 ELSE notifyCh
  /\ ReaderLoops
  /\ UNCHANGED <<pc, callVars, reqMu, chanVars, closed, envVars, histVars>>

\* rcv.Close unblocks the pending Read.
ReaderExits ==
  /\ reader.at = "read" /\ closed
  /\ ReaderLoops
  /\ UNCHANGED <<pc, callVars, reqMu, chanVars, notifyCh, closed, envVars, histVars>>

ReadLoop == ReaderTakes \/ ReaderAnswers \/ ReaderNotifies \/ ReaderExits

Close ==
  /\ MayClose /\ ~closed
  /\ closed' = TRUE
  /\ UNCHANGED <<pc, callVars, reqMu, chanVars, notifyCh, reader, envVars, histVars>>

\* The listener of Notifications() reads one report.
Listen ==
  /\ notifyCh > 0
  /\ notifyCh' = notifyCh - 1
  /\ UNCHANGED <<pc, callVars, reqMu, chanVars, reader, closed, envVars, histVars>>

-----------------------------------------------------------------------------
(* The environment.                                                        *)

EnvFrame == UNCHANGED <<pc, callVars, reqMu, chanVars, notifyCh, reader, closed, taken>>

\* Function 1 of CHANGE HOST makes the device leave.
ChangesHost(r) == r.feat = "host" /\ r.fn = 1 /\ r.dev \in HostDevices

\* Devices that process requests: those on this host, and the receiver itself.
Here(r) == r.dev \in link \cup {Receiver}
Reads(rep) == Len(reads) < ReadsCap /\ reads' = Append(reads, rep)

\* A request is answered, and obeyed.
DeviceAnswers(i) ==
  /\ Here(wire[i]) /\ Reads(Reply(wire[i], "ok", "long"))
  /\ link' = IF ChangesHost(wire[i]) THEN link \ {wire[i].dev} ELSE link

\* A device is busy with another program, or rejects the request.
DeviceRefuses(i) ==
  /\ wire[i].dev \in link /\ UNCHANGED link
  /\ \E as \in {"busy", "fatal"}, frame \in ErrorFrames :
        Reads(Reply(wire[i], as, frame))

\* The receiver answers for a device that is away (a HID++ 1.0 error).
ReceiverRefuses(i) ==
  /\ ~Here(wire[i]) /\ UNCHANGED link
  /\ Reads(Reply(wire[i], "fatal", "short"))

\* A device changes host without an acknowledgement.
DeviceLeaves(i) ==
  /\ Here(wire[i]) /\ ChangesHost(wire[i])
  /\ link' = link \ {wire[i].dev} /\ UNCHANGED reads

\* A request or its reply is lost.
NothingComes(i) == UNCHANGED <<reads, link>>

Answer ==
  \E i \in 1..Len(wire) :
    /\ wire' = RemoveAt(wire, i)
    /\ \/ DeviceAnswers(i) \/ DeviceRefuses(i) \/ ReceiverRefuses(i)
       \/ DeviceLeaves(i) \/ NothingComes(i)
    /\ EnvFrame /\ UNCHANGED excused

\* A device comes or goes; the receiver may report it.
DeviceMoves ==
  \E d \in Devices :
    /\ link' = IF d \in link THEN link \ {d} ELSE link \cup {d}
    /\ \/ Reads(Note(d)) \/ UNCHANGED reads
    /\ excused' = [c \in Callers |-> excused[c] \/ (Outstanding(c) /\ op[c].dev = d)]
    /\ EnvFrame /\ UNCHANGED wire

-----------------------------------------------------------------------------
Init ==
  /\ pc = [c \in Callers |-> "idle"]
  /\ op = [c \in Callers |-> NoOperation]
  /\ idx = [c \in Callers |-> "root"]
  /\ left = [c \in Callers |-> 0]
  /\ req = [c \in Callers |-> NoRequest]
  /\ out = [c \in Callers |-> "none"]
  /\ reqMu = NoCaller /\ curMatch = NoRequest
  /\ respCh = <<>> /\ notifyCh = 0
  /\ reader = Reading /\ closed = FALSE
  /\ reads = <<>> /\ wire = <<>> /\ link \in SUBSET Devices
  /\ taken = [c \in Callers |-> NoReply]
  /\ excused = [c \in Callers |-> FALSE]

Next ==
  \/ \E c \in Callers : Begin(c) \/ Caller(c)
  \/ ReadLoop \/ Close \/ Listen
  \/ Answer \/ DeviceMoves

Spec == Init /\ [][Next]_vars

(***************************************************************************)
(* Fairness.  Goroutines are scheduled, every wait of request and of Read  *)
(* has a timeout, and sync.Mutex starves nobody (SF of Acquire).  Nothing  *)
(* is assumed of the devices, nor of the listener of Notifications().      *)
(***************************************************************************)
Fairness ==
  /\ \A c \in Callers :
       /\ WF_vars(Caller(c))
       /\ SF_vars(Acquire(c)) /\ SF_vars(AcquireClosed(c))
  /\ WF_vars(ReadLoop)

FairSpec == Spec /\ Fairness

-----------------------------------------------------------------------------
(* Properties.                                                             *)

\* "Requests are serialized, so at most one is outstanding at a time": what is
\* sent and waited for is always the request whose matcher is installed.
RequestsAreSerialized ==
  \A c \in Callers : Outstanding(c) => reqMu = c /\ curMatch = req[c]

\* What app.Controller relies on: a ping is answered only if the device was on
\* this host since the ping began, or an older answer was still about.
PingTellsPresence ==
  \A c \in Callers :
    pc[c] = "release" /\ out[c] = "ok" /\ IsPing(req[c]) => excused[c]

\* Every operation returns, whatever the devices do or do not answer.
OperationsReturn == \A c \in Callers : pc[c] = "lock" ~> pc[c] = "idle"

\* Close returns: it waits for readLoop, which nothing may block.
CloseReturns == closed ~> reader.at = "done"
=============================================================================
