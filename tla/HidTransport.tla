---------------------------- MODULE HidTransport ----------------------------
(***************************************************************************)
(* Package hidtransport: which of the computer's HID collections make up   *)
(* the receiver that is opened, and how the reports of its handles are     *)
(* merged into one channel until Close.                                    *)
(*                                                                         *)
(* Find, Open and OpenFirst run before anybody else can see the Receiver:  *)
(* they are functions of what is enumerated and of the paths that fail to  *)
(* open.  A step of a readerLoop or of Close is one channel operation, one *)
(* call of a handle, or the critical section of Receiver.mu.               *)
(***************************************************************************)
EXTENDS Naturals, Sequences, FiniteSets, SequencesExt

CONSTANTS Buses,         \* what hid.Enumerate may list
          KnownProducts, \* knownReceiverPIDs
          ReadsCap,      \* capacity of Receiver.reads (64 in the code)
          SentBound      \* bound: reports that come to any two handles in one session

\* Entries of the list: a collection of the device called unit.
EntriesOf(b) == Range(b)
Entries == UNION {EntriesOf(b) : b \in Buses}
Paths == {e.path : e \in Entries}
Units == {e.unit : e \in Entries}
NoPath == "none"

ASSUME HidTransportAssumption ==
  /\ Buses \subseteq Seq(Entries)
  /\ \A e \in Entries : DOMAIN e = {"unit", "path", "product", "iface", "usage", "page"}
  /\ NoPath \notin Paths
  /\ ReadsCap \in Nat \ {0} /\ SentBound \in Nat

None == [p \in Paths |-> 0]
NoInfo == [product |-> "none", collections |-> <<>>]
NoChoice == [plugged |-> {}, failed |-> {}]

VARIABLES
  bus,     \* environment: what is enumerated when everything is plugged in
  plugged, \* environment: the devices that are plugged in
  dead,    \* environment: handles whose device has gone since they were opened
  sent,    \* environment: reports that have come to each handle
  phase,   \* the Receiver: "none", "open", "closing" or "ended"
  info,    \* Receiver.Info
  devs,    \* Receiver.devs
  writeD,  \* Receiver.writeD
  open,    \* handles that are not closed
  left,    \* handles Close has not yet closed
  reader,  \* where each readerLoop is
  got,     \* reports each readerLoop has read
  reads,   \* Receiver.reads
  heard,   \* history: the last report of each handle that Read returned
  choice   \* history: what was plugged in, and what failed, at the last Open

envVars == <<bus, plugged, dead, sent>>
handleVars == <<info, devs, writeD, choice>>
vars == <<envVars, phase, handleVars, open, left, reader, got, reads, heard>>

Collections == [path : Paths, usage : {e.usage : e \in Entries}]
Infos == [product : {e.product : e \in Entries}, collections : Seq(Collections)]

Closed == phase \in {"closing", "ended"}   \* r.closed is closed

TypeOK ==
  /\ bus \in Buses /\ plugged \subseteq Units /\ dead \subseteq Paths
  /\ sent \in [Paths -> 0..SentBound]
  /\ phase \in {"none", "open", "closing", "ended"}
  /\ info \in Infos \cup {NoInfo}
  /\ devs \in Seq(Paths) /\ IsInjective(devs)
  /\ writeD \in Paths \cup {NoPath}
  /\ open \subseteq Range(devs) /\ left \in Seq(Paths) /\ Range(left) \subseteq open
  /\ reader \in [Paths -> {"none", "top", "read", "post", "done"}]
  /\ got \in [Paths -> 0..SentBound] /\ heard \in [Paths -> 0..SentBound]
  /\ reads \in Seq([path : Paths, n : 1..SentBound]) /\ Len(reads) <= ReadsCap
  /\ choice \in [plugged : SUBSET Units, failed : SUBSET Paths]

-----------------------------------------------------------------------------
(* Find.                                                                   *)

\* Bug: the product is left out of the key.
KeyOfInterface(e) == e.iface

\* The key that groups "collections belonging to the same physical interface".
KeyOf(e) == <<e.product, e.iface>>

\* The elements of s that belong to P, in their order.
Keep(s, P) ==
  LET kept[i \in 0..Len(s)] ==
        IF i = 0 THEN <<>>
        ELSE IF s[i] \in P THEN Append(kept[i-1], s[i]) ELSE kept[i-1]
  IN kept[Len(s)]

AddNew(s, x) == IF x \in Range(s) THEN s ELSE Append(s, x)

\* The elements of s, in order of appearance.
Distinct(s) ==
  LET seen[i \in 0..Len(s)] == IF i = 0 THEN <<>> ELSE AddNew(seen[i-1], s[i])
  IN seen[Len(s)]

HidPP == {e \in Entries : e.page = "FF00"}

\* One receiver of a list: the first entry's product, and every collection.
Group(entries) ==
  [product |-> entries[1].product,
   collections |-> Distinct([i \in DOMAIN entries |->
                               [path |-> entries[i].path, usage |-> entries[i].usage]])]

\* The receivers of a list, in order of appearance, each with its collections.
Groups(list) ==
  LET hidpp == Keep(list, HidPP)
      keys == Distinct([i \in DOMAIN hidpp |-> KeyOf(hidpp[i])])
  IN [i \in DOMAIN keys |-> Group(Keep(hidpp, {e \in Entries : KeyOf(e) = keys[i]}))]

\* Find: known receivers first.
Find(list) ==
  LET all == Groups(list)
      known == {g \in Range(all) : g.product \in KnownProducts}
  IN Keep(all, known) \o Keep(all, Range(all) \ known)

-----------------------------------------------------------------------------
(* Open and OpenFirst.                                                     *)

IsShort(c) == c.usage = "short"

\* Bug: the first handle is kept for writing.
OpenKeepsFirst(o, c, failed) ==
  IF c.path \in Range(o.devs) \cup failed THEN o
  ELSE [devs |-> Append(o.devs, c.path),
        writeD |-> IF o.writeD = NoPath THEN c.path ELSE o.writeD]

\* Bug: a path that two collections share is opened twice.
OpensTwice(o, c, failed) ==
  IF c.path \in failed THEN o
  ELSE [devs |-> Append(o.devs, c.path),
        writeD |-> IF o.writeD = NoPath \/ IsShort(c) THEN c.path ELSE o.writeD]

\* One turn of Open's loop over the collections, the paths in failed excepted.
OpenCollection(o, c, failed) ==
  IF c.path \in Range(o.devs)
  THEN [o EXCEPT !.writeD = IF IsShort(c) THEN c.path ELSE @]
  ELSE IF c.path \in failed THEN o
  ELSE [devs |-> Append(o.devs, c.path),
        writeD |-> IF o.writeD = NoPath \/ IsShort(c) THEN c.path ELSE o.writeD]

\* Open's loop: all handles, and the one to write to.
Opened(collections, failed) ==
  LET o[i \in 0..Len(collections)] ==
        IF i = 0 THEN [devs |-> <<>>, writeD |-> NoPath]
        ELSE OpenCollection(o[i-1], collections[i], failed)
  IN o[Len(collections)]

\* OpenFirst: the first candidate is opened, and a reader started per handle.
\* With no candidate, or none of its paths opened, there is an error and no Receiver.
OpenFirst ==
  /\ phase \in {"none", "ended"}
  /\ LET found == Find(Keep(bus, {e \in Entries : e.unit \in plugged}))
     IN /\ found # <<>>
        /\ info' = found[1]
        /\ \E failed \in SUBSET {c.path : c \in Range(found[1].collections)} :
             LET o == Opened(found[1].collections, failed)
             IN /\ o.devs # <<>>
                /\ devs' = o.devs /\ writeD' = o.writeD /\ open' = Range(o.devs)
                /\ reader' = [p \in Paths |-> IF p \in Range(o.devs) THEN "top" ELSE "none"]
                /\ choice' = [plugged |-> plugged, failed |-> failed]
  /\ phase' = "open"
  /\ UNCHANGED <<envVars, left, got, reads, heard>>

-----------------------------------------------------------------------------
(* readerLoop, one per handle.                                             *)

ReaderFrame == UNCHANGED <<envVars, phase, handleVars, open, left, heard>>
ReaderGoes(p, l) == reader' = [reader EXCEPT ![p] = l]

\* The select at the top of the loop.
ReaderChecks(p) ==
  /\ reader[p] = "top"
  /\ ReaderGoes(p, IF Closed THEN "done" ELSE "read")
  /\ ReaderFrame /\ UNCHANGED <<got, reads>>

\* ReadWithTimeout returns a report, the timeout, or an error for good.
ReaderReads(p) ==
  /\ reader[p] = "read" /\ p \in open /\ got[p] < sent[p]
  /\ got' = [got EXCEPT ![p] = @ + 1]
  /\ ReaderGoes(p, "post")
  /\ ReaderFrame /\ UNCHANGED reads

\* Bug: a timeout ends the loop as any other error does.
GivesUp(p) ==
  /\ reader[p] = "read" /\ p \in open /\ got[p] = sent[p]
  /\ ReaderGoes(p, "done")
  /\ ReaderFrame /\ UNCHANGED <<got, reads>>

ReaderTimesOut(p) ==
  /\ reader[p] = "read" /\ p \in open /\ got[p] = sent[p]
  /\ ReaderGoes(p, "top")
  /\ ReaderFrame /\ UNCHANGED <<got, reads>>

ReaderFails(p) ==
  /\ reader[p] = "read" /\ (p \notin open \/ p \in dead)
  /\ ReaderGoes(p, "done")
  /\ ReaderFrame /\ UNCHANGED <<got, reads>>

\* Bug: a report that finds the channel full is dropped.
PostsOrDrops(p) ==
  /\ reader[p] = "post"
  /\ reads' = IF Len(reads) < ReadsCap THEN Append(reads, [path |-> p, n |-> got[p]]) ELSE reads
  /\ ReaderGoes(p, "top")
  /\ ReaderFrame /\ UNCHANGED got

\* The select that ends the turn: a full channel makes the reader wait.
ReaderPosts(p) ==
  /\ reader[p] = "post" /\ Len(reads) < ReadsCap
  /\ reads' = Append(reads, [path |-> p, n |-> got[p]])
  /\ ReaderGoes(p, "top")
  /\ ReaderFrame /\ UNCHANGED got

\* Bug: the send does not look at r.closed.
NeverDrops(p) == FALSE

ReaderDrops(p) ==
  /\ reader[p] = "post" /\ Closed
  /\ ReaderGoes(p, "done")
  /\ ReaderFrame /\ UNCHANGED <<got, reads>>

ReaderLoop(p) ==
  \/ ReaderChecks(p) \/ ReaderReads(p) \/ ReaderTimesOut(p)
  \/ ReaderFails(p) \/ ReaderPosts(p) \/ ReaderDrops(p)

-----------------------------------------------------------------------------
(* Read and Close.  Write has no effect on this state: it uses writeD.     *)

\* Read returns a report; its timeout and its look at r.closed change nothing.
Read ==
  /\ reads # <<>>
  /\ reads' = Tail(reads)
  /\ heard' = [heard EXCEPT ![Head(reads).path] = Head(reads).n]
  /\ UNCHANGED <<envVars, phase, handleVars, open, left, reader, got>>

\* The critical section of Close.  A second Close finds r.closed and returns.
Close ==
  /\ phase = "open"
  /\ phase' = "closing" /\ left' = devs
  /\ UNCHANGED <<envVars, handleVars, open, reader, got, reads, heard>>

\* d.Close, handle by handle.
CloseHandle ==
  /\ left # <<>>
  /\ open' = open \ {Head(left)} /\ left' = Tail(left)
  /\ UNCHANGED <<envVars, phase, handleVars, reader, got, reads, heard>>

\* Nobody uses the Receiver after Close: the next one starts from nothing.
Ends ==
  /\ phase' = "ended" /\ info' = NoInfo /\ devs' = <<>> /\ writeD' = NoPath /\ reads' = <<>>
  /\ sent' = None /\ got' = None /\ heard' = None /\ dead' = {} /\ choice' = NoChoice
  /\ UNCHANGED <<bus, plugged, open, left, reader>>

\* Bug: Close does not wait for the readers.
EndsAtOnce == phase = "closing" /\ left = <<>> /\ Ends

\* wg.Wait, and Close returns.
CloseEnds ==
  /\ phase = "closing" /\ left = <<>>
  /\ \A p \in Range(devs) : reader[p] = "done"
  /\ Ends

-----------------------------------------------------------------------------
(* The environment.                                                        *)

EnvFrame == UNCHANGED <<bus, phase, handleVars, open, left, reader, got, reads, heard>>

\* A report arrives on a collection that is open.
Arrives(p) ==
  /\ p \in open \ dead
  /\ sent[p] < SentBound
  /\ \A q \in Paths \ {p} : sent[p] + sent[q] < SentBound
  /\ sent' = [sent EXCEPT ![p] = @ + 1]
  /\ EnvFrame /\ UNCHANGED <<plugged, dead>>

\* A device is pulled out: its handles fail from now on.
Unplug(u) ==
  /\ u \in plugged
  /\ plugged' = plugged \ {u}
  /\ dead' = dead \cup (open \cap {e.path : e \in {x \in Range(bus) : x.unit = u}})
  /\ EnvFrame /\ UNCHANGED sent

Plug(u) ==
  /\ u \in {e.unit : e \in Range(bus)} \ plugged
  /\ plugged' = plugged \cup {u}
  /\ EnvFrame /\ UNCHANGED <<dead, sent>>

-----------------------------------------------------------------------------
Init ==
  /\ bus \in Buses /\ plugged = {e.unit : e \in Range(bus)} /\ dead = {}
  /\ sent = None /\ got = None /\ heard = None
  /\ phase = "none" /\ info = NoInfo /\ devs = <<>> /\ writeD = NoPath /\ open = {} /\ left = <<>>
  /\ reader = [p \in Paths |-> "none"] /\ reads = <<>>
  /\ choice = NoChoice

Next ==
  \/ OpenFirst \/ Read \/ Close \/ CloseHandle \/ CloseEnds
  \/ \E p \in Paths : ReaderLoop(p) \/ Arrives(p)
  \/ \E u \in Units : Unplug(u) \/ Plug(u)

Spec == Init /\ [][Next]_vars

(***************************************************************************)
(* Fairness: goroutines are scheduled, ReadWithTimeout returns after 300   *)
(* ms, and hidpp's readLoop calls Read for as long as the receiver is not  *)
(* closed, never after.                                                    *)
(***************************************************************************)
Fairness ==
  /\ \A p \in Paths : WF_vars(ReaderLoop(p))
  /\ WF_vars(Read /\ ~Closed)
  /\ WF_vars(CloseHandle) /\ WF_vars(CloseEnds)

FairSpec == Spec /\ Fairness

-----------------------------------------------------------------------------
(* Properties.                                                             *)

EntriesWith(u) == {e \in Range(bus) : e.unit = u /\ e.page = "FF00"}

IsKnown(u) == \E e \in EntriesWith(u) : e.product \in KnownProducts

\* Find gives the collections of these devices one key each, and no two the same:
\* a receiver has one HID++ interface, and no other of its product is plugged in.
ToldApart(us) ==
  \A u, v \in us : \A d \in EntriesWith(u), e \in EntriesWith(v) :
    d.product = e.product /\ d.iface = e.iface <=> u = v

\* "We must open every collection": what is open is all that opens of exactly one
\* receiver, and of a known one if any is plugged in.
OpensOneWholeReceiver ==
  phase = "open" /\ ToldApart(choice.plugged) =>
    \E u \in choice.plugged :
      /\ Range(devs) = {e.path : e \in EntriesWith(u)} \ choice.failed
      /\ (\E v \in choice.plugged : IsKnown(v)) => IsKnown(u)

\* Requests are written to the short collection of the receiver, if that could be
\* opened, and in any case to a handle that is read.
WritesOnShort ==
  phase = "open" =>
    /\ writeD \in Range(devs)
    /\ LET short == {c.path : c \in {x \in Range(info.collections) : IsShort(x)}}
       IN short \cap Range(devs) # {} => writeD \in short

\* Reports a readerLoop has read and not yet sent to the channel.
Held(p) == IF reader[p] = "post" THEN 1 ELSE 0

\* The merged channel loses, repeats and reorders no report of any one handle:
\* what Read returned, what is in the channel and what the reader holds follow
\* each other without a gap.
ReportsInOrder ==
  phase = "open" =>
    /\ \A i, j \in DOMAIN reads :
         i < j /\ reads[i].path = reads[j].path => reads[i].n < reads[j].n
    /\ \A p \in Paths :
         { r.n : r \in {x \in Range(reads) : x.path = p} } = (heard[p] + 1)..(got[p] - Held(p))

\* Once Close has returned, no goroutine of the receiver runs and no handle is
\* open: the next Open cannot meet the last session.
QuietAfterClose ==
  phase = "ended" => open = {} /\ \A p \in Paths : reader[p] \in {"none", "done"}

\* Read catches up with what comes to any handle, however little of it the channel
\* holds, unless the receiver is closed or pulled out first: timeouts deafen no
\* handle, and no handle starves another one.
ReportsAreHeard ==
  \A p \in Paths : heard[p] < sent[p] ~> heard[p] = sent[p] \/ Closed \/ p \in dead

\* Close returns, although nobody calls Read any more and the channel is full.
CloseReturns == phase = "closing" ~> phase = "ended"
=============================================================================
