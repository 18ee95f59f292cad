------------------------------ MODULE DdcProofs ------------------------------
(***************************************************************************)
(* What the conversation of Ddc promises of the text it reads, whatever    *)
(* the bus loses, delays or repeats, for any display and any buffer, and   *)
(* what that means for the list of inputs that is found in the text.       *)
(***************************************************************************)
EXTENDS Ddc, SequenceTheorems, LoopLemmas

-----------------------------------------------------------------------------
(* The first place of a kind, and beginnings of sequences.                 *)

LEMMA MinLemma ==
  ASSUME NEW S \in SUBSET Nat, S # {}
  PROVE  Min(S) \in S /\ \A k \in S : Min(S) <= k
<1>1. \E m \in S : \A k \in S : m <= k
  BY LeastNumber
<1>2. QED
  BY <1>1 DEF Min

\* The place of the first element of s that is in P, or 0.
IsFirst(n, s, P) ==
  \/ n = 0 /\ \A j \in 1..Len(s) : s[j] \notin P
  \/ n \in 1..Len(s) /\ s[n] \in P /\ \A j \in 1..Len(s) : s[j] \in P => n <= j

\* The first place of a token, or 0.
Place(s, x) == SelectInSeq(s, LAMBDA y : y = x)

LEMMA FirstToken ==
  ASSUME NEW A, NEW s \in Seq(A), NEW x
  PROVE  IsFirst(Place(s, x), s, {x})
<1> DEFINE I == {i \in 1..Len(s) : s[i] = x}
<1>1. Place(s, x) = IF I # {} THEN Min(I) ELSE 0
  BY DEF Place, SelectInSeq
<1>2. I \in SUBSET Nat
  OBVIOUS
<1>3. CASE I = {}
  BY <1>1, <1>3 DEF IsFirst
<1>4. CASE I # {}
  <2>1. Min(I) \in I /\ \A k \in I : Min(I) <= k
    BY <1>2, <1>4, MinLemma
  <2>2. QED
    BY <1>1, <1>4, <2>1 DEF IsFirst
<1>5. QED
  BY <1>3, <1>4

MatchingDisplays == {d \in Displays : d.name \in Matching}

LEMMA FirstDisplay ==
  ASSUME NEW list \in DisplayLists
  PROVE  IsFirst(MatchingDisplay(list), list, MatchingDisplays)
<1>1. list \in Seq(Displays)
  BY DdcAssumption
<1> DEFINE I == {i \in 1..Len(list) : list[i].name \in Matching}
<1>2. MatchingDisplay(list) = IF I # {} THEN Min(I) ELSE 0
  BY DEF MatchingDisplay, SelectInSeq
<1>3. \A i \in 1..Len(list) : list[i] \in MatchingDisplays <=> i \in I
  BY <1>1, ElementOfSeq DEF MatchingDisplays
<1>4. I \in SUBSET Nat
  OBVIOUS
<1>5. CASE I = {}
  BY <1>2, <1>3, <1>5 DEF IsFirst
<1>6. CASE I # {}
  <2>1. Min(I) \in I /\ \A k \in I : Min(I) <= k
    BY <1>4, <1>6, MinLemma
  <2>2. QED
    BY <1>2, <1>3, <1>6, <2>1 DEF IsFirst
<1>7. QED
  BY <1>5, <1>6

\* s is the beginning of t.
Begins(s, t) == Len(s) <= Len(t) /\ \A i \in 1..Len(s) : s[i] = t[i]

LEMMA PrefixLemma ==
  ASSUME NEW A, NEW s \in Seq(A), NEW t \in Seq(A), Begins(s, t)
  PROVE  IsPrefix(s, t)
<1>1. Len(s) \in Nat /\ Len(t) \in Nat
  BY LenProperties
<1>2. SubSeq(s, 1, Len(s)) = s
  BY SubSeqFull
<1>3. \A i \in 1..Len(s) : t[i] \in A
  BY <1>1, ElementOfSeq DEF Begins
<1>4. /\ SubSeq(t, 1, Len(s)) \in Seq(A)
      /\ Len(SubSeq(t, 1, Len(s))) = Len(s)
      /\ \A i \in 1..Len(s) : SubSeq(t, 1, Len(s))[i] = t[i]
  <2>1. 1 \in Int /\ Len(s) \in Int /\ (IF 1 <= Len(s) THEN Len(s)-1+1 ELSE 0) = Len(s)
        /\ Len(s)-1+1 = Len(s) /\ \A i \in 1..Len(s) : 1+i-1 = i
    BY <1>1
  <2>2. /\ SubSeq(t, 1, Len(s)) \in Seq(A)
        /\ Len(SubSeq(t, 1, Len(s))) = IF 1 <= Len(s) THEN Len(s)-1+1 ELSE 0
        /\ \A i \in 1 .. Len(s)-1+1 : SubSeq(t, 1, Len(s))[i] = t[1+i-1]
    BY <1>3, <2>1, SubSeqProperties
  <2>3. QED
    BY <2>1, <2>2
<1>5. SubSeq(t, 1, Len(s)) = s
  BY <1>4, SeqEqual DEF Begins
<1>6. QED
  BY <1>2, <1>5 DEF IsPrefix, Begins

\* UpTo(s, n): the first n elements, or as many as there are.
LEMMA UpToLemma ==
  ASSUME NEW A, NEW s \in Seq(A), NEW n \in Nat
  PROVE  /\ UpTo(s, n) \in Seq(A) /\ Begins(UpTo(s, n), s)
         /\ Len(UpTo(s, n)) = IF n <= Len(s) THEN n ELSE Len(s)
<1> DEFINE m == Min({n, Len(s)})
           u == SubSeq(s, 1, m)
<1>1. Len(s) \in Nat
  BY LenProperties
<1>2. m \in Nat /\ m = IF n <= Len(s) THEN n ELSE Len(s)
  <2>1. m \in {n, Len(s)} /\ \A k \in {n, Len(s)} : m <= k
    <3>1. {n, Len(s)} \in SUBSET Nat /\ {n, Len(s)} # {}
      BY <1>1
    <3>2. QED
      BY <3>1, MinLemma
  <2> HIDE DEF m
  <2>2. QED
    BY <1>1, <2>1
<1> HIDE DEF m
<1>3. \A i \in 1..m : s[i] \in A
  BY <1>1, <1>2, ElementOfSeq
<1>4. /\ u \in Seq(A)
      /\ Len(u) = IF 1 <= m THEN m-1+1 ELSE 0
      /\ \A i \in 1..(m-1+1) : u[i] = s[1+i-1]
  BY <1>2, <1>3, SubSeqProperties
<1>5. Len(u) = m /\ \A i \in 1..m : u[i] = s[i]
  BY <1>2, <1>4
<1>6. UpTo(s, n) = u
  BY DEF UpTo, m
<1>7. QED
  BY <1>1, <1>2, <1>4, <1>5, <1>6 DEF Begins

\* What follows the first n elements.
LEMMA DropLemma ==
  ASSUME NEW A, NEW s \in Seq(A), NEW n \in 0..Len(s)
  PROVE  /\ SubSeq(s, n + 1, Len(s)) \in Seq(A)
         /\ Len(SubSeq(s, n + 1, Len(s))) = Len(s) - n
         /\ \A i \in 1..(Len(s) - n) : SubSeq(s, n + 1, Len(s))[i] = s[n + i]
<1> DEFINE rest == SubSeq(s, n + 1, Len(s))
<1>1. Len(s) \in Nat
  BY LenProperties
<1>2. \A i \in (n+1)..Len(s) : s[i] \in A
  <2>1. \A i \in (n+1)..Len(s) : i \in 1..Len(s)
    BY <1>1
  <2>2. QED
    BY <2>1, ElementOfSeq
<1>3. /\ rest \in Seq(A)
      /\ Len(rest) = IF n+1 <= Len(s) THEN Len(s) - (n+1) + 1 ELSE 0
      /\ \A i \in 1..(Len(s) - (n+1) + 1) : rest[i] = s[(n+1) + i - 1]
  BY <1>1, <1>2, SubSeqProperties
<1> HIDE DEF rest
<1>4. Len(rest) = Len(s) - n /\ Len(s) - (n+1) + 1 = Len(s) - n
  BY <1>1, <1>3
<1>5. \A i \in 1..(Len(s) - n) : (n+1) + i - 1 = n + i
  BY <1>1
<1>6. QED
  BY <1>3, <1>4, <1>5 DEF rest

-----------------------------------------------------------------------------
(* The conversation.                                                       *)

\* There is a display to talk to, and what has been read is the beginning of what
\* it says: all that was asked for, until the end.
TalkInv ==
  /\ talk.at = "none" => talk.text = <<>>
  /\ talk.at # "none" => MatchingDisplay(displays) # 0 /\ Begins(talk.text, Caps)
  /\ talk.at \in {"ask", "nap"} /\ talk.offset < TextCap => Len(talk.text) = talk.offset

DdcInv == DdcTypeOK /\ TalkInv

TalkStates == [at : {"none", "ask", "nap", "done"}, text : Seq(Tokens),
           offset : 0..(TextCap + FragLen), tries : 0..CapsAttempts]

LEMMA CapsTyped ==
  ASSUME displays \in DisplayLists, MatchingDisplay(displays) # 0
  PROVE  Caps \in Seq(Tokens)
<1>1. displays \in Seq(Displays)
  BY DdcAssumption
<1>2. MatchingDisplay(displays) \in 1..Len(displays)
  BY FirstDisplay DEF IsFirst
<1>3. displays[MatchingDisplay(displays)] \in Displays
  BY <1>1, <1>2, ElementOfSeq
<1>4. QED
  BY <1>3, DdcAssumption DEF Caps

\* The fragment at k: what follows the first k tokens, a full one or what is left.
LEMMA FragmentLemma ==
  ASSUME NEW k \in Nat, Caps \in Seq(Tokens), k <= Len(Caps)
  PROVE  /\ Fragment(k) \in Seq(Tokens) /\ Len(Fragment(k)) <= FragLen
         /\ k + Len(Fragment(k)) <= Len(Caps)
         /\ \A i \in 1..Len(Fragment(k)) : Fragment(k)[i] = Caps[k + i]
<1> DEFINE rest == SubSeq(Caps, k + 1, Len(Caps))
<1>1. Len(Caps) \in Nat /\ FragLen \in Nat
  BY LenProperties, DdcAssumption
<1>2. /\ rest \in Seq(Tokens) /\ Len(rest) = Len(Caps) - k
      /\ \A i \in 1..Len(rest) : rest[i] = Caps[k + i]
  BY <1>1, DropLemma
<1> HIDE DEF rest
<1>3. /\ UpTo(rest, FragLen) \in Seq(Tokens) /\ Begins(UpTo(rest, FragLen), rest)
      /\ Len(UpTo(rest, FragLen)) = IF FragLen <= Len(rest) THEN FragLen ELSE Len(rest)
  BY <1>1, <1>2, UpToLemma
<1>4. Fragment(k) = UpTo(rest, FragLen)
  BY DEF Fragment, rest
<1>5. Len(Fragment(k)) <= FragLen /\ Len(Fragment(k)) <= Len(rest) /\ Len(Fragment(k)) \in Nat
  BY <1>1, <1>2, <1>3, <1>4, LenProperties
<1>6. \A i \in 1..Len(Fragment(k)) : Fragment(k)[i] = Caps[k + i]
  BY <1>2, <1>3, <1>4, <1>5 DEF Begins
<1>7. QED
  BY <1>1, <1>2, <1>3, <1>4, <1>5, <1>6

\* A reply that is not refused brings what follows.
LEMMA ReplyText ==
  ASSUME DdcInv, Asking, OffsetAgrees(talk.offset), Fragment(talk.offset) # <<>>
  PROVE  /\ UpTo(talk.text \o Fragment(talk.offset), Room) \in Seq(Tokens)
         /\ Begins(UpTo(talk.text \o Fragment(talk.offset), Room), Caps)
         /\ Len(UpTo(talk.text \o Fragment(talk.offset), Room)) < TextCap
         /\ talk.offset + Len(Fragment(talk.offset)) \in 0..(TextCap + FragLen)
         /\ talk.offset + Len(Fragment(talk.offset)) < TextCap =>
              Len(UpTo(talk.text \o Fragment(talk.offset), Room))
                = talk.offset + Len(Fragment(talk.offset))
<1> DEFINE k == talk.offset
           f == Fragment(k)
           s == talk.text \o f
           u == UpTo(s, Room)
<1>1. /\ Caps \in Seq(Tokens) /\ talk.text \in Seq(Tokens) /\ k \in Nat /\ k < TextCap
      /\ Begins(talk.text, Caps) /\ Len(talk.text) = k
      /\ TextCap \in Nat \ {0} /\ FragLen \in Nat
  BY CapsTyped, DdcAssumption DEF DdcInv, DdcTypeOK, TalkInv, Asking
<1>2. Len(Caps) \in Nat /\ k <= Len(Caps) /\ Room \in Nat /\ Room = TextCap - 1
  BY <1>1, LenProperties DEF Begins, Room
<1> HIDE DEF k
<1>3. /\ f \in Seq(Tokens) /\ Len(f) <= FragLen /\ k + Len(f) <= Len(Caps)
      /\ \A i \in 1..Len(f) : f[i] = Caps[k + i]
  BY <1>1, <1>2, FragmentLemma
<1> HIDE DEF f
<1>4. Len(f) \in Nat
  BY <1>3, LenProperties
<1>5. /\ s \in Seq(Tokens) /\ Len(s) = k + Len(f)
      /\ \A i \in 1..(k + Len(f)) : s[i] = IF i <= k THEN talk.text[i] ELSE f[i - k]
  BY <1>1, <1>3, ConcatProperties
<1> HIDE DEF s
<1>6. Begins(s, Caps)
  <2>1. ASSUME NEW i \in 1..(k + Len(f)) PROVE s[i] = Caps[i]
    <3>1. CASE i <= k
      <4>1. i \in 1..Len(talk.text)
        BY <1>1, <1>4, <3>1
      <4>2. QED
        BY <1>1, <1>5, <3>1, <4>1 DEF Begins
    <3>2. CASE ~(i <= k)
      <4>1. i - k \in 1..Len(f) /\ k + (i - k) = i
        BY <1>1, <1>4, <3>2
      <4>2. QED
        BY <1>3, <1>5, <3>2, <4>1
    <3>3. QED
      BY <3>1, <3>2
  <2>2. QED
    BY <1>3, <1>5, <2>1 DEF Begins
<1>7. /\ u \in Seq(Tokens) /\ Begins(u, s)
      /\ Len(u) = IF Room <= Len(s) THEN Room ELSE Len(s)
  BY <1>2, <1>5, UpToLemma
<1> HIDE DEF u
<1>8. Len(u) <= Len(s) /\ Len(u) \in Nat /\ Len(s) \in Nat
  BY <1>1, <1>2, <1>4, <1>5, <1>7
<1>9. Begins(u, Caps)
  <2>1. \A i \in 1..Len(u) : i \in 1..Len(s)
    BY <1>8
  <2>2. Len(u) <= Len(Caps)
    BY <1>2, <1>6, <1>8 DEF Begins
  <2>3. QED
    BY <1>6, <1>7, <2>1, <2>2 DEF Begins
<1>10. /\ Len(u) < TextCap /\ k + Len(f) \in 0..(TextCap + FragLen)
       /\ k + Len(f) < TextCap => Len(u) = k + Len(f)
  BY <1>1, <1>2, <1>3, <1>4, <1>5, <1>7
<1>11. QED
  BY <1>7, <1>9, <1>10 DEF u, s, f, k

\* What a step must leave for the invariant to hold.
LEMMA TalkKeeps ==
  ASSUME DdcInv, UNCHANGED displays, shows' \in [DOMAIN displays -> Codes \cup {"other"}],
         MatchingDisplay(displays) # 0,
         NEW at \in {"ask", "nap", "done"}, NEW text \in Seq(Tokens),
         NEW offset \in 0..(TextCap + FragLen), NEW tries \in 0..CapsAttempts,
         talk' = [at |-> at, text |-> text, offset |-> offset, tries |-> tries],
         Len(text) < TextCap, Begins(text, Caps),
         at \in {"ask", "nap"} /\ offset < TextCap => Len(text) = offset
  PROVE  DdcInv'
<1>1. talk' \in TalkStates /\ talk'.at = at /\ talk'.text = text /\ talk'.offset = offset
  BY DEF TalkStates
<1>2. Caps' = Caps /\ MatchingDisplay(displays)' = MatchingDisplay(displays)
  BY DEF Caps
<1>3. DdcTypeOK'
  BY <1>1 DEF DdcInv, DdcTypeOK, TalkStates
<1>4. Begins(talk.text, Caps)'
  BY <1>1, <1>2 DEF Begins
<1>5. TalkInv'
  BY <1>1, <1>2, <1>4 DEF TalkInv
<1>6. QED
  BY <1>3, <1>5 DEF DdcInv

LEMMA ConversationKeeps ==
  ASSUME DdcInv, Conversation
  PROVE  DdcInv'
<1>1. UNCHANGED <<displays, shows>> /\ talk.at \in {"ask", "nap"}
  BY DEF Conversation, CapsNoReply, CapsAgain, CapsEnd, CapsReply, Asking
<1>2. /\ talk \in TalkStates /\ Len(talk.text) < TextCap
      /\ MatchingDisplay(displays) # 0 /\ Begins(talk.text, Caps)
      /\ talk.offset < TextCap => Len(talk.text) = talk.offset
      /\ shows' \in [DOMAIN displays -> Codes \cup {"other"}]
  BY <1>1 DEF DdcInv, DdcTypeOK, TalkStates, TalkInv
<1>3. TextCap \in Nat \ {0} /\ FragLen \in Nat \ {0} /\ CapsAttempts \in Nat \ {0}
  BY DdcAssumption
<1>4. ASSUME NEW at \in {"ask", "nap", "done"}, NEW text \in Seq(Tokens),
             NEW offset \in 0..(TextCap + FragLen), NEW tries \in 0..CapsAttempts,
             talk' = [at |-> at, text |-> text, offset |-> offset, tries |-> tries],
             Len(text) < TextCap, Begins(text, Caps),
             at \in {"ask", "nap"} /\ offset < TextCap => Len(text) = offset
      PROVE  DdcInv'
  BY <1>1, <1>2, <1>4, TalkKeeps
<1>5. ASSUME Asking, Miss PROVE DdcInv'
  <2>1. talk' = [at |-> "nap", text |-> talk.text, offset |-> talk.offset, tries |-> talk.tries + 1]
    BY <1>2, <1>5 DEF Miss, TalkStates
  <2>2. talk.tries + 1 \in 0..CapsAttempts
    BY <1>2, <1>3, <1>5 DEF Asking, TalkStates
  <2>3. talk.text \in Seq(Tokens) /\ talk.offset \in 0..(TextCap + FragLen)
    BY <1>2 DEF TalkStates
  <2>4. QED
    BY <1>2, <1>4, <2>1, <2>2, <2>3
<1>6. CASE CapsNoReply
  BY <1>5, <1>6 DEF CapsNoReply
<1>7. CASE CapsAgain
  <2>1. talk' = [at |-> "ask", text |-> talk.text, offset |-> talk.offset, tries |-> talk.tries]
    BY <1>2, <1>7 DEF CapsAgain, TalkStates
  <2>2. talk.text \in Seq(Tokens) /\ talk.offset \in 0..(TextCap + FragLen)
        /\ talk.tries \in 0..CapsAttempts
    BY <1>2 DEF TalkStates
  <2>3. QED
    BY <1>2, <1>4, <2>1, <2>2
<1>8. CASE CapsEnd
  <2>1. talk' = [at |-> "done", text |-> talk.text, offset |-> 0, tries |-> 0]
    BY <1>2, <1>8 DEF CapsEnd, TalkStates
  <2>2. talk.text \in Seq(Tokens) /\ 0 \in 0..(TextCap + FragLen) /\ 0 \in 0..CapsAttempts
    BY <1>2, <1>3 DEF TalkStates
  <2>3. QED
    BY <1>2, <1>4, <2>1, <2>2
<1>9. ASSUME Asking, NEW k \in 0..Len(Caps), CapsReply(k)
      PROVE  DdcInv'
  <2>1. CASE ~OffsetAgrees(k)
    BY <1>5, <1>9, <2>1 DEF CapsReply
  <2>2. CASE OffsetAgrees(k) /\ Fragment(k) = <<>>
    <3>1. talk' = [talk EXCEPT !.offset = TextCap, !.tries = 0]
      BY <1>9, <2>2 DEF CapsReply
    <3>2. talk' = [at |-> "ask", text |-> talk.text, offset |-> TextCap, tries |-> 0]
      BY <1>2, <1>9, <3>1 DEF Asking, TalkStates
    <3>3. talk.text \in Seq(Tokens) /\ TextCap \in 0..(TextCap + FragLen) /\ 0 \in 0..CapsAttempts
      BY <1>2, <1>3 DEF TalkStates
    <3>4. QED
      BY <1>2, <1>3, <1>4, <3>2, <3>3
  <2>3. CASE OffsetAgrees(k) /\ Fragment(k) # <<>>
    <3> DEFINE u == UpTo(talk.text \o Fragment(k), Room)
               o == talk.offset + Len(Fragment(k))
    <3>1. k = talk.offset
      BY <2>3 DEF OffsetAgrees
    <3>2. talk' = [talk EXCEPT !.text = u, !.offset = o, !.tries = 0]
      BY <1>9, <2>3, <3>1 DEF CapsReply
    <3>3. /\ u \in Seq(Tokens) /\ Begins(u, Caps) /\ Len(u) < TextCap
          /\ o \in 0..(TextCap + FragLen) /\ (o < TextCap => Len(u) = o)
      BY <1>9, <2>3, <3>1, ReplyText
    <3> HIDE DEF u, o
    <3>4. talk \in TalkStates /\ talk.at = "ask" /\ 0 \in 0..CapsAttempts
      BY <1>2, <1>3, <1>9 DEF Asking
    <3>5. talk' = [at |-> "ask", text |-> u, offset |-> o, tries |-> 0]
      BY <3>2, <3>4 DEF TalkStates
    <3>6. QED
      BY <1>4, <3>3, <3>4, <3>5
  <2>4. QED
    BY <2>1, <2>2, <2>3
<1>10. QED
  BY <1>6, <1>7, <1>8, <1>9 DEF Conversation

LEMMA TalkBeginsKeeps ==
  ASSUME DdcInv, TalkBegins, MatchingDisplay(displays) # 0, UNCHANGED <<displays, shows>>
  PROVE  DdcInv'
<1>1. talk' = [at |-> "ask", text |-> <<>>, offset |-> 0, tries |-> 0]
  BY DEF TalkBegins, NoTalk
<1>2. <<>> \in Seq(Tokens) /\ Len(<<>>) = 0
  BY EmptySeq
<1>3. /\ 0 \in 0..(TextCap + FragLen) /\ 0 \in 0..CapsAttempts /\ 0 < TextCap
      /\ 1..0 = {}
  BY DdcAssumption
<1>4. Begins(<<>>, Caps)
  <2>1. Len(Caps) \in Nat
    BY CapsTyped, LenProperties DEF DdcInv, DdcTypeOK
  <2>2. QED
    BY <1>2, <1>3, <2>1 DEF Begins
<1>5. shows' \in [DOMAIN displays -> Codes \cup {"other"}]
  BY DEF DdcInv, DdcTypeOK
<1>6. QED
  BY <1>1, <1>2, <1>3, <1>4, <1>5, TalkKeeps

LEMMA NoTalkKeeps ==
  ASSUME DdcInv, talk' \in {talk, NoTalk}, UNCHANGED displays,
         shows' \in [DOMAIN displays -> Codes \cup {"other"}]
  PROVE  DdcInv'
<1>1. Caps' = Caps
  BY DEF Caps
<1>2. CASE talk' = talk
  BY <1>1, <1>2 DEF DdcInv, DdcTypeOK, TalkInv, Begins
<1>3. CASE talk' = NoTalk
  <2>1. <<>> \in Seq(Tokens) /\ Len(<<>>) = 0
    BY EmptySeq
  <2>2. 0 \in 0..(TextCap + FragLen) /\ 0 \in 0..CapsAttempts /\ 0 < TextCap
    BY DdcAssumption
  <2>3. DdcTypeOK'
    BY <1>3, <2>1, <2>2 DEF DdcInv, DdcTypeOK, NoTalk
  <2>4. TalkInv'
    BY <1>3 DEF TalkInv, NoTalk
  <2>5. QED
    BY <2>3, <2>4 DEF DdcInv
<1>4. QED
  BY <1>2, <1>3

LEMMA DdcInvInit == DdcInit => DdcInv
<1> SUFFICES ASSUME DdcInit PROVE DdcInv
  OBVIOUS
<1>1. <<>> \in Seq(Tokens) /\ Len(<<>>) = 0
  BY EmptySeq
<1>2. 0 \in 0..(TextCap + FragLen) /\ 0 \in 0..CapsAttempts /\ 0 < TextCap
  BY DdcAssumption
<1>3. DdcTypeOK
  BY <1>1, <1>2 DEF DdcInit, DdcTypeOK, NoTalk
<1>4. TalkInv
  BY DEF DdcInit, TalkInv, NoTalk
<1>5. QED
  BY <1>3, <1>4 DEF DdcInv

\* Only a display that MonitorMatch means is driven.
LEMMA OnlyMatchShows ==
  ASSUME DdcInv, NEW v, SetInputByMatch(v)
  PROVE  /\ \A i \in DOMAIN displays : shows'[i] # shows[i] => displays[i].name \in Matching
         /\ v \in Codes => shows' \in [DOMAIN displays -> Codes \cup {"other"}]
<1> DEFINE m == MatchingDisplay(displays)
<1>1. displays \in Seq(Displays) /\ shows \in [DOMAIN displays -> Codes \cup {"other"}]
  BY DdcAssumption DEF DdcInv, DdcTypeOK
<1>2. DOMAIN displays = 1..Len(displays) /\ Len(displays) \in Nat
  BY <1>1, LenProperties
<1>3. m \in DOMAIN displays => displays[m].name \in Matching
  <2>1. IsFirst(m, displays, MatchingDisplays)
    BY FirstDisplay DEF DdcInv, DdcTypeOK
  <2> HIDE DEF m
  <2>2. QED
    BY <1>2, <2>1 DEF IsFirst, MatchingDisplays
<1>4. shows' = shows \/ (m \in DOMAIN displays /\ shows' = [shows EXCEPT ![m] = v])
  BY DEF SetInputByMatch
<1> HIDE DEF m
<1>5. QED
  BY <1>1, <1>3, <1>4

LEMMA DdcPrefix ==
  ASSUME DdcInv
  PROVE  CapsArePrefix
<1> SUFFICES ASSUME talk.text # <<>> PROVE IsPrefix(talk.text, Caps)
  BY DEF CapsArePrefix
<1>1. talk.at # "none" /\ talk.text \in Seq(Tokens)
  BY DEF DdcInv, DdcTypeOK, TalkInv
<1>2. Caps \in Seq(Tokens) /\ Begins(talk.text, Caps)
  BY <1>1, CapsTyped DEF DdcInv, DdcTypeOK, TalkInv
<1>3. QED
  BY <1>1, <1>2, PrefixLemma

-----------------------------------------------------------------------------
(* The list that is found in the text.                                     *)

\* The list of code 60 is looked for in the vcp section, or everywhere if there is
\* none: what a display says has no "60(" before the section.
ListInVcp(caps) ==
  \A j \in DOMAIN caps : caps[j] = "60(" =>
    \/ \E i \in 1..(j-1) : caps[i] = "vcp("
    \/ \A i \in DOMAIN caps : caps[i] # "vcp("

\* The first place in a beginning is the first place in the whole.
LEMMA FirstInBeginning ==
  ASSUME NEW A, NEW s \in Seq(A), NEW t \in Seq(A), Begins(s, t), NEW x
  PROVE  /\ Place(s, x) # 0 => Place(t, x) = Place(s, x)
         /\ Place(s, x) = 0 => Place(t, x) = 0 \/ Len(s) < Place(t, x)
<1> DEFINE n == Place(s, x)
           m == Place(t, x)
<1>1. Len(s) \in Nat /\ Len(t) \in Nat /\ IsFirst(n, s, {x}) /\ IsFirst(m, t, {x})
  BY LenProperties, FirstToken
<1> SUFFICES (n # 0 => m = n) /\ (n = 0 => m = 0 \/ Len(s) < m)
  BY DEF n, m
<1> HIDE DEF n, m
<1>2. n \in Nat /\ m \in Nat
  BY <1>1 DEF IsFirst
<1>3. CASE n # 0
  <2>1. n \in 1..Len(t) /\ t[n] = x
    BY <1>1, <1>3 DEF IsFirst, Begins
  <2>2. m \in 1..Len(t) /\ t[m] = x /\ m <= n
    BY <1>1, <2>1 DEF IsFirst
  <2>3. m \in 1..Len(s) /\ s[m] = x
    BY <1>1, <1>3, <2>2 DEF IsFirst, Begins
  <2>4. n <= m
    BY <1>1, <1>3, <2>3 DEF IsFirst
  <2>5. QED
    BY <1>2, <1>3, <2>2, <2>4
<1>4. CASE n = 0 /\ m # 0
  <2>1. ~(m \in 1..Len(s))
    BY <1>1, <1>4 DEF IsFirst, Begins
  <2>2. QED
    BY <1>1, <1>2, <1>4, <2>1
<1>5. QED
  BY <1>3, <1>4

\* What follows a token in a beginning is a beginning of what follows it.
LEMMA AfterBegins ==
  ASSUME NEW A, NEW s \in Seq(A), NEW t \in Seq(A), Begins(s, t), NEW x,
         Place(s, x) = Place(t, x)
  PROVE  After(s, x) \in Seq(A) /\ After(t, x) \in Seq(A) /\ Begins(After(s, x), After(t, x))
<1> DEFINE n == Place(s, x)
           u == SubSeq(s, n + 1, Len(s))
           v == SubSeq(t, n + 1, Len(t))
<1>1. Len(s) \in Nat /\ Len(t) \in Nat /\ Len(s) <= Len(t)
  BY LenProperties DEF Begins
<1>2. n \in 0..Len(s) /\ n \in 0..Len(t)
  <2>1. IsFirst(n, s, {x})
    BY FirstToken
  <2> HIDE DEF n
  <2>2. QED
    BY <1>1, <2>1 DEF IsFirst
<1> HIDE DEF n
<1>3. /\ u \in Seq(A) /\ Len(u) = Len(s) - n /\ \A i \in 1..(Len(s) - n) : u[i] = s[n + i]
      /\ v \in Seq(A) /\ Len(v) = Len(t) - n /\ \A i \in 1..(Len(t) - n) : v[i] = t[n + i]
  BY <1>2, DropLemma
<1> HIDE DEF u, v
<1>4. Len(u) <= Len(v)
  BY <1>1, <1>2, <1>3
<1>5. ASSUME NEW i \in 1..Len(u) PROVE u[i] = v[i]
  <2>1. n + i \in 1..Len(s) /\ i \in 1..(Len(s) - n) /\ i \in 1..(Len(t) - n)
    BY <1>1, <1>2, <1>3
  <2>2. QED
    BY <1>3, <2>1 DEF Begins
<1>6. After(s, x) = u /\ After(t, x) = v
  BY DEF After, Place, u, v, n
<1>7. QED
  BY <1>3, <1>4, <1>5, <1>6 DEF Begins

LEMMA ContainsFirst ==
  ASSUME NEW A, NEW s \in Seq(A), NEW x
  PROVE  Contains(s, x) <=> Place(s, x) # 0
<1>1. Len(s) \in Nat /\ IsFirst(Place(s, x), s, {x})
  BY LenProperties, FirstToken
<1>2. QED
  BY <1>1 DEF Contains, IsFirst

\* Where the reading of a text ended early its list is found whole or not at all.
LEMMA ListWhole ==
  ASSUME NEW A, NEW s \in Seq(A), NEW t \in Seq(A), Begins(s, t), ListInVcp(t)
  PROVE  ParseInputs(s) \in {{}, ParseInputs(t)}
<1> DEFINE vs == After(s, "vcp(")
           vt == After(t, "vcp(")
           ls == After(vs, "60(")
           lt == After(vt, "60(")
<1>1. ParseInputs(s) = IF Contains(vs, "60(") /\ Contains(ls, ")")
                       THEN Range(Before(ls, ")")) \cap Codes ELSE {}
  BY DEF ParseInputs
<1>2. ParseInputs(t) = IF Contains(vt, "60(") /\ Contains(lt, ")")
                       THEN Range(Before(lt, ")")) \cap Codes ELSE {}
  BY DEF ParseInputs
<1> HIDE DEF vs, vt, ls, lt
<1>3. SUFFICES ASSUME Contains(vs, "60("), Contains(ls, ")")
               PROVE  ParseInputs(s) = ParseInputs(t)
  BY <1>1
<1>4. Len(s) \in Nat /\ Len(t) \in Nat /\ DOMAIN t = 1..Len(t) /\ Len(s) <= Len(t)
  BY LenProperties DEF Begins
<1>5. Place(s, "vcp(") = Place(t, "vcp(")
  <2>1. /\ Place(s, "vcp(") # 0 => Place(t, "vcp(") = Place(s, "vcp(")
        /\ Place(s, "vcp(") = 0 => Place(t, "vcp(") = 0 \/ Len(s) < Place(t, "vcp(")
    BY FirstInBeginning
  <2>2. ASSUME Place(s, "vcp(") = 0, Place(t, "vcp(") # 0 PROVE FALSE
    <3>1. vs = s
      <4>1. SubSeq(s, 0 + 1, Len(s)) = s
        BY SubSeqFull
      <4>2. QED
        BY <2>2, <4>1 DEF After, Place, vs
    <3>2. PICK j \in 1..Len(s) : s[j] = "60("
      BY <1>3, <3>1 DEF Contains
    <3>3. j \in DOMAIN t /\ t[j] = "60("
      BY <1>4, <3>2 DEF Begins
    <3>4. Place(t, "vcp(") \in DOMAIN t /\ t[Place(t, "vcp(")] = "vcp("
          /\ \A i \in 1..Len(t) : t[i] = "vcp(" => Place(t, "vcp(") <= i
      BY <1>4, <2>2, FirstToken DEF IsFirst
    <3>5. PICK i \in 1..(j-1) : t[i] = "vcp("
      BY <3>3, <3>4 DEF ListInVcp
    <3>6. Len(s) < Place(t, "vcp(") /\ Place(t, "vcp(") <= i /\ i <= Len(s) /\ i \in Nat
      BY <1>4, <2>1, <2>2, <3>4, <3>5
    <3>7. QED
      BY <1>4, <3>4, <3>6
  <2>3. QED
    BY <2>1, <2>2
<1>6. vs \in Seq(A) /\ vt \in Seq(A) /\ Begins(vs, vt)
  BY <1>5, AfterBegins DEF vs, vt
<1>7. Place(vs, "60(") # 0 /\ Place(vt, "60(") = Place(vs, "60(")
  <2>1. Place(vs, "60(") # 0
    BY <1>3, <1>6, ContainsFirst
  <2>2. QED
    BY <1>6, <2>1, FirstInBeginning
<1>8. ls \in Seq(A) /\ lt \in Seq(A) /\ Begins(ls, lt)
  BY <1>6, <1>7, AfterBegins DEF ls, lt
<1>9. Place(ls, ")") # 0 /\ Place(lt, ")") = Place(ls, ")")
  <2>1. Place(ls, ")") # 0
    BY <1>3, <1>8, ContainsFirst
  <2>2. QED
    BY <1>8, <2>1, FirstInBeginning
<1>10. Contains(vt, "60(") /\ Contains(lt, ")")
  BY <1>6, <1>7, <1>8, <1>9, ContainsFirst
<1>11. Before(ls, ")") = Before(lt, ")")
  <2> DEFINE n == Place(ls, ")")
             a == SubSeq(ls, 1, n - 1)
             b == SubSeq(lt, 1, n - 1)
  <2>1. n \in 1..Len(ls) /\ Len(ls) \in Nat /\ Len(lt) \in Nat /\ Len(ls) <= Len(lt)
    BY <1>8, <1>9, LenProperties, FirstToken DEF IsFirst, Begins
  <2> HIDE DEF n
  <2>2. \A i \in 1..(n-1) : i \in 1..Len(ls) /\ i \in 1..Len(lt)
    BY <2>1
  <2>3. \A i \in 1..(n-1) : ls[i] \in A /\ lt[i] \in A /\ ls[i] = lt[i]
    BY <1>8, <2>2, ElementOfSeq DEF Begins
  <2>4. /\ a \in Seq(A) /\ Len(a) = IF 1 <= n-1 THEN n-1-1+1 ELSE 0
        /\ \A i \in 1..(n-1-1+1) : a[i] = ls[1+i-1]
        /\ b \in Seq(A) /\ Len(b) = IF 1 <= n-1 THEN n-1-1+1 ELSE 0
        /\ \A i \in 1..(n-1-1+1) : b[i] = lt[1+i-1]
    BY <2>1, <2>3, SubSeqProperties
  <2> HIDE DEF a, b
  <2>5. Len(a) = n-1 /\ Len(b) = n-1 /\ \A i \in 1..(n-1) : a[i] = ls[i] /\ b[i] = lt[i]
    BY <2>1, <2>4
  <2>6. a = b
    BY <2>3, <2>4, <2>5, SeqEqual
  <2>7. QED
    BY <1>9, <2>6 DEF Before, Place, a, b, n
<1>12. QED
  BY <1>1, <1>2, <1>3, <1>10, <1>11

\* The list of inputs of what has been read so far.
LEMMA DdcList ==
  ASSUME DdcInv, \A d \in Displays : ListInVcp(d.caps)
  PROVE  InputsAreAllOrNone
<1> SUFFICES ASSUME talk.text # <<>> PROVE ParseInputs(talk.text) \in {{}, ParseInputs(Caps)}
  BY DEF InputsAreAllOrNone
<1>1. talk.at # "none" /\ talk.text \in Seq(Tokens)
  BY DEF DdcInv, DdcTypeOK, TalkInv
<1>2. /\ MatchingDisplay(displays) # 0 /\ displays \in DisplayLists
      /\ Begins(talk.text, Caps) /\ Caps \in Seq(Tokens)
  BY <1>1, CapsTyped DEF DdcInv, DdcTypeOK, TalkInv
<1>3. ListInVcp(Caps)
  <2>1. MatchingDisplay(displays) \in 1..Len(displays) /\ displays \in Seq(Displays)
    BY <1>2, FirstDisplay, DdcAssumption DEF IsFirst
  <2>2. displays[MatchingDisplay(displays)] \in Displays
    BY <2>1, ElementOfSeq
  <2>3. QED
    BY <2>2 DEF Caps
<1>4. QED
  BY <1>1, <1>2, <1>3, ListWhole
=============================================================================
