--------------------------------- MODULE Ddc ---------------------------------
(***************************************************************************)
(* Package ddc: which display is driven, the conversation that reads its   *)
(* capabilities string over an unreliable bus, and what the code makes of  *)
(* the string.  The string is a sequence of tokens, and a fragment of it a *)
(* few tokens: where a fragment cuts a token in two, the rest follows or   *)
(* the list has no closing parenthesis.                                    *)
(*                                                                         *)
(* The conversation is ddc_caps of ddc_darwin.go.  On Windows the system   *)
(* has it, and gives the whole string or none of it.                       *)
(***************************************************************************)
EXTENDS Naturals, Sequences, SequencesExt

CONSTANTS DisplayLists, \* what List may find: sequences of [name, caps]
          Matching,     \* names that contain MonitorMatch (all, if it is empty)
          Codes,        \* tokens that are input codes
          FragLen,      \* tokens in a full fragment
          TextCap,      \* tokens that fit in the buffer (4096 bytes in the code)
          CapsAttempts  \* attempts per fragment (6 in the code)

Displays == UNION {Range(list) : list \in DisplayLists}
Tokens == UNION {Range(d.caps) : d \in Displays}

ASSUME DdcAssumption ==
  /\ {FragLen, TextCap, CapsAttempts} \subseteq Nat \ {0}
  /\ DisplayLists \subseteq Seq(Displays) /\ \A d \in Displays : d.caps \in Seq(Tokens)

VARIABLES
  displays, \* what List finds
  shows,    \* the input each display shows: "other" until it is switched
  talk      \* the conversation: where it is, what it has read, its counters

ddcVars == <<displays, shows, talk>>

NoTalk == [at |-> "none", text |-> <<>>, offset |-> 0, tries |-> 0]

DdcTypeOK ==
  /\ displays \in DisplayLists
  /\ shows \in [DOMAIN displays -> Codes \cup {"other"}]
  /\ talk \in [at : {"none", "ask", "nap", "done"}, text : Seq(Tokens),
               offset : 0..(TextCap + FragLen), tries : 0..CapsAttempts]
  /\ Len(talk.text) < TextCap

-----------------------------------------------------------------------------
(* Displays and their capabilities.                                        *)

\* Bug: the first display will do if none matches.
AnyDisplay(list) ==
  IF list = <<>> THEN 0
  ELSE LET i == SelectInSeq(list, LAMBDA d : d.name \in Matching) IN IF i = 0 THEN 1 ELSE i

\* The display that SupportedInputs asks and SetInputByMatch drives, or 0.
MatchingDisplay(list) == SelectInSeq(list, LAMBDA d : d.name \in Matching)

\* The tokens after the first t (all, if there is none), and those before it.
After(s, t) == SubSeq(s, SelectInSeq(s, LAMBDA x : x = t) + 1, Len(s))
Before(s, t) == SubSeq(s, 1, SelectInSeq(s, LAMBDA x : x = t) - 1)

\* Bug: a list that was cut off is taken for a whole one.
InputsUpToEnd(text) ==
  LET vcp == After(text, "vcp(")
  IN IF Contains(vcp, "60(") THEN Range(After(vcp, "60(")) \cap Codes ELSE {}

\* parseInputsFromCaps: the codes of the first list of code 60 in the vcp section.
\* "60(" that follows another list without a space is a token of its own, "g60(",
\* and is not found.
ParseInputs(text) ==
  LET vcp == After(text, "vcp(")
  IN IF Contains(vcp, "60(") /\ Contains(After(vcp, "60("), ")")
     THEN Range(Before(After(vcp, "60("), ")")) \cap Codes
     ELSE {}

-----------------------------------------------------------------------------
(* ddc_caps.                                                               *)

Caps == displays[MatchingDisplay(displays)].caps
UpTo(s, n) == SubSeq(s, 1, Min({n, Len(s)}))
Fragment(k) == UpTo(SubSeq(Caps, k + 1, Len(Caps)), FragLen)

TalkBegins == talk' = [NoTalk EXCEPT !.at = "ask"]

\* Bug: the offset a reply repeats is not compared.
AnyOffset(k) == TRUE

\* A reply to an earlier request, still in the panel's buffer, is refused.
OffsetAgrees(k) == k = talk.offset

\* Bug: an attempt that brings nothing is not counted.
Uncounted == talk' = [talk EXCEPT !.at = "nap"]

\* A failed write or read, a null message, a reply that was refused: usleep, and
\* the next attempt.
Miss == talk' = [talk EXCEPT !.at = "nap", !.tries = @ + 1]

\* Bug: no room is left for the final 0.
WholeBuffer == TextCap

Room == TextCap - 1

Asking == talk.at = "ask" /\ talk.offset < TextCap /\ talk.tries < CapsAttempts

\* The fragment at k is copied as far as there is room.
CapsReply(k) ==
  /\ IF ~OffsetAgrees(k) THEN Miss
     ELSE IF Fragment(k) = <<>> THEN talk' = [talk EXCEPT !.offset = TextCap, !.tries = 0]
     ELSE talk' = [talk EXCEPT !.text = UpTo(@ \o Fragment(k), Room),
                               !.offset = @ + Len(Fragment(k)), !.tries = 0]
  /\ UNCHANGED <<displays, shows>>

CapsNoReply == Asking /\ Miss /\ UNCHANGED <<displays, shows>>

CapsAgain ==
  /\ talk.at = "nap"
  /\ talk' = [talk EXCEPT !.at = "ask"]
  /\ UNCHANGED <<displays, shows>>

\* The end of the string or of the buffer, or six attempts in vain: "give up;
\* return what we have".
CapsEnd ==
  /\ talk.at = "ask" /\ ~Asking
  /\ talk' = [talk EXCEPT !.at = "done", !.offset = 0, !.tries = 0]
  /\ UNCHANGED <<displays, shows>>

\* A reply may answer this request or an earlier one.
Conversation ==
  \/ CapsNoReply \/ CapsAgain \/ CapsEnd
  \/ Asking /\ \E k \in 0..Len(Caps) : CapsReply(k)

\* SetInputByMatch: the write succeeds (ddc_set sends it twice, the first one may
\* be dropped), or there is no such display, or the write fails.
SetInputByMatch(v) ==
  /\ shows' \in {shows} \cup
       { [shows EXCEPT ![i] = v] : i \in {MatchingDisplay(displays)} \cap DOMAIN displays }
  /\ UNCHANGED <<displays, talk>>

DdcInit ==
  /\ displays \in DisplayLists
  /\ shows = [i \in DOMAIN displays |-> "other"]
  /\ talk = NoTalk

-----------------------------------------------------------------------------
(* Properties.                                                             *)

\* Whatever is lost, late or repeated on the bus, what has been read is the
\* beginning of what the display would say.
CapsArePrefix == talk.text # <<>> => IsPrefix(talk.text, Caps)

\* The list of inputs is never a part of the display's list: where the reading
\* ended early, the list is found whole or not at all.
InputsAreAllOrNone ==
  talk.text # <<>> => ParseInputs(talk.text) \in {{}, ParseInputs(Caps)}

\* Only the display that MonitorMatch means is ever switched.
OnlyMatchIsDriven ==
  [][\A i \in DOMAIN displays : shows'[i] # shows[i] => displays[i].name \in Matching]_ddcVars
=============================================================================
