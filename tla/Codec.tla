--------------------------------- MODULE Codec ---------------------------------
(* The encoder and the decoder as the tester puts them together (test() of   *)
(* tester/main.cpp): a value is encoded, the bytes are decoded into a fresh  *)
(* object, and then once more into the object they were encoded from.  The   *)
(* next round has an encoder and a buffer of its own; the static bindings of *)
(* the decoder live on.                                                      *)
EXTENDS Wire

CONSTANTS
  Schema,
  GetByteSize(_, _),
  Values,      \* the pairs [struct, value] the program sends
  Nothing,     \* no value yet
  Unspecified,
  Objects,     \* the pairs [struct, value] whose round trip is claimed, and what they hold
  MaxRounds    \* bound: values sent in the life of the program

VARIABLES
  turn,      \* "encode", "fresh", "again", "done": what the program does next
  rounds,    \* rounds begun
  sent,      \* the pair whose encoding was finished last
  received,  \* the pair the last operator>> left, of calls that returned true
  ndebug, encPhase, message, agenda, nByteSize, region, out, hasTarget, ret, encCalls, open,
  decPhase, fault, buffer, target, frames, statics, last, decCalls

encVars == <<ndebug, encPhase, message, agenda, nByteSize, region, out, hasTarget, ret,
             encCalls, open>>
decVars == <<decPhase, fault, buffer, target, frames, statics, last, decCalls>>
vars == <<turn, rounds, sent, received, encVars, decVars>>

\* The two components, with what is proved about them.
Enc == INSTANCE EncoderFormatProofs WITH
  Messages <- Values, Builds <- {TRUE}, Capacity <- 15, MaxCalls <- 1,
  AllObjects <- Objects, FaithfulObjects <- Objects,
  phase <- encPhase, calls <- encCalls

Dec == INSTANCE DecoderFormatProofs WITH
  Inputs <- {}, Targets <- Values, MaxCalls <- 2 * MaxRounds, ReadObjects <- Objects,
  phase <- decPhase, calls <- decCalls

\* What they assume of the schema, the values and the bounds.
ASSUME CodecAssumption ==
  Enc!SchemaAssumption /\ Enc!EncoderAssumption /\ Dec!DecoderAssumption

-----------------------------------------------------------------------------
Init ==
  /\ turn = "encode" /\ rounds = 1
  /\ sent = Nothing /\ received = Nothing
  /\ Enc!Init /\ Dec!Init

\* encoder << items
EncodeStep ==
  /\ turn = "encode"
  /\ Enc!Next
  /\ IF encCalls' = 1
       THEN turn' = "fresh" /\ sent' = message
       ELSE UNCHANGED <<turn, sent>>
  /\ UNCHANGED <<rounds, received, decVars>>

\* decoder >> items2, and decoder >> items
DecodeBegin ==
  /\ \/ /\ turn = "fresh"
        /\ Dec!BeginWith(out, [struct |-> sent.struct, value |-> Dec!ZeroMessage[sent.struct]])
     \/ /\ turn = "again"
        /\ Dec!BeginWith(out, sent)
  /\ UNCHANGED <<turn, rounds, sent, received, encVars>>

\* b = decoder >> items2
DecodeStep ==
  /\ Dec!Parse
  /\ IF decPhase' = "idle"
       THEN /\ turn' = IF turn = "fresh" THEN "again" ELSE "done"
            /\ received' = IF last'[Len(last')].ok THEN target' ELSE received
       ELSE UNCHANGED <<turn, received>>
  /\ UNCHANGED <<rounds, sent, encVars>>

\* The next run of the same code: std::string buffer; PBEncoder encoder(&buffer);
NextRound ==
  /\ turn = "done" /\ rounds < MaxRounds
  /\ turn' = "encode" /\ rounds' = rounds + 1
  /\ agenda' = <<>> /\ nByteSize' = 0 /\ region' = 0
  /\ out' = <<>> /\ hasTarget' = FALSE
  /\ ret' = FALSE /\ encCalls' = 0 /\ open' = {}
  /\ UNCHANGED <<sent, received, ndebug, encPhase, message, decVars>>

Next == EncodeStep \/ DecodeBegin \/ DecodeStep \/ NextRound

Spec == Init /\ [][Next]_vars

\* One thread runs the program from its start to its end.
FairSpec == Spec /\ WF_vars(Next)

-----------------------------------------------------------------------------
Channel == INSTANCE ValueChannel

\* The codec is a channel for values: what operator>> leaves in the object is
\* what operator<< was given, field by field, into whatever object of the type
\* it decodes; and a value that was encoded does arrive.
ImplementsChannel == Channel!Spec

\* assert(b) and assert(b2) of test(): both calls of operator>> return true.  An
\* encoder whose sizes are wrong, or a decoder that runs off, fails here.
TesterAsserts ==
  /\ fault = "none"
  /\ encCalls = 1 => ret
  /\ \A i \in DOMAIN last : last[i].ok
================================================================================
