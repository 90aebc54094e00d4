----------------------------- MODULE LogBuilder -----------------------------
(***************************************************************************)
(* What the LOG_ macros make of a text: CLogMessageBuilder cuts it, and    *)
(* cuts or fills the tag of its module, to the sizes of the configuration. *)
(***************************************************************************)
EXTENDS FlapCodec

CONSTANTS TagSize,        \* G_TagSize
          MaxMessageSize  \* G_MaxMessageSize

ASSUME LogBuilderAssumption == TagSize \in Nat /\ MaxMessageSize \in Nat

Blank == "blank"  \* the character that fills

\* Init: a tag is as long as every other.
BuiltTag(tag) == SubSeq(tag \o [i \in 1 .. TagSize |-> Blank], 1, TagSize)

\* The destructor.
BuiltMessage(text) == IF Len(text) > MaxMessageSize THEN SubSeq(text, 1, MaxMessageSize) ELSE text
=============================================================================
