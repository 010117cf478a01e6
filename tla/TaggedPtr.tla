------------------------------ MODULE TaggedPtr ------------------------------
(***************************************************************************)
(* Tagged_ptr (Concurrency/Tagged_ptr.hpp): a 48-bit pointer with a 16-bit *)
(* tag in its high bits.  Exchanges compare both.                          *)
(***************************************************************************)
EXTENDS Integers

CONSTANTS
    Node, Null,
    TAGS  \* number of tags: 2^16

ASSUME TaggedPtrAssumption == Null \notin Node /\ TAGS \in Nat \ {0}

\* Pointers to nodes of S, bare and with a tag.
Pointer(S) == S \cup {Null}
Tagged(S) == [ptr : Pointer(S), tag : 0 .. TAGS - 1]

Tag(p, t) == [ptr |-> p, tag |-> t]
NoTag(p) == Tag(p, 0)

same_tag(t) == t.tag      \* mutant: the tag is not advanced
next_tag(t) == (t.tag + 1) % TAGS

(***************************************************************************)
(* t != u for two tagged pointers.  The class compares with T* and with    *)
(* nullptr_t only, so overload resolution converts both sides by operator  *)
(* bool and compares those.                                                *)
(***************************************************************************)
NotEqual(t, u) == (t.ptr # Null) # (u.ptr # Null)
=============================================================================
