------------------------------ MODULE Notation ------------------------------
(***************************************************************************)
(* The two notations of a shape together: a grammar expression is parsed,  *)
(* the shape is written down as a constructor expression, somebody may     *)
(* edit the text or hand in one of their own, and it is read back.         *)
(***************************************************************************)
EXTENDS ShapeParse, Codec

CONSTANTS
  Letters,     \* constructor expressions nobody wrote with encode_shape_expr
  Edits(_)     \* what may become of a text that is edited once

ASSUME NotationAssumption ==
  Name \cup {"core", "host"} \subseteq Spelling /\ 3 * MaxDepth <= Nesting

VARIABLES
  text,        \* the constructor expression at hand, Nil when there is none
  origin,      \* the shape the text was written from, Refused when it was not
  back         \* what reading the text gave, Nil before that

(* Expressions: what is written down holds no live value at the top.       *)
Texts == {d \in Data : d.form \notin {"shape", "foreign", "hook"}}

vars == <<parsing, text, origin, back>>

Unchecked == [read |-> FALSE, shape |-> Refused]
ReadAs(t) == [read |-> TRUE, shape |-> t]

Init == ParseInit /\ text = Nil /\ origin = Refused /\ back = Unchecked

Parse ==
  /\ text = Nil
  /\ (\E e \in Phrase : Ask(e)) \/ ParseStep
  /\ UNCHANGED <<text, origin, back>>

(* encode_shape_expr, of what a parse gave.                                *)
Store ==
  /\ Read /\ ret.st = "ok" /\ text = Nil
  /\ text' = Encode[ret.shape]
  /\ origin' = ret.shape
  /\ UNCHANGED <<parsing, back>>

Receive(d) ==
  /\ asked = None /\ text = Nil
  /\ text' = d
  /\ UNCHANGED <<parsing, origin, back>>

Edit(d) ==
  /\ ~back.read
  /\ text' = d /\ origin' = Refused
  /\ UNCHANGED <<parsing, back>>

(* decode_shape_value.                                                     *)
Restore ==
  /\ ~back.read /\ text \notin {Nil, Bad}
  /\ back' = ReadAs(Decode[text])
  /\ UNCHANGED <<parsing, text, origin>>

(* The next shape.                                                         *)
Again ==
  /\ back.read \/ text = Bad \/ (Read /\ ret.st # "ok")
  /\ text' = Nil /\ origin' = Refused /\ back' = Unchecked
  /\ IF asked = None THEN UNCHANGED parsing ELSE Forget

Next ==
  \/ Parse \/ Store \/ Restore \/ Again
  \/ \E d \in Letters \cap Texts : Receive(d)
  \/ origin # Refused /\ text # Bad /\ \E d \in Edits(text) \cap Texts : Edit(d)

Spec == Init /\ [][Next]_vars

-----------------------------------------------------------------------------
(* The parts encode_shape_expr knows.                                      *)
Storable[t \in Shapes] ==
  /\ t.kind \notin {"capture", "fields", "number", "named"}
  /\ \A i \in DOMAIN t.kids  : Storable[t.kids[i]]
  /\ \A i \in DOMAIN t.rest  : Storable[t.rest[i]]
  /\ \A i \in DOMAIN t.marks : t.marks[i] # Bad

(* encode_shape_expr either refuses a shape or loses nothing of it: what   *)
(* it writes of a parsed shape is read back as that very shape, however    *)
(* deep the shape is; and it refuses only for a capture, a field shape or  *)
(* core/Number somewhere in it.                                            *)
StoredComesBack ==
  origin # Refused =>
    /\ text # Bad <=> Storable[origin]
    /\ back.read => back.shape = origin

(* Whatever was read, edited text, list for call or a live shape in the    *)
(* place of a field, a shape a constructor returned can be written down,   *)
(* and what is written reads as the same shape again.                      *)
ValuesAreStorable ==
  back.read /\ back.shape # Refused =>
    Encode[back.shape] # Bad /\ Decode[Encode[back.shape]] = back.shape
=============================================================================
