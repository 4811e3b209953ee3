-------------------------------- MODULE Cdr --------------------------------
(***************************************************************************)
(* What the generated type support asks of fastcdr and of Fast DDS (both   *)
(* outside the repository): where a value lies in a serialized sample and  *)
(* how the lists of members of the generated code are walked.              *)
(*                                                                         *)
(* A value is a number; a text or a sequence is told by its length alone.  *)
(* A text has no NUL inside, as none that the programs send has: code for  *)
(* fastcdr 1 streams c_str(), which ends there, and counts size().         *)
(* A sample on the wire is a set of cells, one per value, each with its    *)
(* offset, its kind and the value, and the offset after the last one.      *)
(***************************************************************************)
EXTENDS Integers, Sequences, FiniteSets, SequencesExt

\* "XCDRv1" is what DEFAULT_DATA_REPRESENTATION stands for and no program of
\* the repository sets another; the generated code also serves "XCDRv2".
Representations == {"XCDRv1", "XCDRv2"}

Encapsulation == 4

Width == [octet |-> 1, ushort |-> 2, ulong |-> 4, ulonglong |-> 8,
          string |-> 4, string256 |-> 4, octets |-> 4]

Padding(at, boundary) == (boundary - (at % boundary)) % boundary

\* XCDRv2 aligns eight byte values to four.
Begin(at, kind, cdr) ==
    at + Padding(at, IF cdr = "XCDRv2" /\ Width[kind] = 8 THEN 4 ELSE Width[kind])

\* A string or a sequence is its length, then its bytes; a string ends in NUL.
End(at, kind, value, cdr) ==
    Begin(at, kind, cdr) + Width[kind]
        + (CASE kind \in {"string", "string256"} -> value + 1
             [] kind = "octets" -> value
             [] OTHER -> 0)

\* XCDRv2 puts the size of the structure in front of it.
Delimiter(cdr) == IF cdr = "XCDRv2" THEN 4 ELSE 0

\* What is left of a value in the room its kind has: a fixed_string<256>
\* keeps 256 characters.
Stored(kind, value) == IF kind = "string256" /\ value > 256 THEN 256 ELSE value

\* The value of a member of an object nobody has set; also what a moved
\* string or sequence leaves behind.
Default(kind) == 0

Movable(kind) == kind \in {"string", "string256", "octets"}

-----------------------------------------------------------------------------
(* The three walks over a list of members.  class gives each its kind.     *)

\* CdrSizeCalculator over the members in order.
Size(class, order, data, cdr) ==
    FoldLeft(LAMBDA at, m : End(at, class[m], data[m], cdr), Delimiter(cdr), order)

\* Cdr::operator<< over the members in order.
Stream(class, order, data, cdr) ==
    FoldLeft(LAMBDA s, m :
                 [end |-> End(s.end, class[m], data[m], cdr),
                  cells |-> s.cells \cup {[at |-> Begin(s.end, class[m], cdr),
                                           kind |-> class[m], value |-> data[m]]}],
             [end |-> Delimiter(cdr), cells |-> {}], order)

\* Cdr::operator>> into the members in order; what does not find a value of
\* its kind at its place throws.  A walk driven by member ids (fastcdr 2)
\* ends early, without throwing, where the delimited structure ends.
Parse(class, order, stream, cdr, object) ==
    FoldLeft(LAMBDA r, m :
                 LET here == {c \in stream.cells :
                                 /\ c.at = Begin(r.at, class[m], cdr)
                                 /\ c.kind = class[m]}
                     c == CHOOSE c \in here : TRUE
                 IN  IF ~r.ok \/ (cdr = "XCDRv2" /\ r.at = stream.end) THEN r
                     ELSE IF here = {} THEN [r EXCEPT !.ok = FALSE]
                     ELSE [ok |-> TRUE,
                           at |-> End(r.at, class[m], c.value, cdr),
                           object |-> [r.object EXCEPT ![m] = c.value]],
             [ok |-> TRUE, at |-> Delimiter(cdr), object |-> object], order)

-----------------------------------------------------------------------------
(* The bytes of a key, big endian.                                         *)

Bytes(kind, value) ==
    CASE kind = "octet" -> <<value>>
      [] kind = "ushort" -> <<value \div 256, value % 256>>

KeyBytes(class, order, data) ==
    FoldLeft(LAMBDA s, m : s \o Bytes(class[m], data[m]), <<>>, order)

-----------------------------------------------------------------------------
(* The pool an entry of a history comes from: HISTORY_POLICY               *)
(* PREALLOCATED_WITH_REALLOC, the default, hands out entries of the size   *)
(* of the type and grows one that is too small; DYNAMIC_RESERVE allocates  *)
(* just what is asked for.                                                 *)

EntrySize(policy, typeSize, reserved) ==
    IF policy = "dynamic" \/ reserved > typeSize THEN reserved ELSE typeSize
=============================================================================
