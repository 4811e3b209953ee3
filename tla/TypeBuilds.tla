----------------------------- MODULE TypeBuilds -----------------------------
(***************************************************************************)
(* The shape of what fastddsgen generates for one structure.               *)
(***************************************************************************)
EXTENDS Cdr

\* What the constructor of a PubSubType sets: the room a sample takes at
\* most, padded for a submessage, and the length of the key buffer.
\* The variant forgets padding and encapsulation; see TerminateWait for the
\* definitions whose name ends in _bug.
TypeSupport_bug(name, maxCdr, maxKey, getKeyDefined) ==
    [name |-> name,
     typeSize |-> maxCdr,
     maxKey |-> maxKey,
     keyLength |-> IF maxKey > 16 THEN maxKey ELSE 16,
     getKeyDefined |-> getKeyDefined]

TypeSupport(name, maxCdr, maxKey, getKeyDefined) ==
    [name |-> name,
     typeSize |-> maxCdr + Padding(maxCdr, 4) + Encapsulation,
     maxKey |-> maxKey,
     keyLength |-> IF maxKey > 16 THEN maxKey ELSE 16,
     getKeyDefined |-> getKeyDefined]

\* One compilation of the class: the kind of each member, the members its
\* copies, moves and comparisons go over, those that have accessors, and the
\* lists of its CDR functions.
Build(class, copied, set, cdr) ==
    [class |-> class, copied |-> copied, set |-> set, cdr |-> cdr]

Type(support, bounded, builds) ==
    [support |-> support, bounded |-> bounded, builds |-> builds]
=============================================================================
