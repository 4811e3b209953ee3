----------------------------- MODULE FoldProofs -----------------------------
(***************************************************************************)
(* Proofs about the two parts that go over a list and keep what they have: *)
(* SampleExchange, whose generated code walks over the members of a class, *)
(* and DiscoveryStart, whose main() walks over the options of a line.      *)
(*                                                                         *)
(* The walks are folds, which the provers do not know.  They are written   *)
(* out as functions on sets of positions, shown to exist, and read as a    *)
(* walk: what there is after each member or option.                        *)
(*                                                                         *)
(* Of samples, for all ten generated types: no write is refused, what is   *)
(* taken is what was meant, samples fit the size of their type, and        *)
(* instances are keys.  Offsets only grow, so a reader that goes over the  *)
(* same list finds each value at its own offset.  The types enter as       *)
(* lists, read off the tables of DataDefine and ExampleTypes, one lemma    *)
(* each.                                                                   *)
(*                                                                         *)
(* Of command lines: a client is linked to the server its line asks for.   *)
(* A field holds what the last option for it said, so the configuration    *)
(* of a line is read off its words.                                        *)
(***************************************************************************)
EXTENDS SampleExchange, DiscoveryStart, WellFoundedInduction, TLAPS

-----------------------------------------------------------------------------
(* Numbers, maxima and folds.                                              *)

(* What holds of 0, and of n + 1 once it holds of n, holds of every number. *)
(* The induction of the library takes an operator; a set of numbers needs   *)
(* only that the order of the natural numbers is well founded.              *)
LEMMA Induct ==
  ASSUME NEW T, 0 \in T, \A n \in Nat : n \in T => n + 1 \in T
  PROVE  Nat \subseteq T
<1> DEFINE B == Nat \ T
<1> SUFFICES ASSUME B # {} PROVE FALSE
  OBVIOUS
<1>1. PICK x \in B : \A y \in B : ~ (<<y, x>> \in OpToRel(<, Nat))
  BY WFMin, NatLessThanWellFounded
<1>2. x # 0 /\ x \in Nat
  OBVIOUS
<1>3. x - 1 \in Nat /\ (x - 1) + 1 = x
  BY <1>2
<1>4. x - 1 \in T
  <2>1. <<x - 1, x>> \in OpToRel(<, Nat)
    BY <1>2, <1>3 DEF OpToRel
  <2> QED
    BY <1>1, <1>3, <2>1
<1> QED
  BY <1>3, <1>4

\* Max is a member of its set and above the others.
LEMMA MaxOfSome ==
  ASSUME NEW n \in Nat, NEW s \in SUBSET (1 .. n), s # {}
  PROVE  Max(s) \in s /\ \A y \in s : Max(s) >= y
<1> DEFINE T == {m \in Nat : \A u \in SUBSET (1 .. m) :
                    u # {} => \E x \in u : \A y \in u : x >= y}
<1>1. 0 \in T
  <2>1. 1 .. 0 = {}
    OBVIOUS
  <2> QED
    BY <2>1
<1>2. ASSUME NEW m \in Nat, m \in T PROVE m + 1 \in T
  <2> SUFFICES ASSUME NEW u \in SUBSET (1 .. m + 1), u # {}
               PROVE  \E x \in u : \A y \in u : x >= y
    OBVIOUS
  <2>1. CASE m + 1 \in u
    BY <2>1
  <2>2. CASE m + 1 \notin u
    <3>1. u \in SUBSET (1 .. m)
      BY <2>2
    <3> QED
      BY <1>2, <3>1
  <2> QED
    BY <2>1, <2>2
<1> HIDE DEF T
<1>3. n \in T
  BY <1>1, <1>2, Induct
<1>4. \E x \in s : \A y \in s : x >= y
  BY <1>3 DEF T
<1> QED
  BY <1>4 DEF Max

\* Of an interval from 1 it is the end.
LEMMA MaxOfInterval == ASSUME NEW n \in Nat, n > 0 PROVE Max(1 .. n) = n
BY DEF Max

(* f is what MapThenFoldSet builds: for every set of positions, the result  *)
(* of g on the last of them and on what the others give.                    *)
IsFold(f, D, base, n, g) ==
  /\ f \in [SUBSET (1 .. n) -> D]
  /\ f[{}] = base
  /\ \A s \in SUBSET (1 .. n) : s # {} => f[s] = g[<<f[s \ {Max(s)}], Max(s)>>]

\* There is such a function, so the CHOOSE of the fold is one.
LEMMA FoldExists ==
  ASSUME NEW D, NEW base \in D, NEW n \in Nat, NEW g \in [D \X (1 .. n) -> D]
  PROVE  \E f : IsFold(f, D, base, n, g)
<1> DEFINE Next(f, s) == IF s = {} THEN base ELSE g[<<f[s \ {Max(s)}], Max(s)>>]
           Fold(m, f) == \A s \in SUBSET (1 .. m) : f[s] = Next(f, s)
           P(m) == m <= n => \E f \in [SUBSET (1 .. m) -> D] : Fold(m, f)
           T == {m \in Nat : P(m)}
<1>1. P(0)
  <2>1. [s \in SUBSET (1 .. 0) |-> base] \in [SUBSET (1 .. 0) -> D]
    OBVIOUS
  <2>2. \A s \in SUBSET (1 .. 0) : s = {}
    OBVIOUS
  <2> QED
    BY <2>1, <2>2
<1>2. ASSUME NEW m \in Nat, P(m) PROVE P(m + 1)
  <2> SUFFICES ASSUME m + 1
      <= n PROVE \E f \in [SUBSET (1 .. m + 1) -> D] : Fold(m + 1, f)
    OBVIOUS
  <2>0. m <= n
    OBVIOUS
  <2>1. PICK f \in [SUBSET (1 .. m) -> D] : Fold(m, f)
    BY <1>2, <2>0, Zenon
  <2> DEFINE Added(s) == IF m + 1 \in s THEN g[<<f[s \ {m + 1}], m + 1>>] ELSE f[s]
             h == [s \in SUBSET (1 .. m + 1) |-> Added(s)]
  <2>2. ASSUME NEW s \in SUBSET (1 .. m + 1), m + 1 \notin s
        PROVE  s \in SUBSET (1 .. m) /\ h[s] = f[s]
    BY <2>2
  <2>3. ASSUME NEW s \in SUBSET (1 .. m + 1), m + 1 \in s
        PROVE  /\ s \ {m + 1} \in SUBSET (1 .. m) /\ Max(s) = m + 1
               /\ h[s] = g[<<f[s \ {m + 1}], m + 1>>]
    <3>0. m + 1 \in Nat /\ s # {}
      BY <2>3
    <3>1. Max(s) \in s /\ Max(s) >= m + 1
      BY <2>3, <3>0, MaxOfSome
    <3>2. Max(s) = m + 1
      <4>1. Max(s) \in 1 .. m + 1
        BY <2>3, <3>1
      <4> QED
        BY <3>1, <4>1
    <3> QED
      BY <2>3, <3>2
  <2>4. h \in [SUBSET (1 .. m + 1) -> D]
    <3> SUFFICES ASSUME NEW s \in SUBSET (1 .. m + 1) PROVE Added(s) \in D
      OBVIOUS
    <3>1. CASE m + 1 \in s
      BY <2>3, <3>1
    <3>2. CASE m + 1 \notin s
      BY <2>2, <3>2
    <3> QED
      BY <3>1, <3>2
  <2> HIDE DEF h
  <2>5. ASSUME NEW s \in SUBSET (1 .. m + 1) PROVE h[s] = Next(h, s)
    <3>1. CASE s = {}
      BY <2>1, <2>2, <3>1
    <3>2. CASE s # {} /\ m + 1 \notin s
      <4>1. s \in SUBSET (1 .. m) /\ h[s] = f[s]
        BY <2>2, <3>2
      <4>2. Max(s) \in s
        BY <3>2, <4>1, MaxOfSome
      <4>3. h[s \ {Max(s)}] = f[s \ {Max(s)}]
        BY <2>2, <3>2, <4>1
      <4>4. f[s] = g[<<f[s \ {Max(s)}], Max(s)>>]
        BY <2>1, <3>2, <4>1
      <4> QED
        BY <3>2, <4>1, <4>3, <4>4
    <3>3. CASE m + 1 \in s
      <4>1. /\ s \ {m + 1} \in SUBSET (1 .. m) /\ Max(s) = m + 1
            /\ h[s] = g[<<f[s \ {m + 1}], m + 1>>]
        BY <2>3, <3>3
      <4>2. h[s \ {m + 1}] = f[s \ {m + 1}]
        BY <2>2, <4>1
      <4> QED
        BY <3>3, <4>1, <4>2
    <3> QED
      BY <3>1, <3>2, <3>3
  <2> QED
    BY <2>4, <2>5
<1> HIDE DEF P
<1>3. P(n)
  <2> HIDE DEF T
  <2>1. 0 \in T /\ \A m \in Nat : m \in T => m + 1 \in T
    BY <1>1, <1>2 DEF T
  <2> QED
    BY <2>1, Induct DEF T
<1>4. PICK f \in [SUBSET (1 .. n) -> D] : Fold(n, f)
  <2>1. n <= n
    OBVIOUS
  <2> QED
    BY <1>3, <2>1, Zenon DEF P
<1>5. \A s \in SUBSET (1 .. n) : s # {} => f[s] = g[<<f[s \ {Max(s)}], Max(s)>>]
  BY <1>4
<1>6. f[{}] = base
  BY <1>4
<1> QED
  BY <1>5, <1>6 DEF IsFold

\* A value begins at or after the offset the walk has reached,
LEMMA BeginIsNat ==
  ASSUME NEW at \in Nat, NEW kind \in DOMAIN Width, NEW rep
  PROVE  Begin(at, kind, rep) \in Nat /\ Begin(at, kind, rep) >= at
<1>1. Width[kind] \in {1, 2, 4, 8}
  BY DEF Width
<1>2. ASSUME NEW b \in {1, 2, 4, 8} PROVE Padding(at, b) \in Nat
  BY <1>2 DEF Padding
<1>3. Begin(at, kind, rep) = at + Padding(at, IF rep = "XCDRv2" /\ Width[kind] = 8 THEN 4 ELSE Width[kind])
  BY DEF Begin
<1>4. (IF rep = "XCDRv2" /\ Width[kind] = 8 THEN 4 ELSE Width[kind]) \in {1, 2, 4, 8}
  BY <1>1
<1>5. Padding(at, IF rep = "XCDRv2" /\ Width[kind] = 8 THEN 4 ELSE Width[kind]) \in Nat
  BY <1>2, <1>4
<1> QED
  BY <1>3, <1>5

\* and it ends after it begins.
LEMMA EndIsNat ==
  ASSUME NEW at \in Nat, NEW kind \in DOMAIN Width, NEW value \in Nat, NEW rep
  PROVE  End(at, kind, value, rep) \in Nat /\ End(at, kind, value, rep) > Begin(at, kind, rep)
<1>1. Width[kind] \in Nat \ {0}
  BY DEF Width
<1>2. Begin(at, kind, rep) \in Nat
  BY BeginIsNat
<1>3. (CASE kind \in {"string", "string256"} -> value + 1
             [] kind = "octets" -> value
             [] OTHER -> 0) \in Nat
  OBVIOUS
<1> QED
  BY <1>1, <1>2, <1>3 DEF End

\* calculate_serialized_size, with the folds of the library written out.
SizeFold(class, order, d, rep) ==
  CHOOSE iter : iter = [s \in SUBSET DOMAIN order |->
                 IF s = {} THEN Delimiter(rep)
                 ELSE End(iter[s \ {Max(s)}], class[order[Max(s)]],
                     d[order[Max(s)]], rep)]

\* It is what Size says.
LEMMA SizeUnfolds ==
  ASSUME NEW class, NEW order, NEW d, NEW rep
  PROVE  Size(class, order, d, rep) = SizeFold(class, order, d, rep)[DOMAIN order]
BY DEF Size, FoldLeft, MapThenFoldSet, SizeFold

\* serialize in the same form,
StreamFold(class, order, d, rep) ==
  CHOOSE iter : iter = [s \in SUBSET DOMAIN order |->
                 IF s = {} THEN [end |-> Delimiter(rep), cells |-> {}]
                 ELSE [end |-> End(iter[s \ {Max(s)}].end, class[order[Max(s)]],
                     d[order[Max(s)]], rep),
                       cells |-> iter[s \ {Max(s)}].cells \cup 
                                  {[at |-> Begin(iter[s \ {Max(s)}].end,
                                      class[order[Max(s)]], rep),
                                    kind |-> class[order[Max(s)]],
                                    value |-> d[order[Max(s)]]]}]]

\* which is what Stream says.
LEMMA StreamUnfolds ==
  ASSUME NEW class, NEW order, NEW d, NEW rep
  PROVE  Stream(class, order, d, rep) = StreamFold(class, order,
         d, rep)[DOMAIN order]
BY DEF Stream, FoldLeft, MapThenFoldSet, StreamFold

\* deserialize: the cells that hold a value where the walk is,
Here(class, order, stream, rep, r, i) ==
  {c \in stream.cells : c.at = Begin(r.at, class[order[i]], rep) /\ c.kind = class[order[i]]}

\* its step over one member,
Parsed(class, order, stream, rep, r, i) ==
  LET here == Here(class, order, stream, rep, r, i)
      c == CHOOSE c \in here : TRUE
  IN  IF ~r.ok \/ (rep = "XCDRv2" /\ r.at = stream.end) THEN r
      ELSE IF here = {} THEN [r EXCEPT !.ok = FALSE]
      ELSE [ok |-> TRUE,
            at |-> End(r.at, class[order[i]], c.value, rep),
            object |-> [r.object EXCEPT ![order[i]] = c.value]]

\* and the whole walk.
ParseFold(class, order, stream, rep, object) ==
  CHOOSE iter : iter = [s \in SUBSET DOMAIN order |->
                 IF s = {} THEN [ok |-> TRUE, at |-> Delimiter(rep), object |-> object]
                 ELSE Parsed(class, order, stream, rep, iter[s \ {Max(s)}], Max(s))]

\* It is what Parse says.
LEMMA ParseUnfolds ==
  ASSUME NEW class, NEW order, NEW stream, NEW object, NEW rep
  PROVE  Parse(class, order, stream, rep, object) = ParseFold(class, order, stream,
         rep, object)[DOMAIN order]
BY DEF Parse, FoldLeft, MapThenFoldSet, ParseFold, Parsed, Here

\* A list of members of a class, and an object of that class.
Listed(class, order, d) ==
  /\ order \in Seq(DOMAIN class)
  /\ class \in [DOMAIN class -> DOMAIN Width]
  /\ d \in [DOMAIN class -> Nat]

\* r[k] is the offset at which a walk stands after k members.
Walks(r, class, order, d, rep) ==
  /\ r \in [0 .. Len(order) -> Nat]
  /\ r[0] = Delimiter(rep)
  /\ \A k \in 1 .. Len(order) :
        r[k] = End(r[k - 1], class[order[k]], d[order[k]], rep)

\* The positions 1 .. k, without the last, are 1 .. k - 1.
LEMMA Steps ==
  ASSUME NEW n \in Nat, NEW k \in 1 .. n
  PROVE  /\ 1 .. k \in SUBSET (1 .. n) /\ 1 .. k # {} /\ Max(1 .. k) = k
         /\ (1 .. k) \ {Max(1 .. k)} = 1 .. (k - 1)
         /\ k - 1 \in 0 .. n
BY MaxOfInterval

\* What a list of members holds at one of its places.
LEMMA ListedAt ==
  ASSUME NEW class, NEW order, NEW d, Listed(class, order, d),
         NEW k \in 1 .. Len(order)
  PROVE  /\ order[k] \in DOMAIN class
         /\ class[order[k]] \in DOMAIN Width
         /\ d[order[k]] \in Nat
BY DEF Listed

\* There is one walk over a list.
LEMMA WalkIsOne ==
  ASSUME NEW class, NEW order, NEW d, NEW rep, Listed(class, order, d),
         NEW r, Walks(r, class, order, d, rep),
         NEW q, Walks(q, class, order, d, rep)
  PROVE  r = q
<1> DEFINE n == Len(order)
           T == {k \in Nat : k <= n => r[k] = q[k]}
<1>0. n \in Nat
  BY DEF Listed
<1>1. 0 \in T
  BY DEF Walks
<1>2. ASSUME NEW k \in Nat, k \in T PROVE k + 1 \in T
  <2> SUFFICES ASSUME k + 1 <= n PROVE r[k + 1] = q[k + 1]
    OBVIOUS
  <2>1. k + 1 \in 1 .. n /\ (k + 1) - 1 = k /\ k <= n
    BY <1>0
  <2>2. r[k] = q[k]
    BY <1>2, <2>1
  <2> QED
    BY <2>1, <2>2 DEF Walks
<1> HIDE DEF T
<1>3. \A k \in Nat : k \in T
  BY <1>1, <1>2, Induct
<1>4. \A k \in 0 .. n : r[k] = q[k]
  BY <1>0, <1>3 DEF T
<1> QED
  BY <1>4 DEF Walks

\* calculate_serialized_size answers where that walk ends.
LEMMA SizeWalk ==
  ASSUME NEW class, NEW order, NEW d, NEW rep, Listed(class, order, d)
  PROVE  \E r : /\ Walks(r, class, order, d, rep)
                /\ Size(class, order, d, rep) = r[Len(order)]
<1> DEFINE n == Len(order)
           body(iter, s) ==
             IF s = {} THEN Delimiter(rep)
             ELSE End(iter[s \ {Max(s)}], class[order[Max(s)]], d[order[Max(s)]],
                 rep)
           g == [p \in Nat \X (1 .. n) |-> End(p[1], class[order[p[2]]],
               d[order[p[2]]], rep)]
           f == SizeFold(class, order, d, rep)
<1>0. n \in Nat /\ DOMAIN order = 1 .. n /\ Delimiter(rep) \in Nat
  BY DEF Listed, Delimiter
<1>1. g \in [Nat \X (1 .. n) -> Nat]
  BY ListedAt, EndIsNat
<1>2. \E h : h = [s \in SUBSET DOMAIN order |-> body(h, s)]
  <2> HIDE DEF g
  <2>1. PICK h : IsFold(h, Nat, Delimiter(rep), n, g)
    BY <1>0, <1>1, FoldExists, Zenon
  <2>2. ASSUME NEW s \in SUBSET (1 .. n) PROVE h[s] = body(h, s)
    <3>1. CASE s = {}
      BY <2>1, <3>1 DEF IsFold
    <3>2. CASE s # {}
      <4>1. Max(s) \in 1 .. n
        BY <1>0, <3>2, MaxOfSome
      <4>2. s \ {Max(s)} \in SUBSET (1 .. n)
        OBVIOUS
      <4>3. h[s \ {Max(s)}] \in Nat /\ h[s] = g[<<h[s \ {Max(s)}], Max(s)>>]
        BY <2>1, <3>2, <4>2 DEF IsFold
      <4> QED
        BY <3>2, <4>1, <4>3 DEF g
    <3> QED
      BY <3>1, <3>2
  <2>4. h = [s \in SUBSET (1 .. n) |-> h[s]]
    BY <2>1 DEF IsFold
  <2>3. h = [s \in SUBSET (1 .. n) |-> body(h, s)]
    BY <2>2, <2>4
  <2> QED
    BY <1>0, <2>3
<1>3. f = [s \in SUBSET DOMAIN order |-> body(f, s)]
  BY <1>2 DEF SizeFold
<1> HIDE DEF f
<1> DEFINE r == [k \in 0 .. n |-> f[1 .. k]]
<1>4. r[0] = Delimiter(rep)
  <2>1. 1 .. 0 = {} /\ 0 \in 0 .. n
    BY <1>0
  <2>2. {} \in SUBSET DOMAIN order
    OBVIOUS
  <2>3. f[{}] = Delimiter(rep)
    BY <1>3, <2>2
  <2> QED
    BY <2>1, <2>3
<1>5. ASSUME NEW k \in 1 .. n
      PROVE  r[k] = End(r[k - 1], class[order[k]], d[order[k]], rep)
  <2>1. f[1 .. k] = body(f, 1 .. k)
    BY <1>0, <1>3, Steps
  <2>2. body(f, 1 .. k) = End(f[1 .. (k - 1)], class[order[k]], d[order[k]], rep)
    BY <1>0, Steps
  <2>3. r[k] = f[1 .. k] /\ r[k - 1] = f[1 .. (k - 1)]
    BY <1>0, Steps
  <2> QED
    BY <2>1, <2>2, <2>3
<1> HIDE DEF r
<1>6. r \in [0 .. n -> Nat]
  <2> DEFINE T == {k \in Nat : k <= n => r[k] \in Nat}
  <2>1. 0 \in T
    BY <1>0, <1>4
  <2>2. ASSUME NEW k \in Nat, k \in T PROVE k + 1 \in T
    <3> SUFFICES ASSUME k + 1 <= n PROVE r[k + 1] \in Nat
      OBVIOUS
    <3>1. k + 1 \in 1 .. n /\ (k + 1) - 1 = k /\ k <= n
      BY <1>0
    <3>2. r[k] \in Nat
      BY <2>2, <3>1
    <3>3. r[k + 1] = End(r[k], class[order[k + 1]], d[order[k + 1]], rep)
      BY <1>5, <3>1
    <3> QED
      BY <3>1, <3>2, <3>3, ListedAt, EndIsNat
  <2> HIDE DEF T
  <2>3. \A k \in Nat : k \in T
    BY <2>1, <2>2, Induct
  <2>4. \A k \in 0 .. n : r[k] \in Nat
    BY <1>0, <2>3 DEF T
  <2> QED
    BY <2>4 DEF r
<1>7. Walks(r, class, order, d, rep)
  BY <1>4, <1>5, <1>6 DEF Walks
<1>8. Size(class, order, d, rep) = r[n]
  BY <1>0, SizeUnfolds DEF f, r
<1> QED
  BY <1>7, <1>8

\* The cells a sample is made of.
Cell == [at : Nat, kind : DOMAIN Width, value : Nat]

\* The cell of the k-th member.
CellOf(r, class, order, d, rep, k) ==
  [at |-> Begin(r[k - 1], class[order[k]], rep),
   kind |-> class[order[k]], value |-> d[order[k]]]

\* serialize leaves one cell for each member, and ends where the walk ends.
LEMMA StreamWalk ==
  ASSUME NEW class, NEW order, NEW d, NEW rep, Listed(class, order, d)
  PROVE  \E r : /\ Walks(r, class, order, d, rep)
                /\ Stream(class, order, d, rep) =
                     [end |-> r[Len(order)],
                      cells |-> {CellOf(r, class, order,
                          d, rep, k) : k \in 1 .. Len(order)}]
<1> DEFINE n == Len(order)
           D == [end : Nat, cells : SUBSET Cell]
           begun == [end |-> Delimiter(rep), cells |-> {}]
           after(t, i) ==
             [end |-> End(t.end, class[order[i]], d[order[i]], rep),
              cells |-> t.cells \cup {[at |-> Begin(t.end, class[order[i]], rep),
                                       kind |-> class[order[i]],
                                           value |-> d[order[i]]]}]
           body(iter, s) == IF s = {} THEN begun ELSE after(iter[s \ {Max(s)}],
               Max(s))
           g == [p \in D \X (1 .. n) |-> after(p[1], p[2])]
           f == StreamFold(class, order, d, rep)
<1>0. n \in Nat /\ DOMAIN order = 1 .. n /\ Delimiter(rep) \in Nat
  BY DEF Listed, Delimiter
<1>a. begun \in D
  BY <1>0
<1>b. ASSUME NEW t \in D, NEW i \in 1 .. n PROVE after(t, i) \in D
  <2>1. t.end \in Nat /\ t.cells \in SUBSET Cell
    OBVIOUS
  <2>2. class[order[i]] \in DOMAIN Width /\ d[order[i]] \in Nat
    BY ListedAt
  <2>3. End(t.end, class[order[i]], d[order[i]], rep) \in Nat
    BY <2>1, <2>2, EndIsNat
  <2>4. Begin(t.end, class[order[i]], rep) \in Nat
    BY <2>1, <2>2, BeginIsNat
  <2>5. [at |-> Begin(t.end, class[order[i]], rep),
         kind |-> class[order[i]], value |-> d[order[i]]] \in Cell
    BY <2>2, <2>4 DEF Cell
  <2> QED
    BY <2>1, <2>3, <2>5
<1>c. StreamFold(class, order, d, rep) = 
         CHOOSE h : h = [s \in SUBSET DOMAIN order |-> body(h, s)]
  BY DEF StreamFold
<1> HIDE DEF D, begun, after
<1>1. g \in [D \X (1 .. n) -> D]
  BY <1>b
<1>2. \E h : h = [s \in SUBSET DOMAIN order |-> body(h, s)]
  <2> HIDE DEF g
  <2>1. PICK h : IsFold(h, D, begun, n, g)
    BY <1>0, <1>a, <1>1, FoldExists, Zenon
  <2>2. ASSUME NEW s \in SUBSET (1 .. n) PROVE h[s] = body(h, s)
    <3>1. CASE s = {}
      BY <2>1, <3>1 DEF IsFold
    <3>2. CASE s # {}
      <4>1. Max(s) \in 1 .. n
        BY <1>0, <3>2, MaxOfSome
      <4>2. s \ {Max(s)} \in SUBSET (1 .. n)
        OBVIOUS
      <4>3. h[s \ {Max(s)}] \in D /\ h[s] = g[<<h[s \ {Max(s)}], Max(s)>>]
        BY <2>1, <3>2, <4>2 DEF IsFold
      <4> QED
        BY <3>2, <4>1, <4>3 DEF g
    <3> QED
      BY <3>1, <3>2
  <2>4. h = [s \in SUBSET (1 .. n) |-> h[s]]
    BY <2>1 DEF IsFold
  <2>3. h = [s \in SUBSET (1 .. n) |-> body(h, s)]
    BY <2>2, <2>4
  <2> QED
    BY <1>0, <2>3
<1>3. f = [s \in SUBSET DOMAIN order |-> body(f, s)]
  BY <1>2, <1>c
<1> HIDE DEF f
<1>4. f[1 .. 0] = begun
  <2>1. 1 .. 0 = {}
    OBVIOUS
  <2> QED
    BY <1>3, <2>1
<1>5. ASSUME NEW k \in 1 .. n PROVE f[1 .. k] = after(f[1 .. (k - 1)], k)
  BY <1>0, <1>3, Steps
<1> DEFINE r == [k \in 0 .. n |-> f[1 .. k].end]
           cells(k) == {CellOf(r, class, order, d, rep, j) : j \in 1 .. k}
<1>6. \A k \in 0 .. n : f[1 .. k] \in D /\ f[1 .. k].cells = cells(k)
  <2> DEFINE T == {k \in Nat : k <= n => f[1 .. k] \in D /\ f[1 .. k].cells = cells(k)}
  <2>1. 0 \in T
    <3>1. cells(0) = {}
      OBVIOUS
    <3>2. begun.cells = {}
      BY DEF begun
    <3> HIDE DEF cells
    <3> QED
      BY <1>a, <1>4, <3>1, <3>2
  <2> HIDE DEF r, cells
  <2>2. ASSUME NEW k \in Nat, k \in T PROVE k + 1 \in T
    <3> SUFFICES ASSUME k + 1 <= n
                 PROVE  f[1 .. (k + 1)] \in D /\ f[1 .. (k + 1)].cells = cells(k + 1)
      OBVIOUS
    <3>1. k + 1 \in 1 .. n /\ (k + 1) - 1 = k /\ k <= n /\ k \in 0 .. n
      BY <1>0
    <3>2. f[1 .. k] \in D /\ f[1 .. k].cells = cells(k)
      BY <2>2, <3>1
    <3>3. f[1 .. (k + 1)] = after(f[1 .. k], k + 1)
      BY <1>5, <3>1
    <3>4. r[k] = f[1 .. k].end
      BY <3>1 DEF r
    <3>5. f[1 .. (k + 1)].cells =
             f[1 .. k].cells \cup {CellOf(r, class, order, d, rep, k + 1)}
      BY <3>1, <3>3, <3>4 DEF after, CellOf
    <3>6. cells(k + 1) = cells(k) \cup {CellOf(r, class, order, d, rep, k + 1)}
      <4>1. 1 .. (k + 1) = (1 .. k) \cup {k + 1}
        OBVIOUS
      <4> QED
        BY <4>1 DEF cells
    <3> QED
      BY <1>b, <3>1, <3>2, <3>3, <3>5, <3>6
  <2> HIDE DEF T
  <2>3. \A k \in Nat : k \in T
    BY <2>1, <2>2, Induct
  <2> QED
    BY <1>0, <2>3 DEF T
<1>7. r \in [0 .. n -> Nat]
  <2>1. \A t \in D : t.end \in Nat
    BY DEF D
  <2> QED
    BY <1>6, <2>1
<1>8. r[0] = Delimiter(rep)
  BY <1>0, <1>4 DEF begun
<1>9. ASSUME NEW k \in 1 .. n
      PROVE  r[k] = End(r[k - 1], class[order[k]], d[order[k]], rep)
  <2>1. r[k] = f[1 .. k].end /\ r[k - 1] = f[1 .. (k - 1)].end
    BY <1>0
  <2>2. f[1 .. k] = after(f[1 .. (k - 1)], k)
    BY <1>5
  <2>3. after(f[1 .. (k - 1)], k).end =
           End(f[1 .. (k - 1)].end, class[order[k]], d[order[k]], rep)
    BY DEF after
  <2> HIDE DEF r, after
  <2> QED
    BY <2>1, <2>2, <2>3
<1>10. Walks(r, class, order, d, rep)
  <2> HIDE DEF r
  <2> QED
    BY <1>7, <1>8, <1>9 DEF Walks
<1>11. Stream(class, order, d, rep) = [end |-> r[n], cells |-> cells(n)]
  <2>1. Stream(class, order, d, rep) = f[1 .. n]
    BY <1>0, StreamUnfolds DEF f
  <2>2. f[1 .. n] \in D /\ f[1 .. n].cells = cells(n) /\ f[1 .. n].end = r[n]
    BY <1>0, <1>6
  <2>3. \A t \in D : t = [end |-> t.end, cells |-> t.cells]
    BY DEF D
  <2> HIDE DEF r, cells
  <2> QED
    BY <2>1, <2>2, <2>3
<1> QED
  BY <1>10, <1>11

(* The list that calculates and the list that writes are the same, so are  *)
(* the sizes.                                                              *)
LEMMA StreamAsSize ==
  ASSUME NEW class, NEW order, NEW d, NEW rep, Listed(class, order, d)
  PROVE  /\ Stream(class, order, d, rep).end = Size(class, order, d, rep)
         /\ Size(class, order, d, rep) \in Nat
<1>1. PICK r : /\ Walks(r, class, order, d, rep)
               /\ Size(class, order, d, rep) = r[Len(order)]
  BY SizeWalk
<1>2. PICK q : /\ Walks(q, class, order, d, rep)
               /\ Stream(class, order, d, rep) =
                     [end |-> q[Len(order)],
                      cells |-> {CellOf(q, class, order,
                          d, rep, k) : k \in 1 .. Len(order)}]
  BY StreamWalk
<1>3. r = q
  BY <1>1, <1>2, WalkIsOne
<1>4. r[Len(order)] \in Nat
  BY <1>1 DEF Walks, Listed
<1> QED
  BY <1>1, <1>2, <1>3, <1>4

\* A walk only goes forward: every value takes a byte at least.
LEMMA WalkGrows ==
  ASSUME NEW class, NEW order, NEW d, NEW rep, Listed(class, order, d),
         NEW r, Walks(r, class, order, d, rep)
  PROVE  /\ \A k \in 1 .. Len(order) :
               LET begin == Begin(r[k - 1], class[order[k]], rep)
               IN  begin \in Nat /\ r[k - 1] <= begin /\ begin < r[k]
         /\ \A i, j \in 0 .. Len(order) : i < j => r[i] < r[j]
<1> DEFINE n == Len(order)
           T == {j \in Nat : \A i \in Nat : i < j /\ j <= n => r[i] < r[j]}
<1>0. n \in Nat /\ r \in [0 .. n -> Nat]
  BY DEF Listed, Walks
<1>1. ASSUME NEW k \in 1 .. n
      PROVE  LET begin == Begin(r[k - 1], class[order[k]], rep)
             IN  begin \in Nat /\ r[k - 1] <= begin /\ begin < r[k]
  <2>1. k - 1 \in 0 .. n /\ r[k - 1] \in Nat
    BY <1>0
  <2>2. class[order[k]] \in DOMAIN Width /\ d[order[k]] \in Nat
    BY ListedAt
  <2>3. r[k] = End(r[k - 1], class[order[k]], d[order[k]], rep)
    BY DEF Walks
  <2> QED
    BY <2>1, <2>2, <2>3, BeginIsNat, EndIsNat
<1>2. ASSUME NEW k \in 1 .. n PROVE r[k - 1] < r[k]
  BY <1>0, <1>1
<1>3. 0 \in T
  OBVIOUS
<1>4. ASSUME NEW j \in Nat, j \in T PROVE j + 1 \in T
  <2> SUFFICES ASSUME NEW i \in Nat, i < j + 1, j + 1 <= n PROVE r[i] < r[j + 1]
    OBVIOUS
  <2>1. r[j] < r[j + 1]
    BY <1>0, <1>2, j + 1 \in 1 .. n, (j + 1) - 1 = j
  <2>2. CASE i = j
    BY <2>1, <2>2
  <2>3. CASE i < j
    <3>1. r[i] < r[j]
      BY <1>0, <1>4, <2>3
    <3>2. r[i] \in Nat /\ r[j] \in Nat /\ r[j + 1] \in Nat
      BY <1>0
    <3> QED
      BY <2>1, <3>1, <3>2
  <2> QED
    BY <2>2, <2>3
<1> HIDE DEF T
<1>5. \A j \in Nat : j \in T
  BY <1>3, <1>4, Induct
<1>6. \A i, j \in 0 .. n : i < j => r[i] < r[j]
  BY <1>0, <1>5 DEF T
<1> QED
  BY <1>1, <1>6

\* No two members have their cells at one offset.
LEMMA CellsApart ==
  ASSUME NEW class, NEW order, NEW d, NEW rep, Listed(class, order, d),
         NEW r, Walks(r, class, order, d, rep)
  PROVE  \A j, k \in 1 .. Len(order) :
            CellOf(r, class, order, d, rep, j).at = CellOf(r, class, order,
                d, rep, k).at
            => j = k
<1> TAKE j, k \in 1 .. Len(order)
<1> HAVE CellOf(r, class, order, d, rep, j).at = CellOf(r, class, order,
    d, rep, k).at
<1> DEFINE n == Len(order)
           begin(i) == Begin(r[i - 1], class[order[i]], rep)
<1>0. n \in Nat /\ r \in [0 .. n -> Nat]
  BY DEF Listed, Walks
<1>1. \A i \in 1 .. n : begin(i) \in Nat /\ r[i - 1] <= begin(i) /\ begin(i) < r[i]
  BY WalkGrows
<1>2. \A i, h \in 0 .. n : i < h => r[i] < r[h]
  BY WalkGrows
<1> HIDE DEF n, begin
<1>3. ASSUME NEW i \in 1 .. n, NEW h \in 1 .. n, i < h PROVE begin(i) < begin(h)
  <2>1. i \in 0 .. n /\ h - 1 \in 0 .. n /\ (i = h - 1 \/ i < h - 1)
    BY <1>0, <1>3
  <2>a. r[i] \in Nat /\ r[h - 1] \in Nat
    BY <1>0, <2>1
  <2>2. r[i] <= r[h - 1]
    <3>1. CASE i = h - 1
      BY <2>a, <3>1
    <3>2. CASE i < h - 1
      BY <1>2, <2>1, <2>a, <3>2
    <3> QED
      BY <2>1, <3>1, <3>2
  <2>3. begin(i) \in Nat /\ begin(i) < r[i]
    BY <1>1
  <2>4. begin(h) \in Nat /\ r[h - 1] <= begin(h)
    BY <1>1
  <2> QED
    BY <2>a, <2>2, <2>3, <2>4
<1>4. begin(j) = begin(k)
  BY DEF begin, CellOf
<1>5. begin(j) \in Nat /\ j \in 1 .. n /\ k \in 1 .. n
  BY <1>1 DEF n
<1> QED
  BY <1>0, <1>3, <1>4, <1>5

(* deserialize over the list serialize went over finds every member again,  *)
(* whatever the object held before.                                         *)
LEMMA ParsedAsMeant ==
  ASSUME NEW class, NEW order, NEW d, NEW rep, Listed(class, order, d),
         \A m \in DOMAIN class : \E k \in 1 .. Len(order) : order[k] = m,
         NEW object \in [DOMAIN class -> Nat]
  PROVE  Parse(class, order, Stream(class, order, d, rep), rep, object).object = d
<1> DEFINE n == Len(order)
           stream == Stream(class, order, d, rep)
           D == [ok : BOOLEAN, at : Nat, object : [DOMAIN class -> Nat]]
           begun == [ok |-> TRUE, at |-> Delimiter(rep), object |-> object]
           after(t, i) == Parsed(class, order, stream, rep, t, i)
           body(iter, s) == IF s = {} THEN begun ELSE after(iter[s \ {Max(s)}],
               Max(s))
           g == [p \in D \X (1 .. n) |-> after(p[1], p[2])]
           f == ParseFold(class, order, stream, rep, object)
<1>0. n \in Nat /\ DOMAIN order = 1 .. n /\ Delimiter(rep) \in Nat
  BY DEF Listed, Delimiter
<1>r. PICK r : /\ Walks(r, class, order, d, rep)
               /\ stream = [end |-> r[n],
                            cells |-> {CellOf(r, class, order,
                                d, rep, k) : k \in 1 .. n}]
  BY StreamWalk
<1>t. r \in [0 .. n -> Nat] /\ r[0] = Delimiter(rep)
  BY <1>r DEF Walks
<1>s. stream.cells \in SUBSET Cell
  <2>1. ASSUME NEW k \in 1 .. n PROVE CellOf(r, class, order, d, rep, k) \in Cell
    <3>1. Begin(r[k - 1], class[order[k]], rep) \in Nat
      BY <1>r, WalkGrows
    <3> QED
      BY <3>1, ListedAt DEF CellOf, Cell
  <2> QED
    BY <1>r, <2>1
<1>a. begun \in D
  BY <1>0
<1> HIDE DEF stream
<1>b. ASSUME NEW t \in D, NEW i \in 1 .. n PROVE after(t, i) \in D
  <2> DEFINE here == Here(class, order, stream, rep, t, i)
             c == CHOOSE c \in here : TRUE
  <2>1. t \in D /\ t.at \in Nat /\ t.object \in [DOMAIN class -> Nat]
    OBVIOUS
  <2>2. order[i] \in DOMAIN class /\ class[order[i]] \in DOMAIN Width
    BY ListedAt
  <2>3. CASE here = {}
    <3>1. after(t, i) = t \/ after(t, i) = [t EXCEPT !.ok = FALSE]
      BY <2>3 DEF Parsed
    <3> QED
      BY <2>1, <3>1
  <2>4. CASE here # {}
    <3>1. c \in Cell
      BY <1>s, <2>4 DEF Here
    <3>2. c.value \in Nat
      BY <3>1 DEF Cell
    <3>3. End(t.at, class[order[i]], c.value, rep) \in Nat
      BY <2>1, <2>2, <3>2, EndIsNat
    <3>4. [t.object EXCEPT ![order[i]] = c.value] \in [DOMAIN class -> Nat]
      BY <2>1, <2>2, <3>2
    <3>5. \/ after(t, i) = t
          \/ after(t, i) = [ok |-> TRUE, at |-> End(t.at, class[order[i]], c.value,
              rep),
                            object |-> [t.object EXCEPT ![order[i]] = c.value]]
      BY <2>4 DEF Parsed
    <3>6. ASSUME NEW at \in Nat, NEW o \in [DOMAIN class -> Nat]
          PROVE  [ok |-> TRUE, at |-> at, object |-> o] \in D
      OBVIOUS
    <3>7. [ok |-> TRUE, at |-> End(t.at, class[order[i]], c.value, rep),
           object |-> [t.object EXCEPT ![order[i]] = c.value]] \in D
      BY <3>3, <3>4, <3>6, Zenon
    <3> HIDE DEF c, after, D
    <3> QED
      BY <2>1, <3>5, <3>7
  <2> QED
    BY <2>3, <2>4
<1>c. ParseFold(class, order, stream, rep, object) =
         CHOOSE h : h = [s \in SUBSET DOMAIN order |-> body(h, s)]
  BY DEF ParseFold
<1> HIDE DEF D, begun, after
<1>1. g \in [D \X (1 .. n) -> D]
  BY <1>b
<1>2. \E h : h = [s \in SUBSET DOMAIN order |-> body(h, s)]
  <2> HIDE DEF g
  <2>1. PICK h : IsFold(h, D, begun, n, g)
    BY <1>0, <1>a, <1>1, FoldExists, Zenon
  <2>2. ASSUME NEW s \in SUBSET (1 .. n) PROVE h[s] = body(h, s)
    <3>1. CASE s = {}
      BY <2>1, <3>1 DEF IsFold
    <3>2. CASE s # {}
      <4>1. Max(s) \in 1 .. n
        BY <1>0, <3>2, MaxOfSome
      <4>2. s \ {Max(s)} \in SUBSET (1 .. n)
        OBVIOUS
      <4>3. h[s \ {Max(s)}] \in D /\ h[s] = g[<<h[s \ {Max(s)}], Max(s)>>]
        BY <2>1, <3>2, <4>2 DEF IsFold
      <4> QED
        BY <3>2, <4>1, <4>3 DEF g
    <3> QED
      BY <3>1, <3>2
  <2>4. h = [s \in SUBSET (1 .. n) |-> h[s]]
    BY <2>1 DEF IsFold
  <2>3. h = [s \in SUBSET (1 .. n) |-> body(h, s)]
    BY <2>2, <2>4
  <2> QED
    BY <1>0, <2>3
<1>3. f = [s \in SUBSET DOMAIN order |-> body(f, s)]
  BY <1>2, <1>c
<1> HIDE DEF f
<1>4. f[1 .. 0] = begun
  <2>1. 1 .. 0 = {}
    OBVIOUS
  <2> QED
    BY <1>3, <2>1
<1>5. ASSUME NEW k \in 1 .. n PROVE f[1 .. k] = after(f[1 .. (k - 1)], k)
  BY <1>0, <1>3, Steps
<1> DEFINE good(k) ==
             /\ f[1 .. k] \in D
             /\ f[1 .. k].ok
             /\ f[1 .. k].at = r[k]
             /\ \A j \in 1 .. k : f[1 .. k].object[order[j]] = d[order[j]]
           T == {k \in Nat : k <= n => good(k)}
<1>6. 0 \in T
  <2>1. good(0)
    BY <1>4, <1>a, <1>t DEF begun
  <2> QED
    BY <2>1
<1>7. ASSUME NEW k \in Nat, k \in T PROVE k + 1 \in T
  <2> HIDE DEF good
  <2> SUFFICES ASSUME k + 1 <= n PROVE good(k + 1)
    OBVIOUS
  <2>1. k + 1 \in 1 .. n /\ (k + 1) - 1 = k /\ k <= n /\ k \in 0 .. n
    BY <1>0
  <2>2. good(k)
    BY <1>7, <2>1
  <2> DEFINE t == f[1 .. k]
             here == Here(class, order, stream, rep, t, k + 1)
             c == CHOOSE c \in here : TRUE
             own == CellOf(r, class, order, d, rep, k + 1)
  <2>3. t \in D /\ t.ok /\ t.at = r[k]
        /\ \A j \in 1 .. k : t.object[order[j]] = d[order[j]]
    BY <2>2 DEF good
  <2>4. f[1 .. (k + 1)] = after(t, k + 1)
    BY <1>5, <2>1
  <2> HIDE DEF t
  <2>5. here = {own}
    <3>1. own \in stream.cells
      BY <1>r, <2>1
    <3>2. own.at = Begin(r[k], class[order[k + 1]], rep) /\ own.kind = class[order[k + 1]]
      BY <2>1 DEF CellOf
    <3>3. own \in here
      BY <2>3, <3>1, <3>2 DEF Here
    <3>4. ASSUME NEW x \in here PROVE x = own
      <4>1. PICK j \in 1 .. n : x = CellOf(r, class, order, d, rep, j)
        BY <1>r DEF Here
      <4>0. own.at = x.at
        BY <2>3, <3>2 DEF Here
      <4>2. CellOf(r, class, order, d, rep, j).at
              = CellOf(r, class, order, d, rep, k + 1).at
        BY <4>0, <4>1
      <4>3. j \in 1 .. Len(order) /\ k + 1 \in 1 .. Len(order)
        BY <2>1
      <4>4. Walks(r, class, order, d, rep)
        BY <1>r
      <4>5. j = k + 1
        <5>1. \A a, b \in 1 .. Len(order) :
                 CellOf(r, class, order, d, rep, a).at = CellOf(r, class, order,
                     d, rep, b).at
                 => a = b
          BY <4>4, CellsApart
        <5> HIDE DEF n, here
        <5> QED
          BY <4>2, <4>3, <5>1, Zenon
      <4> QED
        BY <4>1, <4>5
    <3> HIDE DEF here, own
    <3> QED
      BY <3>3, <3>4
  <2>6. c = own
    BY <2>5
  <2>7. c.value = d[order[k + 1]]
    <3>1. own.value = d[order[k + 1]]
      BY DEF CellOf
    <3> QED
      BY <2>6, <3>1
  <2>8. stream.end # r[k]
    <3>1. r[k] < r[n]
      <4>1. \A i, j \in 0 .. n : i < j => r[i] < r[j]
        BY <1>r, WalkGrows
      <4> QED
        BY <1>0, <2>1, <4>1
    <3>2. stream.end = r[n]
      BY <1>r
    <3> QED
      BY <1>0, <1>t, <2>1, <3>1, <3>2
  <2>9. after(t, k + 1) =
          [ok |-> TRUE, at |-> End(t.at, class[order[k + 1]], c.value, rep),
           object |-> [t.object EXCEPT ![order[k + 1]] = c.value]]
    BY <2>3, <2>5, <2>8 DEF after, Parsed
  <2> HIDE DEF c
  <2>10. r[k + 1] = End(r[k], class[order[k + 1]], d[order[k + 1]], rep)
    BY <1>r, <2>1 DEF Walks
  <2>11. after(t, k + 1) \in D
    <3> HIDE DEF t
    <3> QED
      BY <1>b, <2>1, <2>3 DEF after
  <2>12. t.object \in [DOMAIN class -> Nat] /\ order[k + 1] \in DOMAIN class
    BY <2>1, <2>3, ListedAt DEF D
  <2>13. f[1 .. (k + 1)].object = [t.object EXCEPT ![order[k + 1]] = d[order[k + 1]]]
    BY <2>4, <2>7, <2>9
  <2>14. ASSUME NEW j \in 1 .. (k + 1)
         PROVE  f[1 .. (k + 1)].object[order[j]] = d[order[j]]
    <3>1. order[j] \in DOMAIN class
      <4>1. j \in 1 .. n
        BY <1>0, <2>1
      <4> QED
        BY <4>1, ListedAt
    <3>2. CASE order[j] = order[k + 1]
      BY <2>12, <2>13, <3>2
    <3>3. CASE order[j] # order[k + 1]
      <4>1. j \in 1 .. k
        BY <3>3
      <4> QED
        BY <2>3, <2>12, <2>13, <3>1, <3>3, <4>1
    <3> QED
      BY <3>2, <3>3
  <2>15. f[1 .. (k + 1)].ok /\ f[1 .. (k + 1)].at = r[k + 1]
    BY <2>3, <2>4, <2>7, <2>9, <2>10
  <2> QED
    BY <2>4, <2>11, <2>14, <2>15 DEF good
<1> HIDE DEF T
<1>8. good(n)
  <2>1. n \in T
    BY <1>0, <1>6, <1>7, Induct
  <2> HIDE DEF good
  <2> QED
    BY <1>0, <2>1 DEF T
<1>9. f[1 .. n].object \in [DOMAIN class -> Nat] /\ d \in [DOMAIN class -> Nat]
  BY <1>8 DEF D, Listed
<1>10. \A m \in DOMAIN class : f[1 .. n].object[m] = d[m]
  BY <1>8
<1>11. f[1 .. n].object = d
  BY <1>9, <1>10
<1>12. Parse(class, order, stream, rep, object) = f[1 .. n]
  BY <1>0, ParseUnfolds DEF f
<1> QED
  BY <1>11, <1>12 DEF stream

-----------------------------------------------------------------------------
(* The tables of the generated code.                                       *)

\* A list that leaves out no member of the class.
Covers(class, order) ==
  /\ order \in Seq(DOMAIN class)
  /\ class \in [DOMAIN class -> DOMAIN Width]
  /\ \A m \in DOMAIN class : \E k \in 1 .. Len(order) : order[k] = m

\* The three walks of generated code go over one list.
Same(lists, order) ==
  lists.calculated = order /\ lists.serialized = order /\ lists.deserialized = order

(* In every build of the type the walks go over one list that leaves out no *)
(* member, and so do the accessors and operator=.                           *)
Uniform(T, class, order) ==
  /\ Covers(class, order)
  /\ T.support.typeSize \in Nat
  /\ \A b \in DOMAIN T.builds :
        /\ T.builds[b].class = class
        /\ T.builds[b].copied = DOMAIN class
        /\ T.builds[b].set = DOMAIN class
        /\ Same(T.builds[b].cdr, order)

\* A type whose .cxx has one version, for fastcdr 2,
LEMMA OneBuild ==
  ASSUME NEW support, NEW bounded, NEW class, NEW order, NEW lists,
         support.typeSize \in Nat, Covers(class, order), Same(lists, order)
  PROVE  Uniform(Type(support, bounded,
                      [fastcdr2 |-> Build(class, DOMAIN class, DOMAIN class,
                          lists)]),
                 class, order)
BY DEF Type, Build, Uniform

\* and one whose .cxx has two.
LEMMA TwoBuilds ==
  ASSUME NEW support, NEW bounded, NEW class, NEW order, NEW lists1, NEW lists2,
         support.typeSize \in Nat, Covers(class, order),
         Same(lists1, order), Same(lists2, order)
  PROVE  Uniform(Type(support, bounded,
                      [fastcdr1 |-> Build(class, DOMAIN class, DOMAIN class,
                          lists1),
                       fastcdr2 |-> Build(class, DOMAIN class, DOMAIN class,
                           lists2)]),
                 class, order)
BY DEF Type, Build, Uniform

\* m_typeSize is a number.
LEMMA SizeOfType ==
  ASSUME NEW name, NEW maxCdr \in Nat, NEW maxKey, NEW getKeyDefined
  PROVE  TypeSupport(name, maxCdr, maxKey, getKeyDefined).typeSize \in Nat
BY DEF TypeSupport, Padding, Encapsulation

\* The ten types are uniform, read off the generated code.
LEMMA TargetUniform ==
  Uniform(DataDefineTypes.Target, TargetClass, <<"index", "message", "replayFlag">>)
<1>1. DOMAIN TargetClass = {"index", "message", "replayFlag"}
  BY DEF TargetClass
<1>2. Covers(TargetClass, <<"index", "message", "replayFlag">>)
  <2> DEFINE order == <<"index", "message", "replayFlag">>
  <2>1. order \in Seq(DOMAIN TargetClass) /\ Len(order) = 3
    BY <1>1
  <2>2. order[1] = "index" /\ order[2] = "message" /\ order[3] = "replayFlag"
    OBVIOUS
  <2>3. TargetClass \in [DOMAIN TargetClass -> DOMAIN Width]
    BY DEF TargetClass, Width
  <2> HIDE DEF order
  <2> QED
    BY <1>1, <2>1, <2>2, <2>3 DEF Covers
<1>3. TargetPubSubType.typeSize \in Nat
  BY SizeOfType DEF TargetPubSubType
<1>4. Same(TargetCdr, <<"index", "message", "replayFlag">>)
  BY DEF Same, TargetCdr
<1>5. TargetMembers = DOMAIN TargetClass
  BY <1>1 DEF TargetMembers
<1> DEFINE T == Type(TargetPubSubType, TargetBounded,
                     [fastcdr2 |-> Build(TargetClass, TargetMembers, TargetMembers,
                         TargetCdr)])
<1>6. DataDefineTypes.Target = T
  BY DEF DataDefineTypes
<1>7. Uniform(T, TargetClass, <<"index", "message", "replayFlag">>)
  BY <1>2, <1>3, <1>4, <1>5, OneBuild
<1> QED
  BY <1>6, <1>7

LEMMA ReplayUniform ==
  Uniform(DataDefineTypes.Replay, ReplayClass, <<"recvFlag", "guid">>)
<1>1. DOMAIN ReplayClass = {"recvFlag", "guid"}
  BY DEF ReplayClass
<1>2. Covers(ReplayClass, <<"recvFlag", "guid">>)
  <2> DEFINE order == <<"recvFlag", "guid">>
  <2>1. order \in Seq(DOMAIN ReplayClass) /\ Len(order) = 2
    BY <1>1
  <2>2. order[1] = "recvFlag" /\ order[2] = "guid"
    OBVIOUS
  <2>3. ReplayClass \in [DOMAIN ReplayClass -> DOMAIN Width]
    BY DEF ReplayClass, Width
  <2> HIDE DEF order
  <2> QED
    BY <1>1, <2>1, <2>2, <2>3 DEF Covers
<1>3. ReplayPubSubType.typeSize \in Nat
  BY SizeOfType DEF ReplayPubSubType
<1>4. Same(ReplayCdr, <<"recvFlag", "guid">>)
  BY DEF Same, ReplayCdr
<1>5. ReplayMembers = DOMAIN ReplayClass
  BY <1>1 DEF ReplayMembers
<1> DEFINE T == Type(ReplayPubSubType, ReplayBounded,
                     [fastcdr2 |-> Build(ReplayClass, ReplayMembers, ReplayMembers,
                         ReplayCdr)])
<1>6. DataDefineTypes.Replay = T
  BY DEF DataDefineTypes
<1>7. Uniform(T, ReplayClass, <<"recvFlag", "guid">>)
  BY <1>2, <1>3, <1>4, <1>5, OneBuild
<1> QED
  BY <1>6, <1>7

LEMMA DataChunkUniform ==
  Uniform(DataDefineTypes.DataChunk, DataChunkClass,
      <<"id", "total_chunks", "payload", "flag">>)
<1>1. DOMAIN DataChunkClass = {"id", "total_chunks", "payload", "flag"}
  BY DEF DataChunkClass
<1>2. Covers(DataChunkClass, <<"id", "total_chunks", "payload", "flag">>)
  <2> DEFINE order == <<"id", "total_chunks", "payload", "flag">>
  <2>1. order \in Seq(DOMAIN DataChunkClass) /\ Len(order) = 4
    BY <1>1
  <2>2. order[1] = "id" /\ order[2] = "total_chunks" /\ order[3] = "payload" /\ order[4] = "flag"
    OBVIOUS
  <2>3. DataChunkClass \in [DOMAIN DataChunkClass -> DOMAIN Width]
    BY DEF DataChunkClass, Width
  <2> HIDE DEF order
  <2> QED
    BY <1>1, <2>1, <2>2, <2>3 DEF Covers
<1>3. DataChunkPubSubType.typeSize \in Nat
  BY SizeOfType DEF DataChunkPubSubType
<1>4. Same(DataChunkCdr, <<"id", "total_chunks", "payload", "flag">>)
  BY DEF Same, DataChunkCdr
<1>5. DataChunkMembers = DOMAIN DataChunkClass
  BY <1>1 DEF DataChunkMembers
<1> DEFINE T == Type(DataChunkPubSubType, DataChunkBounded,
                     [fastcdr2 |-> Build(DataChunkClass, DataChunkMembers,
                         DataChunkMembers, DataChunkCdr)])
<1>6. DataDefineTypes.DataChunk = T
  BY DEF DataDefineTypes
<1>7. Uniform(T, DataChunkClass, <<"id", "total_chunks", "payload", "flag">>)
  BY <1>2, <1>3, <1>4, <1>5, OneBuild
<1> QED
  BY <1>6, <1>7

LEMMA GrpcInfoUniform ==
  Uniform(DataDefineTypes.GrpcInfo, GrpcInfoClass, <<"funName", "arg1", "arg2">>)
<1>1. DOMAIN GrpcInfoClass = {"funName", "arg1", "arg2"}
  BY DEF GrpcInfoClass
<1>2. Covers(GrpcInfoClass, <<"funName", "arg1", "arg2">>)
  <2> DEFINE order == <<"funName", "arg1", "arg2">>
  <2>1. order \in Seq(DOMAIN GrpcInfoClass) /\ Len(order) = 3
    BY <1>1
  <2>2. order[1] = "funName" /\ order[2] = "arg1" /\ order[3] = "arg2"
    OBVIOUS
  <2>3. GrpcInfoClass \in [DOMAIN GrpcInfoClass -> DOMAIN Width]
    BY DEF GrpcInfoClass, Width
  <2> HIDE DEF order
  <2> QED
    BY <1>1, <2>1, <2>2, <2>3 DEF Covers
<1>3. GrpcInfoPubSubType.typeSize \in Nat
  BY SizeOfType DEF GrpcInfoPubSubType
<1>4. Same(GrpcInfoCdr, <<"funName", "arg1", "arg2">>)
  BY DEF Same, GrpcInfoCdr
<1>5. GrpcInfoMembers = DOMAIN GrpcInfoClass
  BY <1>1 DEF GrpcInfoMembers
<1> DEFINE T == Type(GrpcInfoPubSubType, GrpcInfoBounded,
                     [fastcdr2 |-> Build(GrpcInfoClass, GrpcInfoMembers,
                         GrpcInfoMembers, GrpcInfoCdr)])
<1>6. DataDefineTypes.GrpcInfo = T
  BY DEF DataDefineTypes
<1>7. Uniform(T, GrpcInfoClass, <<"funName", "arg1", "arg2">>)
  BY <1>2, <1>3, <1>4, <1>5, OneBuild
<1> QED
  BY <1>6, <1>7

LEMMA GrpcReplayUniform ==
  Uniform(DataDefineTypes.GrpcReplay, GrpcReplayClass, <<"result">>)
<1>1. DOMAIN GrpcReplayClass = {"result"}
  BY DEF GrpcReplayClass
<1>2. Covers(GrpcReplayClass, <<"result">>)
  <2> DEFINE order == <<"result">>
  <2>1. order \in Seq(DOMAIN GrpcReplayClass) /\ Len(order) = 1
    BY <1>1
  <2>2. order[1] = "result"
    OBVIOUS
  <2>3. GrpcReplayClass \in [DOMAIN GrpcReplayClass -> DOMAIN Width]
    BY DEF GrpcReplayClass, Width
  <2> HIDE DEF order
  <2> QED
    BY <1>1, <2>1, <2>2, <2>3 DEF Covers
<1>3. GrpcReplayPubSubType.typeSize \in Nat
  BY SizeOfType DEF GrpcReplayPubSubType
<1>4. Same(GrpcReplayCdr, <<"result">>)
  BY DEF Same, GrpcReplayCdr
<1>5. GrpcReplayMembers = DOMAIN GrpcReplayClass
  BY <1>1 DEF GrpcReplayMembers
<1> DEFINE T == Type(GrpcReplayPubSubType, GrpcReplayBounded,
                     [fastcdr2 |-> Build(GrpcReplayClass, GrpcReplayMembers,
                         GrpcReplayMembers, GrpcReplayCdr)])
<1>6. DataDefineTypes.GrpcReplay = T
  BY DEF DataDefineTypes
<1>7. Uniform(T, GrpcReplayClass, <<"result">>)
  BY <1>2, <1>3, <1>4, <1>5, OneBuild
<1> QED
  BY <1>6, <1>7

LEMMA HelloMsgUniform ==
  Uniform(ExampleTypesTable.HelloMsg, HelloMsgClass, <<"deadlinekey", "payload">>)
<1>1. DOMAIN HelloMsgClass = {"deadlinekey", "payload"}
  BY DEF HelloMsgClass
<1>2. Covers(HelloMsgClass, <<"deadlinekey", "payload">>)
  <2> DEFINE order == <<"deadlinekey", "payload">>
  <2>1. order \in Seq(DOMAIN HelloMsgClass) /\ Len(order) = 2
    BY <1>1
  <2>2. order[1] = "deadlinekey" /\ order[2] = "payload"
    OBVIOUS
  <2>3. HelloMsgClass \in [DOMAIN HelloMsgClass -> DOMAIN Width]
    BY DEF HelloMsgClass, Width
  <2> HIDE DEF order
  <2> QED
    BY <1>1, <2>1, <2>2, <2>3 DEF Covers
<1>3. HelloMsgPubSubType.typeSize \in Nat
  BY SizeOfType DEF HelloMsgPubSubType
<1>4. /\ Same(HelloMsgCdr, <<"deadlinekey", "payload">>)
      /\ Same(HelloMsgCdr1, <<"deadlinekey", "payload">>)
  BY DEF Same, HelloMsgCdr, HelloMsgCdr1
<1>5. /\ HelloMsgMembers = DOMAIN HelloMsgClass
      /\ HelloMsgClass1 = HelloMsgClass
      /\ HelloMsgCopied1 = DOMAIN HelloMsgClass
      /\ HelloMsgSet1 = DOMAIN HelloMsgClass
  BY <1>1 DEF HelloMsgMembers, HelloMsgCopied1, HelloMsgSet1, HelloMsgClass1,
      HelloMsgClass
<1> DEFINE T == Type(HelloMsgPubSubType, HelloMsgBounded,
                     [fastcdr1 |-> Build(HelloMsgClass1, HelloMsgCopied1,
                         HelloMsgSet1, HelloMsgCdr1),
                      fastcdr2 |-> Build(HelloMsgClass, HelloMsgMembers,
                          HelloMsgMembers, HelloMsgCdr)])
<1>6. ExampleTypesTable.HelloMsg = T
  BY DEF ExampleTypesTable
<1>7. Uniform(T, HelloMsgClass, <<"deadlinekey", "payload">>)
  BY <1>2, <1>3, <1>4, <1>5, TwoBuilds
<1> QED
  BY <1>6, <1>7

LEMMA SampleUniform ==
  Uniform(ExampleTypesTable.sample, SampleClass, <<"index", "key_value">>)
<1>1. DOMAIN SampleClass = {"index", "key_value"}
  BY DEF SampleClass
<1>2. Covers(SampleClass, <<"index", "key_value">>)
  <2> DEFINE order == <<"index", "key_value">>
  <2>1. order \in Seq(DOMAIN SampleClass) /\ Len(order) = 2
    BY <1>1
  <2>2. order[1] = "index" /\ order[2] = "key_value"
    OBVIOUS
  <2>3. SampleClass \in [DOMAIN SampleClass -> DOMAIN Width]
    BY DEF SampleClass, Width
  <2> HIDE DEF order
  <2> QED
    BY <1>1, <2>1, <2>2, <2>3 DEF Covers
<1>3. SamplePubSubType.typeSize \in Nat
  BY SizeOfType DEF SamplePubSubType
<1>4. /\ Same(SampleCdr, <<"index", "key_value">>)
      /\ Same(SampleCdr1, <<"index", "key_value">>)
  BY DEF Same, SampleCdr, SampleCdr1
<1>5. /\ SampleMembers = DOMAIN SampleClass
      /\ SampleClass1 = SampleClass
      /\ SampleCopied1 = DOMAIN SampleClass
      /\ SampleSet1 = DOMAIN SampleClass
  BY <1>1 DEF SampleMembers, SampleCopied1, SampleSet1, SampleClass1, SampleClass
<1> DEFINE T == Type(SamplePubSubType, SampleBounded,
                     [fastcdr1 |-> Build(SampleClass1, SampleCopied1, SampleSet1,
                         SampleCdr1),
                      fastcdr2 |-> Build(SampleClass, SampleMembers, SampleMembers,
                          SampleCdr)])
<1>6. ExampleTypesTable.sample = T
  BY DEF ExampleTypesTable
<1>7. Uniform(T, SampleClass, <<"index", "key_value">>)
  BY <1>2, <1>3, <1>4, <1>5, TwoBuilds
<1> QED
  BY <1>6, <1>7

LEMMA LifespanUniform ==
  Uniform(ExampleTypesTable.Lifespan, LifespanClass, <<"index", "message">>)
<1>1. DOMAIN LifespanClass = {"index", "message"}
  BY DEF LifespanClass
<1>2. Covers(LifespanClass, <<"index", "message">>)
  <2> DEFINE order == <<"index", "message">>
  <2>1. order \in Seq(DOMAIN LifespanClass) /\ Len(order) = 2
    BY <1>1
  <2>2. order[1] = "index" /\ order[2] = "message"
    OBVIOUS
  <2>3. LifespanClass \in [DOMAIN LifespanClass -> DOMAIN Width]
    BY DEF LifespanClass, Width
  <2> HIDE DEF order
  <2> QED
    BY <1>1, <2>1, <2>2, <2>3 DEF Covers
<1>3. LifespanPubSubType.typeSize \in Nat
  BY SizeOfType DEF LifespanPubSubType
<1>4. /\ Same(LifespanCdr, <<"index", "message">>)
      /\ Same(LifespanCdr1, <<"index", "message">>)
  BY DEF Same, LifespanCdr, LifespanCdr1
<1>5. /\ LifespanMembers = DOMAIN LifespanClass
      /\ LifespanClass1 = LifespanClass
      /\ LifespanCopied1 = DOMAIN LifespanClass
      /\ LifespanSet1 = DOMAIN LifespanClass
  BY <1>1 DEF LifespanMembers, LifespanCopied1, LifespanSet1, LifespanClass1,
      LifespanClass
<1> DEFINE T == Type(LifespanPubSubType, LifespanBounded,
                     [fastcdr1 |-> Build(LifespanClass1, LifespanCopied1,
                         LifespanSet1, LifespanCdr1),
                      fastcdr2 |-> Build(LifespanClass, LifespanMembers,
                          LifespanMembers, LifespanCdr)])
<1>6. ExampleTypesTable.Lifespan = T
  BY DEF ExampleTypesTable
<1>7. Uniform(T, LifespanClass, <<"index", "message">>)
  BY <1>2, <1>3, <1>4, <1>5, TwoBuilds
<1> QED
  BY <1>6, <1>7

LEMMA ExampleMessageUniform ==
  Uniform(ExampleTypesTable.ExampleMessage, ExampleMessageClass,
      <<"index", "ownershipStrength", "message">>)
<1>1. DOMAIN ExampleMessageClass = {"index", "ownershipStrength", "message"}
  BY DEF ExampleMessageClass
<1>2. Covers(ExampleMessageClass, <<"index", "ownershipStrength", "message">>)
  <2> DEFINE order == <<"index", "ownershipStrength", "message">>
  <2>1. order \in Seq(DOMAIN ExampleMessageClass) /\ Len(order) = 3
    BY <1>1
  <2>2. order[1] = "index" /\ order[2] = "ownershipStrength" /\ order[3] = "message"
    OBVIOUS
  <2>3. ExampleMessageClass \in [DOMAIN ExampleMessageClass -> DOMAIN Width]
    BY DEF ExampleMessageClass, Width
  <2> HIDE DEF order
  <2> QED
    BY <1>1, <2>1, <2>2, <2>3 DEF Covers
<1>3. ExampleMessagePubSubType.typeSize \in Nat
  BY SizeOfType DEF ExampleMessagePubSubType
<1>4. /\ Same(ExampleMessageCdr, <<"index", "ownershipStrength", "message">>)
      /\ Same(ExampleMessageCdr1, <<"index", "ownershipStrength", "message">>)
  BY DEF Same, ExampleMessageCdr, ExampleMessageCdr1
<1>5. /\ ExampleMessageMembers = DOMAIN ExampleMessageClass
      /\ ExampleMessageClass1 = ExampleMessageClass
      /\ ExampleMessageCopied1 = DOMAIN ExampleMessageClass
      /\ ExampleMessageSet1 = DOMAIN ExampleMessageClass
  BY <1>1 DEF ExampleMessageMembers, ExampleMessageCopied1, ExampleMessageSet1,
      ExampleMessageClass1, ExampleMessageClass
<1> DEFINE T == Type(ExampleMessagePubSubType, ExampleMessageBounded,
                     [fastcdr1 |-> Build(ExampleMessageClass1,
                         ExampleMessageCopied1, ExampleMessageSet1,
                             ExampleMessageCdr1),
                      fastcdr2 |-> Build(ExampleMessageClass,
                          ExampleMessageMembers, ExampleMessageMembers,
                              ExampleMessageCdr)])
<1>6. ExampleTypesTable.ExampleMessage = T
  BY DEF ExampleTypesTable
<1>7. Uniform(T, ExampleMessageClass, <<"index", "ownershipStrength", "message">>)
  BY <1>2, <1>3, <1>4, <1>5, TwoBuilds
<1> QED
  BY <1>6, <1>7

LEMMA HelloWorldUniform ==
  Uniform(ExampleTypesTable.HelloWorld, HelloWorldClass, <<"index", "message">>)
<1>1. DOMAIN HelloWorldClass = {"index", "message"}
  BY DEF HelloWorldClass
<1>2. Covers(HelloWorldClass, <<"index", "message">>)
  <2> DEFINE order == <<"index", "message">>
  <2>1. order \in Seq(DOMAIN HelloWorldClass) /\ Len(order) = 2
    BY <1>1
  <2>2. order[1] = "index" /\ order[2] = "message"
    OBVIOUS
  <2>3. HelloWorldClass \in [DOMAIN HelloWorldClass -> DOMAIN Width]
    BY DEF HelloWorldClass, Width
  <2> HIDE DEF order
  <2> QED
    BY <1>1, <2>1, <2>2, <2>3 DEF Covers
<1>3. HelloWorldPubSubType.typeSize \in Nat
  BY SizeOfType DEF HelloWorldPubSubType
<1>4. /\ Same(HelloWorldCdr, <<"index", "message">>)
      /\ Same(HelloWorldCdr1, <<"index", "message">>)
  BY DEF Same, HelloWorldCdr, HelloWorldCdr1
<1>5. /\ HelloWorldMembers = DOMAIN HelloWorldClass
      /\ HelloWorldClass1 = HelloWorldClass
      /\ HelloWorldCopied1 = DOMAIN HelloWorldClass
      /\ HelloWorldSet1 = DOMAIN HelloWorldClass
  BY <1>1 DEF HelloWorldMembers, HelloWorldCopied1, HelloWorldSet1,
      HelloWorldClass1, HelloWorldClass
<1> DEFINE T == Type(HelloWorldPubSubType, HelloWorldBounded,
                     [fastcdr1 |-> Build(HelloWorldClass1, HelloWorldCopied1,
                         HelloWorldSet1, HelloWorldCdr1),
                      fastcdr2 |-> Build(HelloWorldClass, HelloWorldMembers,
                          HelloWorldMembers, HelloWorldCdr)])
<1>6. ExampleTypesTable.HelloWorld = T
  BY DEF ExampleTypesTable
<1>7. Uniform(T, HelloWorldClass, <<"index", "message">>)
  BY <1>2, <1>3, <1>4, <1>5, TwoBuilds
<1> QED
  BY <1>6, <1>7

-----------------------------------------------------------------------------
(* The size of a type.                                                     *)

(* The lengths fastddsgen counts for a type: 255 characters, 256 where the  *)
(* IDL gives that bound, and 100 elements.                                  *)
Modest(class, d) ==
  \A m \in DOMAIN class : /\ class[m] = "string" => d[m] <= 255
                          /\ class[m] = "string256" => d[m] <= 256
                          /\ class[m] = "octets" => d[m] <= 100

\* Alignment does not pass a multiple of the boundary.
LEMMA PaddingWithin ==
  ASSUME NEW at \in Nat, NEW top \in Nat, at
         <= top, NEW b \in {1, 2, 4, 8}, top % b = 0
  PROVE  at + Padding(at, b) <= top
<1>1. CASE b = 1
  BY <1>1 DEF Padding
<1>2. CASE b = 2
  BY <1>2 DEF Padding
<1>3. CASE b = 4
  BY <1>3 DEF Padding
<1>4. CASE b = 8
  BY <1>4 DEF Padding
<1> QED
  BY <1>1, <1>2, <1>3, <1>4

(* From an offset up to top, a multiple of the width, a value ends within   *)
(* the room of its kind.                                                    *)
LEMMA EndWithin ==
  ASSUME NEW at \in Nat, NEW kind \in DOMAIN Width, NEW value \in Nat, NEW rep,
         NEW top \in Nat, at <= top, top % Width[kind] = 0,
         NEW most \in Nat, 
         kind \in {"string", "string256"} => value + 1 <= most,
         kind = "octets" => value <= most
  PROVE  End(at, kind, value, rep) <= top + Width[kind] + most
<1>1. Width[kind] \in {1, 2, 4, 8}
  BY DEF Width
<1>2. Begin(at, kind, rep) \in Nat /\ Begin(at, kind, rep) <= top
  <2>1. Begin(at, kind, rep) \in Nat
    BY BeginIsNat
  <2>2. CASE rep = "XCDRv2" /\ Width[kind] = 8
    <3>1. top % 4 = 0
      BY <2>2
    <3> QED
      BY <2>1, <2>2, <3>1, PaddingWithin DEF Begin
  <2>3. CASE ~(rep = "XCDRv2" /\ Width[kind] = 8)
    BY <1>1, <2>1, <2>3, PaddingWithin DEF Begin
  <2> QED
    BY <2>1, <2>2, <2>3
<1>3. (CASE kind \in {"string", "string256"} -> value + 1
             [] kind = "octets" -> value
             [] OTHER -> 0) \in 0 .. most
  OBVIOUS
<1> QED
  BY <1>1, <1>2, <1>3 DEF End

\* The most a modest value of each kind takes.
Room == [octet |-> 1, ushort |-> 2, ulong |-> 4, ulonglong |-> 8,
         string |-> 260, string256 |-> 261, octets |-> 104]

\* The same for a step of a walk.
LEMMA StepWithin ==
  ASSUME NEW class, NEW order, NEW d, NEW rep, Listed(class, order, d),
         Modest(class, d),
         NEW r, Walks(r, class, order, d, rep)
  PROVE  \A k \in 1 .. Len(order) : \A top \in Nat :
            r[k - 1] <= top /\ top % Width[class[order[k]]] = 0
            => r[k] <= top + Room[class[order[k]]]
<1> TAKE k \in 1 .. Len(order)
<1> TAKE top \in Nat
<1> HAVE r[k - 1] <= top /\ top % Width[class[order[k]]] = 0
<1> DEFINE kind == class[order[k]]
           value == d[order[k]]
<1>1. order[k] \in DOMAIN class /\ kind \in DOMAIN Width /\ value \in Nat
  BY ListedAt
<1>2. r[k - 1] \in Nat /\ r[k] = End(r[k - 1], kind, value, rep)
  BY DEF Walks, Listed
<1>3. /\ kind = "string" => value <= 255
      /\ kind = "string256" => value <= 256
      /\ kind = "octets" => value <= 100
  BY <1>1 DEF Modest
<1> HIDE DEF kind, value
<1>4. /\ Width[kind] = (CASE kind = "octet" -> 1 [] kind = "ushort" -> 2 [] kind = "ulonglong" -> 8 [] OTHER -> 4)
  BY <1>1 DEF Width
<1>5. top % Width[kind] = 0
  BY DEF kind
<1>6. CASE kind = "string"
  <2>1. r[k] <= top + Width[kind] + 256
    BY <1>1, <1>2, <1>3, <1>5, <1>6, EndWithin
  <2> QED
    BY <1>6, <2>1 DEF Room, Width, kind
<1>7. CASE kind = "string256"
  <2>1. r[k] <= top + Width[kind] + 257
    BY <1>1, <1>2, <1>3, <1>5, <1>7, EndWithin
  <2> QED
    BY <1>7, <2>1 DEF Room, Width, kind
<1>8. CASE kind = "octets"
  <2>1. r[k] <= top + Width[kind] + 100
    BY <1>1, <1>2, <1>3, <1>5, <1>8, EndWithin
  <2> QED
    BY <1>8, <2>1 DEF Room, Width, kind
<1>9. CASE kind \in {"octet", "ushort", "ulong", "ulonglong"}
  <2>1. r[k] <= top + Width[kind] + 0
    BY <1>1, <1>2, <1>5, <1>9, EndWithin
  <2>2. Width[kind] = Room[kind] /\ Width[kind] + 0 = Width[kind]
    BY <1>9 DEF Room, Width
  <2>3. top + Width[kind] + 0 = top + Room[kind]
    BY <1>9, <2>2 DEF Width
  <2> QED
    BY <2>1, <2>3 DEF kind
<1>10. DOMAIN Width = {"octet", "ushort", "ulong", "ulonglong", "string",
    "string256", "octets"}
  BY DEF Width
<1> QED
  BY <1>1, <1>6, <1>7, <1>8, <1>9, <1>10

(* Offsets that bound a walk: each a multiple of the width of the value that*)
(* follows, and the next one a room further.                                *)
Within(class, order, top) ==
  /\ top \in Seq(Nat) /\ Len(top) = Len(order) + 1 /\ top[1] >= 4
  /\ \A k \in 1 .. Len(order) :
        /\ top[k] % Width[class[order[k]]] = 0
        /\ top[k] + Room[class[order[k]]] <= top[k + 1]

\* They bound the size.
LEMMA SizeWithin ==
  ASSUME NEW class, NEW order, NEW d, NEW rep, Listed(class, order, d),
         Modest(class, d),
         NEW top, Within(class, order, top)
  PROVE  Size(class, order, d, rep) <= top[Len(order) + 1]
<1> DEFINE n == Len(order)
<1>1. PICK r : Walks(r, class, order, d, rep) /\ Size(class, order, d, rep) = r[n]
  BY SizeWalk
<1>2. n \in Nat /\ r \in [0 .. n -> Nat] /\ r[0] <= 4
  BY <1>1 DEF Walks, Listed, Delimiter
<1>3. /\ \A k \in 1 .. n + 1 : top[k] \in Nat
      /\ top[1] >= 4
  BY DEF Within, Listed
<1> DEFINE T == {k \in Nat : k <= n => r[k] <= top[k + 1]}
<1>4. 0 \in T
  BY <1>2, <1>3
<1>5. ASSUME NEW k \in Nat, k \in T PROVE k + 1 \in T
  <2> SUFFICES ASSUME k + 1 <= n PROVE r[k + 1] <= top[(k + 1) + 1]
    OBVIOUS
  <2>1. k + 1 \in 1 .. n /\ (k + 1) - 1 = k /\ k <= n
    BY <1>2
  <2>2. r[k] <= top[k + 1] /\ top[k + 1] \in Nat /\ top[(k + 1) + 1] \in Nat
    BY <1>3, <1>5, <2>1
  <2>3. /\ top[k + 1] % Width[class[order[k + 1]]] = 0
        /\ top[k + 1] + Room[class[order[k + 1]]] <= top[(k + 1) + 1]
    BY <2>1 DEF Within
  <2>4. r[k + 1] <= top[k + 1] + Room[class[order[k + 1]]]
    BY <1>1, <2>1, <2>2, <2>3, StepWithin
  <2>5. Room[class[order[k + 1]]] \in Nat
    BY <2>1, ListedAt DEF Room, Width
  <2> QED
    BY <1>2, <2>1, <2>2, <2>3, <2>4, <2>5
<1> HIDE DEF T
<1>6. n \in T
  BY <1>2, <1>4, <1>5, Induct
<1> QED
  BY <1>1, <1>2, <1>6 DEF T

\* Every modest object fits the size the type announces.
RoomFor(T, class, order) ==
  \A d, c : Listed(class, order, d) /\ Modest(class, d)
            => Size(class, order, d, c) + Encapsulation <= T.support.typeSize

\* One such list is enough for every modest object.
LEMMA RoomByTops ==
  ASSUME NEW T, NEW class, NEW order, NEW top, Within(class, order, top),
         T.support.typeSize \in Nat,
         top[Len(order) + 1] + Encapsulation <= T.support.typeSize
  PROVE  RoomFor(T, class, order)
<1> SUFFICES ASSUME NEW d, NEW c, Listed(class, order, d), Modest(class, d)
             PROVE  Size(class, order, d, c) + Encapsulation <= T.support.typeSize
  BY DEF RoomFor
<1>1. Size(class, order, d, c) <= top[Len(order) + 1]
  BY SizeWithin
<1>2. Size(class, order, d, c) \in Nat
  BY StreamAsSize
<1>3. top[Len(order) + 1] \in Nat
  BY DEF Within, Listed
<1> QED
  BY <1>1, <1>2, <1>3 DEF Encapsulation

-----------------------------------------------------------------------------
(* What is known of every type.                                            *)

\* is_bounded() is true of a type without unbounded members only.
BoundKnown(T, class) ==
  T.bounded => \A m \in DOMAIN class : class[m] \notin {"string", "octets"}

\* The members of a key.
KeyNames == {"deadlinekey", "key_value"}

\* A type with a key has a buffer of 16 bytes, and one small key member.
Keyed(T, class) ==
  T.support.getKeyDefined =>
    /\ T.support.keyLength = 16
    /\ \E m \in DOMAIN class :
          /\ class[m] \in {"octet", "ushort"}
          /\ (DOMAIN class) \cap KeyNames = {m}
          /\ \A b \in DOMAIN T.builds : T.builds[b].cdr.key = <<m>>

\* All that the proofs below need of a type.
Described(T, class, order) ==
  Uniform(T, class, order) /\ RoomFor(T, class, order) /\ BoundKnown(T, class) /\ Keyed(T, class)

\* It holds of the ten types.
LEMMA TargetDescribed ==
  Described(DataDefineTypes.Target, TargetClass,
      <<"index", "message", "replayFlag">>)
<1> DEFINE T == DataDefineTypes.Target
<1>1. T.support = TargetPubSubType /\ T.bounded = TargetBounded
  BY DEF DataDefineTypes, Type
<1>2. TargetPubSubType.getKeyDefined = FALSE
  BY DEF TargetPubSubType, TypeSupport
<1> HIDE DEF T
<1>3. BoundKnown(T, TargetClass)
  BY <1>1 DEF BoundKnown, TargetBounded
<1>4. Keyed(T, TargetClass)
  BY <1>1, <1>2 DEF Keyed
<1>5. RoomFor(T, TargetClass, <<"index", "message", "replayFlag">>)
  <2> DEFINE order == <<"index", "message", "replayFlag">>
             top == <<4, 8, 268, 269>>
  <2>1. /\ Len(order) = 3
        /\ TargetClass[order[1]] = "ulong"
        /\ TargetClass[order[2]] = "string"
        /\ TargetClass[order[3]] = "octet"
    BY DEF TargetClass
  <2>2. /\ top \in Seq(Nat) /\ Len(top) = 4
        /\ top[1] = 4 /\ top[2] = 8 /\ top[3] = 268 /\ top[4] = 269
    OBVIOUS
  <2> HIDE DEF order, top
  <2>3. Within(TargetClass, order, top)
    BY <2>1, <2>2 DEF Within, Width, Room
  <2>4. T.support.typeSize \in Nat /\ 269 + Encapsulation <= T.support.typeSize
    BY <1>1 DEF TargetPubSubType, TypeSupport, Padding, Encapsulation
  <2>5. top[Len(order) + 1] + Encapsulation <= T.support.typeSize
    BY <2>1, <2>2, <2>4
  <2>6. RoomFor(T, TargetClass, order)
    BY <2>3, <2>4, <2>5, RoomByTops
  <2> QED
    BY <2>6 DEF order
<1> QED
  BY <1>3, <1>4, <1>5, TargetUniform DEF Described, T

LEMMA ReplayDescribed ==
  Described(DataDefineTypes.Replay, ReplayClass, <<"recvFlag", "guid">>)
<1> DEFINE T == DataDefineTypes.Replay
<1>1. T.support = ReplayPubSubType /\ T.bounded = ReplayBounded
  BY DEF DataDefineTypes, Type
<1>2. ReplayPubSubType.getKeyDefined = FALSE
  BY DEF ReplayPubSubType, TypeSupport
<1> HIDE DEF T
<1>3. BoundKnown(T, ReplayClass)
  BY <1>1 DEF BoundKnown, ReplayBounded
<1>4. Keyed(T, ReplayClass)
  BY <1>1, <1>2 DEF Keyed
<1>5. RoomFor(T, ReplayClass, <<"recvFlag", "guid">>)
  <2> DEFINE order == <<"recvFlag", "guid">>
             top == <<4, 8, 268>>
  <2>1. /\ Len(order) = 2
        /\ ReplayClass[order[1]] = "octet" /\ ReplayClass[order[2]] = "string"
    BY DEF ReplayClass
  <2>2. /\ top \in Seq(Nat) /\ Len(top) = 3
        /\ top[1] = 4 /\ top[2] = 8 /\ top[3] = 268
    OBVIOUS
  <2> HIDE DEF order, top
  <2>3. Within(ReplayClass, order, top)
    BY <2>1, <2>2 DEF Within, Width, Room
  <2>4. T.support.typeSize \in Nat /\ 268 + Encapsulation <= T.support.typeSize
    BY <1>1 DEF ReplayPubSubType, TypeSupport, Padding, Encapsulation
  <2>5. top[Len(order) + 1] + Encapsulation <= T.support.typeSize
    BY <2>1, <2>2, <2>4
  <2>6. RoomFor(T, ReplayClass, order)
    BY <2>3, <2>4, <2>5, RoomByTops
  <2> QED
    BY <2>6 DEF order
<1> QED
  BY <1>3, <1>4, <1>5, ReplayUniform DEF Described, T

LEMMA DataChunkDescribed ==
  Described(DataDefineTypes.DataChunk, DataChunkClass,
      <<"id", "total_chunks", "payload", "flag">>)
<1> DEFINE T == DataDefineTypes.DataChunk
<1>1. T.support = DataChunkPubSubType /\ T.bounded = DataChunkBounded
  BY DEF DataDefineTypes, Type
<1>2. DataChunkPubSubType.getKeyDefined = FALSE
  BY DEF DataChunkPubSubType, TypeSupport
<1> HIDE DEF T
<1>3. BoundKnown(T, DataChunkClass)
  BY <1>1 DEF BoundKnown, DataChunkBounded
<1>4. Keyed(T, DataChunkClass)
  BY <1>1, <1>2 DEF Keyed
<1>5. RoomFor(T, DataChunkClass, <<"id", "total_chunks", "payload", "flag">>)
  <2> DEFINE order == <<"id", "total_chunks", "payload", "flag">>
             top == <<8, 16, 24, 128, 129>>
  <2>1. /\ Len(order) = 4
        /\ DataChunkClass[order[1]] = "ulonglong"
        /\ DataChunkClass[order[2]] = "ulonglong"
        /\ DataChunkClass[order[3]] = "octets"
        /\ DataChunkClass[order[4]] = "octet"
    BY DEF DataChunkClass
  <2>2. /\ top \in Seq(Nat) /\ Len(top) = 5
        /\ top[1] = 8 /\ top[2] = 16 /\ top[3] = 24 /\ top[4] = 128 /\ top[5] = 129
    OBVIOUS
  <2> HIDE DEF order, top
  <2>3. Within(DataChunkClass, order, top)
    BY <2>1, <2>2 DEF Within, Width, Room
  <2>4. T.support.typeSize \in Nat /\ 129 + Encapsulation <= T.support.typeSize
    BY <1>1 DEF DataChunkPubSubType, TypeSupport, Padding, Encapsulation
  <2>5. top[Len(order) + 1] + Encapsulation <= T.support.typeSize
    BY <2>1, <2>2, <2>4
  <2>6. RoomFor(T, DataChunkClass, order)
    BY <2>3, <2>4, <2>5, RoomByTops
  <2> QED
    BY <2>6 DEF order
<1> QED
  BY <1>3, <1>4, <1>5, DataChunkUniform DEF Described, T

LEMMA GrpcInfoDescribed ==
  Described(DataDefineTypes.GrpcInfo, GrpcInfoClass, <<"funName", "arg1", "arg2">>)
<1> DEFINE T == DataDefineTypes.GrpcInfo
<1>1. T.support = GrpcInfoPubSubType /\ T.bounded = GrpcInfoBounded
  BY DEF DataDefineTypes, Type
<1>2. GrpcInfoPubSubType.getKeyDefined = FALSE
  BY DEF GrpcInfoPubSubType, TypeSupport
<1> HIDE DEF T
<1>3. BoundKnown(T, GrpcInfoClass)
  BY <1>1 DEF BoundKnown, GrpcInfoBounded
<1>4. Keyed(T, GrpcInfoClass)
  BY <1>1, <1>2 DEF Keyed
<1>5. RoomFor(T, GrpcInfoClass, <<"funName", "arg1", "arg2">>)
  <2> DEFINE order == <<"funName", "arg1", "arg2">>
             top == <<4, 264, 268, 272>>
  <2>1. /\ Len(order) = 3
        /\ GrpcInfoClass[order[1]] = "string"
        /\ GrpcInfoClass[order[2]] = "ulong"
        /\ GrpcInfoClass[order[3]] = "ulong"
    BY DEF GrpcInfoClass
  <2>2. /\ top \in Seq(Nat) /\ Len(top) = 4
        /\ top[1] = 4 /\ top[2] = 264 /\ top[3] = 268 /\ top[4] = 272
    OBVIOUS
  <2> HIDE DEF order, top
  <2>3. Within(GrpcInfoClass, order, top)
    BY <2>1, <2>2 DEF Within, Width, Room
  <2>4. T.support.typeSize \in Nat /\ 272 + Encapsulation <= T.support.typeSize
    BY <1>1 DEF GrpcInfoPubSubType, TypeSupport, Padding, Encapsulation
  <2>5. top[Len(order) + 1] + Encapsulation <= T.support.typeSize
    BY <2>1, <2>2, <2>4
  <2>6. RoomFor(T, GrpcInfoClass, order)
    BY <2>3, <2>4, <2>5, RoomByTops
  <2> QED
    BY <2>6 DEF order
<1> QED
  BY <1>3, <1>4, <1>5, GrpcInfoUniform DEF Described, T

LEMMA GrpcReplayDescribed ==
  Described(DataDefineTypes.GrpcReplay, GrpcReplayClass, <<"result">>)
<1> DEFINE T == DataDefineTypes.GrpcReplay
<1>1. T.support = GrpcReplayPubSubType /\ T.bounded = GrpcReplayBounded
  BY DEF DataDefineTypes, Type
<1>2. GrpcReplayPubSubType.getKeyDefined = FALSE
  BY DEF GrpcReplayPubSubType, TypeSupport
<1> HIDE DEF T
<1>3. BoundKnown(T, GrpcReplayClass)
  BY <1>1 DEF BoundKnown, GrpcReplayBounded, GrpcReplayClass
<1>4. Keyed(T, GrpcReplayClass)
  BY <1>1, <1>2 DEF Keyed
<1>5. RoomFor(T, GrpcReplayClass, <<"result">>)
  <2> DEFINE order == <<"result">>
             top == <<4, 8>>
  <2>1. /\ Len(order) = 1
        /\ GrpcReplayClass[order[1]] = "ulong"
    BY DEF GrpcReplayClass
  <2>2. /\ top \in Seq(Nat) /\ Len(top) = 2
        /\ top[1] = 4 /\ top[2] = 8
    OBVIOUS
  <2> HIDE DEF order, top
  <2>3. Within(GrpcReplayClass, order, top)
    BY <2>1, <2>2 DEF Within, Width, Room
  <2>4. T.support.typeSize \in Nat /\ 8 + Encapsulation <= T.support.typeSize
    BY <1>1 DEF GrpcReplayPubSubType, TypeSupport, Padding, Encapsulation
  <2>5. top[Len(order) + 1] + Encapsulation <= T.support.typeSize
    BY <2>1, <2>2, <2>4
  <2>6. RoomFor(T, GrpcReplayClass, order)
    BY <2>3, <2>4, <2>5, RoomByTops
  <2> QED
    BY <2>6 DEF order
<1> QED
  BY <1>3, <1>4, <1>5, GrpcReplayUniform DEF Described, T

LEMMA HelloMsgDescribed ==
  Described(ExampleTypesTable.HelloMsg, HelloMsgClass, <<"deadlinekey", "payload">>)
<1> DEFINE T == ExampleTypesTable.HelloMsg
<1>1. T.support = HelloMsgPubSubType
  BY DEF ExampleTypesTable, Type
<1>0. HelloMsgPubSubType.keyLength = 16
  BY DEF HelloMsgPubSubType, TypeSupport
<1>2. \A b \in DOMAIN T.builds : T.builds[b].cdr.key = <<"deadlinekey">>
  <2>1. T.builds =
          [fastcdr1 |-> Build(HelloMsgClass1, HelloMsgCopied1, HelloMsgSet1,
              HelloMsgCdr1),
           fastcdr2 |-> Build(HelloMsgClass, HelloMsgMembers, HelloMsgMembers,
               HelloMsgCdr)]
    BY DEF ExampleTypesTable, Type
  <2>2. HelloMsgCdr.key = <<"deadlinekey">> /\ HelloMsgCdr1.key = <<"deadlinekey">>
    BY DEF HelloMsgCdr, HelloMsgCdr1
  <2> HIDE DEF T
  <2> QED
    BY <2>1, <2>2 DEF Build
<1> HIDE DEF T
<1>a. /\ DOMAIN HelloMsgClass = {"deadlinekey", "payload"}
      /\ HelloMsgClass.deadlinekey = "ushort" /\ HelloMsgClass.payload = "string256"
  BY DEF HelloMsgClass
<1>3. BoundKnown(T, HelloMsgClass)
  BY <1>a DEF BoundKnown
<1>4. Keyed(T, HelloMsgClass)
  BY <1>0, <1>1, <1>2, <1>a DEF Keyed, KeyNames
<1>5. RoomFor(T, HelloMsgClass, <<"deadlinekey", "payload">>)
  <2> DEFINE order == <<"deadlinekey", "payload">>
             top == <<4, 8, 269>>
  <2>1. /\ Len(order) = 2
        /\ HelloMsgClass[order[1]] = "ushort" /\ HelloMsgClass[order[2]] = "string256"
    BY DEF HelloMsgClass
  <2>2. /\ top \in Seq(Nat) /\ Len(top) = 3
        /\ top[1] = 4 /\ top[2] = 8 /\ top[3] = 269
    OBVIOUS
  <2> HIDE DEF order, top
  <2>3. Within(HelloMsgClass, order, top)
    BY <2>1, <2>2 DEF Within, Width, Room
  <2>4. T.support.typeSize \in Nat /\ 269 + Encapsulation <= T.support.typeSize
    BY <1>1 DEF HelloMsgPubSubType, TypeSupport, Padding, Encapsulation
  <2>5. top[Len(order) + 1] + Encapsulation <= T.support.typeSize
    BY <2>1, <2>2, <2>4
  <2>6. RoomFor(T, HelloMsgClass, order)
    BY <2>3, <2>4, <2>5, RoomByTops
  <2> QED
    BY <2>6 DEF order
<1> QED
  BY <1>3, <1>4, <1>5, HelloMsgUniform DEF Described, T

LEMMA SampleDescribed ==
  Described(ExampleTypesTable.sample, SampleClass, <<"index", "key_value">>)
<1> DEFINE T == ExampleTypesTable.sample
<1>1. T.support = SamplePubSubType
  BY DEF ExampleTypesTable, Type
<1>0. SamplePubSubType.keyLength = 16
  BY DEF SamplePubSubType, TypeSupport
<1>2. \A b \in DOMAIN T.builds : T.builds[b].cdr.key = <<"key_value">>
  <2>1. T.builds =
          [fastcdr1 |-> Build(SampleClass1, SampleCopied1, SampleSet1, SampleCdr1),
           fastcdr2 |-> Build(SampleClass, SampleMembers, SampleMembers, SampleCdr)]
    BY DEF ExampleTypesTable, Type
  <2>2. SampleCdr.key = <<"key_value">> /\ SampleCdr1.key = <<"key_value">>
    BY DEF SampleCdr, SampleCdr1
  <2> HIDE DEF T
  <2> QED
    BY <2>1, <2>2 DEF Build
<1> HIDE DEF T
<1>a. /\ DOMAIN SampleClass = {"index", "key_value"}
      /\ SampleClass.index = "octet" /\ SampleClass.key_value = "octet"
  BY DEF SampleClass
<1>3. BoundKnown(T, SampleClass)
  BY <1>a DEF BoundKnown
<1>4. Keyed(T, SampleClass)
  BY <1>0, <1>1, <1>2, <1>a DEF Keyed, KeyNames
<1>5. RoomFor(T, SampleClass, <<"index", "key_value">>)
  <2> DEFINE order == <<"index", "key_value">>
             top == <<4, 5, 6>>
  <2>1. /\ Len(order) = 2
        /\ SampleClass[order[1]] = "octet" /\ SampleClass[order[2]] = "octet"
    BY DEF SampleClass
  <2>2. /\ top \in Seq(Nat) /\ Len(top) = 3
        /\ top[1] = 4 /\ top[2] = 5 /\ top[3] = 6
    OBVIOUS
  <2> HIDE DEF order, top
  <2>3. Within(SampleClass, order, top)
    BY <2>1, <2>2 DEF Within, Width, Room
  <2>4. T.support.typeSize \in Nat /\ 6 + Encapsulation <= T.support.typeSize
    BY <1>1 DEF SamplePubSubType, TypeSupport, Padding, Encapsulation
  <2>5. top[Len(order) + 1] + Encapsulation <= T.support.typeSize
    BY <2>1, <2>2, <2>4
  <2>6. RoomFor(T, SampleClass, order)
    BY <2>3, <2>4, <2>5, RoomByTops
  <2> QED
    BY <2>6 DEF order
<1> QED
  BY <1>3, <1>4, <1>5, SampleUniform DEF Described, T

LEMMA LifespanDescribed ==
  Described(ExampleTypesTable.Lifespan, LifespanClass, <<"index", "message">>)
<1> DEFINE T == ExampleTypesTable.Lifespan
<1>1. T.support = LifespanPubSubType /\ T.bounded = LifespanBounded
  BY DEF ExampleTypesTable, Type
<1>2. LifespanPubSubType.getKeyDefined = FALSE
  BY DEF LifespanPubSubType, TypeSupport
<1> HIDE DEF T
<1>3. BoundKnown(T, LifespanClass)
  BY <1>1 DEF BoundKnown, LifespanBounded
<1>4. Keyed(T, LifespanClass)
  BY <1>1, <1>2 DEF Keyed
<1>5. RoomFor(T, LifespanClass, <<"index", "message">>)
  <2> DEFINE order == <<"index", "message">>
             top == <<4, 8, 268>>
  <2>1. /\ Len(order) = 2
        /\ LifespanClass[order[1]] = "ulong" /\ LifespanClass[order[2]] = "string"
    BY DEF LifespanClass
  <2>2. /\ top \in Seq(Nat) /\ Len(top) = 3
        /\ top[1] = 4 /\ top[2] = 8 /\ top[3] = 268
    OBVIOUS
  <2> HIDE DEF order, top
  <2>3. Within(LifespanClass, order, top)
    BY <2>1, <2>2 DEF Within, Width, Room
  <2>4. T.support.typeSize \in Nat /\ 268 + Encapsulation <= T.support.typeSize
    BY <1>1 DEF LifespanPubSubType, TypeSupport, Padding, Encapsulation
  <2>5. top[Len(order) + 1] + Encapsulation <= T.support.typeSize
    BY <2>1, <2>2, <2>4
  <2>6. RoomFor(T, LifespanClass, order)
    BY <2>3, <2>4, <2>5, RoomByTops
  <2> QED
    BY <2>6 DEF order
<1> QED
  BY <1>3, <1>4, <1>5, LifespanUniform DEF Described, T

LEMMA ExampleMessageDescribed ==
  Described(ExampleTypesTable.ExampleMessage, ExampleMessageClass,
      <<"index", "ownershipStrength", "message">>)
<1> DEFINE T == ExampleTypesTable.ExampleMessage
<1>1. T.support = ExampleMessagePubSubType /\ T.bounded = ExampleMessageBounded
  BY DEF ExampleTypesTable, Type
<1>2. ExampleMessagePubSubType.getKeyDefined = FALSE
  BY DEF ExampleMessagePubSubType, TypeSupport
<1> HIDE DEF T
<1>3. BoundKnown(T, ExampleMessageClass)
  BY <1>1 DEF BoundKnown, ExampleMessageBounded
<1>4. Keyed(T, ExampleMessageClass)
  BY <1>1, <1>2 DEF Keyed
<1>5. RoomFor(T, ExampleMessageClass, <<"index", "ownershipStrength", "message">>)
  <2> DEFINE order == <<"index", "ownershipStrength", "message">>
             top == <<4, 8, 12, 272>>
  <2>1. /\ Len(order) = 3
        /\ ExampleMessageClass[order[1]] = "ulong"
        /\ ExampleMessageClass[order[2]] = "ulong"
        /\ ExampleMessageClass[order[3]] = "string"
    BY DEF ExampleMessageClass
  <2>2. /\ top \in Seq(Nat) /\ Len(top) = 4
        /\ top[1] = 4 /\ top[2] = 8 /\ top[3] = 12 /\ top[4] = 272
    OBVIOUS
  <2> HIDE DEF order, top
  <2>3. Within(ExampleMessageClass, order, top)
    BY <2>1, <2>2 DEF Within, Width, Room
  <2>4. T.support.typeSize \in Nat /\ 272 + Encapsulation <= T.support.typeSize
    BY <1>1 DEF ExampleMessagePubSubType, TypeSupport, Padding, Encapsulation
  <2>5. top[Len(order) + 1] + Encapsulation <= T.support.typeSize
    BY <2>1, <2>2, <2>4
  <2>6. RoomFor(T, ExampleMessageClass, order)
    BY <2>3, <2>4, <2>5, RoomByTops
  <2> QED
    BY <2>6 DEF order
<1> QED
  BY <1>3, <1>4, <1>5, ExampleMessageUniform DEF Described, T

LEMMA HelloWorldDescribed ==
  Described(ExampleTypesTable.HelloWorld, HelloWorldClass, <<"index", "message">>)
<1> DEFINE T == ExampleTypesTable.HelloWorld
<1>1. T.support = HelloWorldPubSubType /\ T.bounded = HelloWorldBounded
  BY DEF ExampleTypesTable, Type
<1>2. HelloWorldPubSubType.getKeyDefined = FALSE
  BY DEF HelloWorldPubSubType, TypeSupport
<1> HIDE DEF T
<1>3. BoundKnown(T, HelloWorldClass)
  BY <1>1 DEF BoundKnown, HelloWorldBounded
<1>4. Keyed(T, HelloWorldClass)
  BY <1>1, <1>2 DEF Keyed
<1>5. RoomFor(T, HelloWorldClass, <<"index", "message">>)
  <2> DEFINE order == <<"index", "message">>
             top == <<4, 8, 268>>
  <2>1. /\ Len(order) = 2
        /\ HelloWorldClass[order[1]] = "ulong" /\ HelloWorldClass[order[2]] = "string"
    BY DEF HelloWorldClass
  <2>2. /\ top \in Seq(Nat) /\ Len(top) = 3
        /\ top[1] = 4 /\ top[2] = 8 /\ top[3] = 268
    OBVIOUS
  <2> HIDE DEF order, top
  <2>3. Within(HelloWorldClass, order, top)
    BY <2>1, <2>2 DEF Within, Width, Room
  <2>4. T.support.typeSize \in Nat /\ 268 + Encapsulation <= T.support.typeSize
    BY <1>1 DEF HelloWorldPubSubType, TypeSupport, Padding, Encapsulation
  <2>5. top[Len(order) + 1] + Encapsulation <= T.support.typeSize
    BY <2>1, <2>2, <2>4
  <2>6. RoomFor(T, HelloWorldClass, order)
    BY <2>3, <2>4, <2>5, RoomByTops
  <2> QED
    BY <2>6 DEF order
<1> QED
  BY <1>3, <1>4, <1>5, HelloWorldUniform DEF Described, T

\* So it holds of every type of the generated code.
LEMMA EveryTypeDescribed ==
  ASSUME NEW t \in DOMAIN Generated
  PROVE  \E class, order : Described(Generated[t], class, order)
<1>1. /\ DOMAIN DataDefineTypes = {"Target", "Replay", "DataChunk", "GrpcInfo", "GrpcReplay"}
      /\ DOMAIN ExampleTypesTable = {"HelloMsg", "sample", "Lifespan", "ExampleMessage", "HelloWorld"}
  BY DEF DataDefineTypes, ExampleTypesTable
<1>2. Generated = [u \in (DOMAIN DataDefineTypes) \cup (DOMAIN ExampleTypesTable) |->
                      IF u \in DOMAIN DataDefineTypes THEN DataDefineTypes[u] ELSE ExampleTypesTable[u]]
  BY DEF Generated
<1>3. CASE t \in DOMAIN DataDefineTypes
  <2>1. Generated[t] = DataDefineTypes[t]
    BY <1>2, <1>3
  <2> QED
    BY <1>1, <1>3, <2>1, TargetDescribed, ReplayDescribed, DataChunkDescribed,
        GrpcInfoDescribed, GrpcReplayDescribed
<1>4. CASE t \in DOMAIN ExampleTypesTable
  <2>1. Generated[t] = ExampleTypesTable[t]
    BY <1>1, <1>2, <1>4
  <2> QED
    BY <1>1, <1>4, <2>1, HelloMsgDescribed, SampleDescribed, LifespanDescribed,
        ExampleMessageDescribed, HelloWorldDescribed
<1> QED
  BY <1>2, <1>3, <1>4

\* The key of one member is the bytes of that member.
LEMMA KeyOfOne ==
  ASSUME NEW class, NEW m, NEW d
  PROVE  KeyBytes(class, <<m>>, d) = <<>> \o Bytes(class[m], d[m])
<1> DEFINE body(iter, s) ==
             IF s = {} THEN <<>>
             ELSE iter[s \ {Max(s)}] \o Bytes(class[<<m>>[Max(s)]],
                 d[<<m>>[Max(s)]])
           f == CHOOSE iter : iter = [s \in SUBSET DOMAIN <<m>> |-> body(iter, s)]
           h == [s \in SUBSET {1} |-> IF s = {} THEN <<>> ELSE <<>> \o Bytes(class[m], d[m])]
<1>1. DOMAIN <<m>> = {1} /\ <<m>>[1] = m
  OBVIOUS
<1>2. Max({1}) = 1
  BY DEF Max
<1>3. ASSUME NEW s \in SUBSET {1} PROVE h[s] = body(h, s)
  <2>1. CASE s = {}
    BY <2>1
  <2>2. CASE s = {1}
    <3>1. h[{}] = <<>> /\ h[s] = <<>> \o Bytes(class[m], d[m])
      BY <2>2
    <3>2. s \ {Max(s)} = {} /\ Max(s) = 1
      BY <1>2, <2>2
    <3> HIDE DEF h
    <3> QED
      BY <1>1, <2>2, <3>1, <3>2
  <2> QED
    BY <2>1, <2>2
<1>4. h = [s \in SUBSET DOMAIN <<m>> |-> body(h, s)]
  <2>1. h = [s \in SUBSET {1} |-> h[s]]
    OBVIOUS
  <2> HIDE DEF h
  <2> QED
    BY <1>1, <1>3, <2>1
<1>5. f = [s \in SUBSET DOMAIN <<m>> |-> body(f, s)]
  <2> HIDE DEF h
  <2> QED
    BY <1>4
<1>6. KeyBytes(class, <<m>>, d) = f[DOMAIN <<m>>]
  BY DEF KeyBytes, FoldLeft, MapThenFoldSet
<1> HIDE DEF f
<1>7. f[{}] = <<>>
  BY <1>1, <1>5
<1>8. f[{1}] = f[{}] \o Bytes(class[m], d[m])
  <2>1. {1} \ {Max({1})} = {} /\ {1} # {}
    BY <1>2
  <2>2. f[{1}] = body(f, {1})
    BY <1>1, <1>5
  <2> QED
    BY <1>1, <1>2, <2>1, <2>2
<1> QED
  BY <1>1, <1>6, <1>7, <1>8

(* Two keys of one length, equal just when the values are.                 *)
Tells(k, j, v, w) ==
  /\ Len(k) \in 1 .. 2 /\ Len(j) = Len(k)
  /\ \A i \in 1 .. Len(k) : k[i] \in Nat
  /\ v = w <=> \A i \in 1 .. Len(k) : k[i] = j[i]

\* The bytes of one key member tell its values apart.
LEMMA KeyTells ==
  ASSUME NEW kind \in {"octet", "ushort"}, NEW v \in Nat, NEW w \in Nat,
         NEW k, k = <<>> \o Bytes(kind, v), NEW j, j = <<>> \o Bytes(kind, w)
  PROVE  Tells(k, j, v, w)
<1>1. CASE kind = "octet"
  <2>1. k = <<v>> /\ j = <<w>>
    BY <1>1 DEF Bytes
  <2>2. Len(k) = 1 /\ Len(j) = 1 /\ k[1] = v /\ j[1] = w
    BY <2>1
  <2>3. 1 .. Len(k) = {1}
    BY <2>2
  <2>4. /\ Len(k) \in 1 .. 2 /\ Len(j) = Len(k)
        /\ \A i \in 1 .. Len(k) : k[i] \in Nat
        /\ v = w <=> \A i \in 1 .. Len(k) : k[i] = j[i]
    BY <2>2, <2>3
  <2> QED
    BY <2>4 DEF Tells
<1>2. CASE kind = "ushort"
  <2>1. k = <<v \div 256, v % 256>> /\ j = <<w \div 256, w % 256>>
    BY <1>2 DEF Bytes
  <2>2. /\ Len(k) = 2 /\ Len(j) = 2
        /\ k[1] = v \div 256 /\ k[2] = v % 256 /\ j[1] = w \div 256 /\ j[2] = w % 256
    BY <2>1
  <2>3. 1 .. Len(k) = {1, 2}
    <3>1. 1 .. 2 = {1, 2} /\ Len(k) = 2
      BY <2>2
    <3> QED
      BY <3>1, Zenon
  <2>4. /\ v = 256 * (v \div 256) + (v % 256) /\ w = 256 * (w \div 256) + (w % 256)
        /\ v \div 256 \in Nat /\ v % 256 \in Nat
    OBVIOUS
  <2>5. v = w <=> k[1] = j[1] /\ k[2] = j[2]
    BY <2>2, <2>4
  <2>6. /\ Len(k) \in 1 .. 2 /\ Len(j) = Len(k)
        /\ \A i \in 1 .. Len(k) : k[i] \in Nat
        /\ v = w <=> \A i \in 1 .. Len(k) : k[i] = j[i]
    BY <2>2, <2>3, <2>4, <2>5
  <2> QED
    BY <2>6 DEF Tells
<1> QED
  BY <1>1, <1>2

-----------------------------------------------------------------------------
(* The exchange.                                                           *)

\* The objects of the class, with a number for every member.
Object == [DOMAIN Writer.class -> Nat]

\* The key of an object.
Key(d) == KeyBytes(Writer.class, Writer.cdr.key, d)

(* Once something is on the wire, the handle is m_keyBuffer, and that starts*)
(* with the key of the publisher's object.                                  *)
KeyOnHandle ==
  /\ keyBuffer \in [1 .. 16 -> Nat]
  /\ wire # Nothing =>
        /\ handle = keyBuffer
        /\ \A i \in 1 .. Len(Key(data)) : keyBuffer[i] = Key(data)[i]

(* The inductive invariant.  What the three invariants leave open: the wire *)
(* holds the stream of the object the publisher has now, and the values meant*)
(* are the values of that object, so that a later take, over the same list, *)
(* finds them; and the key buffer is the key of that object.                *)
ExchangeIInv ==
  /\ type \in DOMAIN Generated
  /\ writerBuild \in DOMAIN Generated[type].builds
  /\ readerBuild \in DOMAIN Generated[type].builds
  /\ data \in Object /\ msg \in Object /\ kept \in Object
  /\ wire # Nothing =>
        /\ wire.meant = data
        /\ wire.stream = Stream(Writer.class, Writer.cdr.serialized, data, cdr)
  /\ Support.getKeyDefined => KeyOnHandle
  /\ TakenAsWritten
  /\ NoWriteRefused
  /\ FitsTypeSize

\* What is known of the type of the topic,
LEMMA Topic ==
  ASSUME type \in DOMAIN Generated,
         writerBuild \in DOMAIN Generated[type].builds,
         readerBuild \in DOMAIN Generated[type].builds
  PROVE  /\ Covers(Writer.class, Writer.cdr.serialized)
         /\ Writer.cdr.calculated = Writer.cdr.serialized
         /\ Reader.cdr.deserialized = Writer.cdr.serialized
         /\ Reader.class = Writer.class
         /\ Writer.set = DOMAIN Writer.class
         /\ Reader.copied = DOMAIN Writer.class
         /\ Support.typeSize \in Nat
         /\ RoomFor(Generated[type], Writer.class, Writer.cdr.serialized)
         /\ BoundKnown(Generated[type], Writer.class)
<1>1. PICK class, order : Described(Generated[type], class, order)
  BY EveryTypeDescribed
<1>2. Writer.class = class /\ Writer.cdr.serialized = order
  BY <1>1 DEF Described, Uniform, Same, Writer
<1> QED
  BY <1>1, <1>2 DEF Described, Uniform, Same, Writer, Reader, Support

\* and of its key.
LEMMA TopicKey ==
  ASSUME type \in DOMAIN Generated,
         writerBuild \in DOMAIN Generated[type].builds,
         Support.getKeyDefined
  PROVE  /\ Support.keyLength = 16
         /\ \E m \in DOMAIN Writer.class :
               /\ Writer.class[m] \in {"octet", "ushort"}
               /\ (DOMAIN Writer.class) \cap KeyNames = {m}
               /\ Writer.cdr.key = <<m>>
<1>1. PICK class, order : Described(Generated[type], class, order)
  BY EveryTypeDescribed
<1>2. Writer.class = class
  BY <1>1 DEF Described, Uniform, Writer
<1> QED
  BY <1>1, <1>2 DEF Described, Keyed, Writer, Support

(* Two objects have keys of one length, equal just when their key members   *)
(* are.                                                                     *)
LEMMA KeysTell ==
  ASSUME type \in DOMAIN Generated,
         writerBuild \in DOMAIN Generated[type].builds,
         Support.getKeyDefined, NEW a \in Object, NEW b \in Object
  PROVE  /\ Len(Key(a)) \in 1 .. 16 /\ Len(Key(b)) = Len(Key(a))
         /\ \A i \in 1 .. Len(Key(a)) : Key(a)[i] \in Nat
         /\ (\A m \in (DOMAIN Writer.class) \cap KeyNames : a[m] = b[m])
            <=> \A i \in 1 .. Len(Key(a)) : Key(a)[i] = Key(b)[i]
<1>1. PICK m \in DOMAIN Writer.class :
               /\ Writer.class[m] \in {"octet", "ushort"}
               /\ (DOMAIN Writer.class) \cap KeyNames = {m}
               /\ Writer.cdr.key = <<m>>
  BY TopicKey
<1>2. /\ Key(a) = <<>> \o Bytes(Writer.class[m], a[m])
      /\ Key(b) = <<>> \o Bytes(Writer.class[m], b[m])
  BY <1>1, KeyOfOne DEF Key
<1>3. a[m] \in Nat /\ b[m] \in Nat
  BY DEF Object
<1>4. /\ Len(Key(a)) \in 1 .. 2 /\ Len(Key(b)) = Len(Key(a))
      /\ \A i \in 1 .. Len(Key(a)) : Key(a)[i] \in Nat
      /\ a[m] = b[m] <=> \A i \in 1 .. Len(Key(a)) : Key(a)[i] = Key(b)[i]
  <2> DEFINE kind == Writer.class[m]
             k == Key(a)
             j == Key(b)
             v == a[m]
             w == b[m]
  <2>1. /\ kind \in {"octet", "ushort"} /\ v \in Nat /\ w \in Nat
        /\ k = <<>> \o Bytes(kind, v) /\ j = <<>> \o Bytes(kind, w)
    BY <1>1, <1>2, <1>3
  <2> HIDE DEF kind, k, j, v, w
  <2>2. Tells(k, j, v, w)
    BY <2>1, KeyTells, Zenon
  <2> QED
    BY <2>2 DEF Tells, k, j, v, w
<1> QED
  BY <1>1, <1>4

\* A value in the room of its kind is a number.
LEMMA StoredIsNat ==
  ASSUME NEW kind, NEW value \in Nat PROVE Stored(kind, value) \in Nat
BY DEF Stored

\* The accessors leave nothing of the object before: it is what is meant.
LEMMA FilledIsMeant ==
  ASSUME ExchangeIInv, NEW d \in Meanings
  PROVE  /\ d \in Object
         /\ Filled(data, d) = [m \in DOMAIN d |-> Stored(Writer.class[m], d[m])]
         /\ Filled(data, d) \in Object
<1>1. /\ Covers(Writer.class, Writer.cdr.serialized)
      /\ Writer.set = DOMAIN Writer.class
  BY Topic DEF ExchangeIInv
<1>2. \A m \in DOMAIN Writer.class : Writer.class[m] \in DOMAIN Width
  BY <1>1 DEF Covers
<1>3. d \in [DOMAIN Writer.class -> Nat]
  BY <1>2, ValuesAssumption DEF Meanings
<1>4. DOMAIN data = DOMAIN Writer.class
  BY DEF ExchangeIInv, Object
<1>5. Filled(data, d) = [m \in DOMAIN d |-> Stored(Writer.class[m], d[m])]
  BY <1>1, <1>3, <1>4 DEF Filled
<1>6. \A m \in DOMAIN Writer.class : Stored(Writer.class[m], d[m]) \in Nat
  BY <1>3, StoredIsNat
<1> QED
  BY <1>3, <1>5, <1>6 DEF Object

\* The entry of the pool has at least the size asked for.
LEMMA EntryHolds ==
  ASSUME NEW p, NEW typeSize \in Nat, NEW size \in Nat
  PROVE  size <= EntrySize(p, typeSize, size)
BY DEF EntrySize

\* An object goes with the list of its class.
LEMMA ObjectListed ==
  ASSUME ExchangeIInv, NEW object \in Object
  PROVE  Listed(Writer.class, Writer.cdr.serialized, object)
BY Topic DEF ExchangeIInv, Listed, Covers, Object

\* A fresh publisher and a fresh subscriber satisfy the invariant.
LEMMA InitIInv == ExchangeInit => ExchangeIInv
<1> SUFFICES ASSUME ExchangeInit PROVE ExchangeIInv
  OBVIOUS
<1>1. /\ type \in DOMAIN Generated
      /\ writerBuild \in DOMAIN Generated[type].builds
      /\ readerBuild \in DOMAIN Generated[type].builds
  BY TypesAssumption DEF ExchangeInit
<1>2. Reader.class = Writer.class
  BY <1>1, Topic
<1>3. New(Writer.class) \in Object
  BY DEF New, Object, Default
<1>4. data = New(Writer.class) /\ msg = New(Reader.class) /\ kept = New(Reader.class)
  BY DEF ExchangeInit
<1>5. ~refused /\ wire = Nothing /\ msgOf = Nothing /\ keptOf = Nothing
  BY DEF ExchangeInit
<1>6. Support.getKeyDefined => KeyOnHandle
  <2> SUFFICES ASSUME Support.getKeyDefined PROVE KeyOnHandle
    OBVIOUS
  <2>1. keyBuffer = [i \in 1 .. 16 |-> 0]
    BY <1>1, TopicKey DEF ExchangeInit
  <2> QED
    BY <1>5, <2>1 DEF KeyOnHandle
<1>7. FitsTypeSize
  <2>1. reserved = 0 /\ Support.typeSize \in Nat
    BY <1>1, Topic DEF ExchangeInit
  <2> QED
    BY <2>1 DEF FitsTypeSize
<1> QED
  BY <1>1, <1>2, <1>3, <1>4, <1>5, <1>6, <1>7 DEF ExchangeIInv, TakenAsWritten,
      NoWriteRefused

(* An object that is not modest is of an unbounded type, and has a string or*)
(* a sequence beyond what fastddsgen counts.                                *)
LEMMA Modesty ==
  ASSUME ExchangeIInv, NEW d \in Meanings, ~ Modest(Writer.class, Filled(data, d))
  PROVE  /\ ~Generated[type].bounded
         /\ \E m \in DOMAIN Writer.class :
               \/ Writer.class[m] = "string" /\ Filled(data, d)[m] > 255
               \/ Writer.class[m] = "octets" /\ Filled(data, d)[m] > 100
<1> DEFINE object == Filled(data, d)
<1>1. object \in Object /\ object = [m \in DOMAIN d |-> Stored(Writer.class[m], d[m])]
      /\ d \in Object
  BY FilledIsMeant
<1>2. \A m \in DOMAIN Writer.class : d[m] \in Nat /\ object[m] \in Nat
  BY <1>1 DEF Object
<1>3. ASSUME NEW m \in DOMAIN Writer.class, Writer.class[m] = "string256"
      PROVE  object[m] <= 256
  <2>1. object[m] = Stored(Writer.class[m], d[m])
    BY <1>1 DEF Object
  <2> QED
    BY <1>2, <1>3, <2>1 DEF Stored
<1> HIDE DEF object
<1>4. PICK m \in DOMAIN Writer.class :
         \/ Writer.class[m] = "string" /\ ~(object[m] <= 255)
         \/ Writer.class[m] = "octets" /\ ~(object[m] <= 100)
  BY <1>3 DEF Modest, object
<1>5. BoundKnown(Generated[type], Writer.class)
  BY Topic DEF ExchangeIInv
<1> QED
  BY <1>2, <1>4, <1>5 DEF BoundKnown, object

\* A write answers a size the type announces, or has such an object.
LEMMA WriteFits ==
  ASSUME ExchangeIInv, NEW d \in Meanings, data' = Filled(data, d),
         reserved' = SerializedSize(Filled(data, d)), UNCHANGED topic
  PROVE  FitsTypeSize'
<1> DEFINE object == Filled(data, d)
<1>1. object \in Object
  BY FilledIsMeant
<1>2. Writer' = Writer /\ Support' = Support /\ type' = type
  BY DEF topic, Writer, Support
<1>3. CASE Modest(Writer.class, object)
  <2>1. /\ RoomFor(Generated[type], Writer.class, Writer.cdr.serialized)
        /\ Writer.cdr.calculated = Writer.cdr.serialized
    BY Topic DEF ExchangeIInv
  <2>2. Listed(Writer.class, Writer.cdr.serialized, object)
    BY <1>1, ObjectListed
  <2>3. reserved' <= Support.typeSize
    BY <1>3, <2>1, <2>2 DEF RoomFor, SerializedSize, Support
  <2> QED
    BY <1>2, <2>3 DEF FitsTypeSize
<1>4. CASE ~ Modest(Writer.class, object)
  <2>1. /\ ~Generated[type].bounded
        /\ \E m \in DOMAIN Writer.class :
               \/ Writer.class[m] = "string" /\ object[m] > 255
               \/ Writer.class[m] = "octets" /\ object[m] > 100
    BY <1>4, Modesty
  <2>2. DOMAIN data' = DOMAIN Writer.class /\ data' = object
    BY <1>1 DEF Object
  <2> HIDE DEF object
  <2> QED
    BY <1>2, <2>1, <2>2 DEF FitsTypeSize
<1> QED
  BY <1>3, <1>4

(* getKey leaves the key in the first bytes of the buffer and the rest as   *)
(* it was.                                                                  *)
LEMMA WriteKeys ==
  ASSUME ExchangeIInv, Support.getKeyDefined, NEW object \in Object,
         keyBuffer' = KeyBuffer(keyBuffer, object), handle' = SubSeq(keyBuffer', 1,
             16)
  PROVE  /\ keyBuffer' \in [1 .. 16 -> Nat] /\ handle' = keyBuffer'
         /\ \A i \in 1 .. 16 :
               keyBuffer'[i] = IF i
                   <= Len(Key(object)) THEN Key(object)[i] ELSE keyBuffer[i]
<1>1. Support.keyLength = 16 /\ keyBuffer \in [1 .. 16 -> Nat]
  BY TopicKey DEF ExchangeIInv, KeyOnHandle
<1>2. /\ Len(Key(object)) \in 1 .. 16
      /\ \A i \in 1 .. Len(Key(object)) : Key(object)[i] \in Nat
  BY KeysTell DEF ExchangeIInv
<1>3. keyBuffer' = [i \in 1 .. 16 |-> IF i
    <= Len(Key(object)) THEN Key(object)[i] ELSE keyBuffer[i]]
  BY <1>1 DEF KeyBuffer, Key
<1>4. keyBuffer' \in [1 .. 16 -> Nat]
  <2> DEFINE key == Key(object)
             byte(i) == IF i <= Len(key) THEN key[i] ELSE keyBuffer[i]
  <2> HIDE DEF key
  <2>1. Len(key) \in 1 .. 16 /\ \A i \in 1 .. Len(key) : key[i] \in Nat
    BY <1>2 DEF key
  <2>2. ASSUME NEW i \in 1 .. 16 PROVE byte(i) \in Nat
    <3> DEFINE n == Len(key)
    <3>1. n \in 1 .. 16 /\ \A j \in 1 .. n : key[j] \in Nat
      BY <2>1
    <3> HIDE DEF n
    <3>2. (IF i <= n THEN key[i] ELSE keyBuffer[i]) \in Nat
      BY <1>1, <3>1
    <3> QED
      BY <3>2 DEF n
  <2>3. keyBuffer' = [i \in 1 .. 16 |-> byte(i)]
    BY <1>3 DEF key
  <2> HIDE DEF byte
  <2> QED
    BY <2>2, <2>3
<1>5. ASSUME NEW s \in [1 .. 16 -> Nat] PROVE SubSeq(s, 1, 16) = s
  OBVIOUS
<1>6. handle' = keyBuffer'
  BY <1>4, <1>5
<1> QED
  BY <1>3, <1>4, <1>6

\* Each step keeps the invariant: Write,
LEMMA WriteKeeps == ExchangeIInv /\ Write => ExchangeIInv'
<1> SUFFICES ASSUME ExchangeIInv, Write PROVE ExchangeIInv'
  OBVIOUS
<1> DEFINE L == Writer.cdr.serialized
<1>1. PICK d \in Meanings :
        LET object == Filled(data, d)
            done == Fits(object, EntrySize(policy, Support.typeSize,
                SerializedSize(object)))
        IN  /\ data' = object
            /\ reserved' = SerializedSize(object)
            /\ Support.getKeyDefined =>
                  /\ keyBuffer' = KeyBuffer(keyBuffer, object)
                  /\ handle' = SubSeq(keyBuffer', 1, 16)
            /\ refused' = (refused \/ ~done)
            /\ wire' = IF done
                       THEN [stream |-> Serialized(object),
                             meant |-> [m \in DOMAIN d |-> Stored(Writer.class[m],
                                 d[m])]]
                       ELSE wire
            /\ UNCHANGED <<topic, readerVars>>
  BY DEF Write
<1> DEFINE object == Filled(data, d)
<1>2. object \in Object /\ object = [m \in DOMAIN d |-> Stored(Writer.class[m], d[m])]
  BY FilledIsMeant
<1>3. UNCHANGED <<type, cdr, writerBuild, readerBuild, policy, msg, msgOf, kept,
    keptOf>>
  BY <1>1 DEF topic, readerVars
<1>fits. FitsTypeSize'
  BY <1>1, WriteFits
<1> HIDE DEF object
<1>4. Stream(Writer.class, L, object, cdr).end = Size(Writer.class, L, object, cdr)
      /\ Size(Writer.class, L, object, cdr) \in Nat
  BY <1>2, ObjectListed, StreamAsSize
<1>5. Fits(object, EntrySize(policy, Support.typeSize, SerializedSize(object)))
  <2>1. Writer.cdr.calculated = L /\ Support.typeSize \in Nat
    BY Topic DEF ExchangeIInv
  <2>2. SerializedSize(object) = Size(Writer.class, L, object, cdr) + Encapsulation
    BY <2>1 DEF SerializedSize
  <2>3. SerializedSize(object) \in Nat
    BY <1>4, <2>2 DEF Encapsulation
  <2>4. SerializedSize(object)
      <= EntrySize(policy, Support.typeSize, SerializedSize(object))
    BY <2>1, <2>3, EntryHolds
  <2> QED
    BY <1>4, <2>2, <2>4 DEF Fits, Serialized
<1>6. /\ data' = object /\ ~refused'
      /\ wire' = [stream |-> Serialized(object), meant |-> object]
  BY <1>1, <1>2, <1>5 DEF object, ExchangeIInv, NoWriteRefused
<1>7. wire'.stream = Stream(Writer.class, L, object, cdr) /\ wire'.meant = object
  BY <1>6 DEF Serialized
<1>8. Writer' = Writer /\ Object' = Object /\ Support' = Support
  BY <1>3 DEF Writer, Object, Support
<1>9. Support.getKeyDefined => KeyOnHandle'
  <2> SUFFICES ASSUME Support.getKeyDefined PROVE KeyOnHandle'
    OBVIOUS
  <2>1. /\ keyBuffer' \in [1 .. 16 -> Nat] /\ handle' = keyBuffer'
        /\ \A i \in 1 .. 16 :
              keyBuffer'[i] = IF i
                  <= Len(Key(object)) THEN Key(object)[i] ELSE keyBuffer[i]
    BY <1>1, <1>2, WriteKeys DEF object
  <2>2. Key(data)' = Key(object)
    BY <1>6, <1>8 DEF Key
  <2>3. Len(Key(object)) \in 1 .. 16
    BY <1>2, KeysTell DEF ExchangeIInv
  <2> DEFINE key == Key(object)
  <2> HIDE DEF key
  <2>4. /\ Len(key) \in 1 .. 16
        /\ \A i \in 1 .. 16 : keyBuffer'[i] = IF i <= Len(key) THEN key[i] ELSE keyBuffer[i]
    BY <2>1, <2>3 DEF key
  <2>5. \A i \in 1 .. Len(key) : keyBuffer'[i] = key[i]
    <3> DEFINE n == Len(key)
    <3>1. /\ n \in 1 .. 16
          /\ \A i \in 1 .. 16 : keyBuffer'[i] = IF i <= n THEN key[i] ELSE keyBuffer[i]
      BY <2>4
    <3> HIDE DEF n
    <3>2. \A i \in 1 .. n : keyBuffer'[i] = key[i]
      BY <3>1
    <3> QED
      BY <3>2 DEF n
  <2>6. \A i \in 1 .. Len(Key(data)') : keyBuffer'[i] = Key(data)'[i]
    BY <2>2, <2>5 DEF key
  <2> QED
    BY <2>1, <2>6 DEF KeyOnHandle
<1> QED
  BY <1>2, <1>3, <1>6, <1>7, <1>8, <1>9, <1>fits DEF ExchangeIInv, TakenAsWritten,
      NoWriteRefused

\* Take,
LEMMA TakeKeeps == ExchangeIInv /\ Take => ExchangeIInv'
<1> SUFFICES ASSUME ExchangeIInv, Take PROVE ExchangeIInv'
  OBVIOUS
<1> DEFINE L == Writer.cdr.serialized
<1>1. /\ wire # Nothing
      /\ msg' = Deserialized(wire.stream, msg).object
      /\ msgOf' = wire.meant
      /\ UNCHANGED <<topic, writerVars, kept, keptOf>>
  BY DEF Take
<1>2. UNCHANGED <<type, cdr, writerBuild, readerBuild, data, keyBuffer, handle,
    reserved,
                   wire, refused, kept, keptOf>>
  BY <1>1 DEF topic, writerVars
<1>3. wire.meant \in Object /\ wire.stream = Stream(Writer.class, L, wire.meant, cdr)
  BY <1>1 DEF ExchangeIInv
<1>4. Listed(Writer.class, L, wire.meant)
  BY <1>3, ObjectListed
<1>5. /\ Reader.class = Writer.class /\ Reader.cdr.deserialized = L
      /\ \A m \in DOMAIN Writer.class : \E k \in 1 .. Len(L) : L[k] = m
  BY Topic DEF ExchangeIInv, Covers
<1>6. msg \in [DOMAIN Writer.class -> Nat]
  BY DEF ExchangeIInv, Object
<1>7. Parse(Writer.class, L, Stream(Writer.class, L, wire.meant, cdr), cdr,
    msg).object = wire.meant
  BY <1>4, <1>5, <1>6, ParsedAsMeant
<1>8. msg' = wire.meant
  BY <1>1, <1>3, <1>5, <1>7 DEF Deserialized
<1>9. Writer' = Writer /\ Object' = Object /\ Support' = Support
  BY <1>2 DEF Writer, Object, Support
<1>10. (Support.getKeyDefined => KeyOnHandle') /\ FitsTypeSize'
  BY <1>2, <1>9 DEF ExchangeIInv, KeyOnHandle, Key, FitsTypeSize
<1> QED
  BY <1>1, <1>2, <1>3, <1>8, <1>9, <1>10 DEF ExchangeIInv, TakenAsWritten,
      NoWriteRefused

\* Copy and Move.
LEMMA CopyKeeps == ExchangeIInv /\ (Copy \/ Move) => ExchangeIInv'
<1> SUFFICES ASSUME ExchangeIInv, Copy \/ Move PROVE ExchangeIInv'
  OBVIOUS
<1>1. /\ kept' = Assigned(kept, msg) /\ keptOf' = msgOf /\ msgOf # Nothing
      /\ \/ UNCHANGED <<msg, msgOf>>
         \/ msg' = MovedFrom(msg) /\ msgOf' = Nothing
      /\ UNCHANGED <<topic, writerVars>>
  BY DEF Copy, Move
<1>2. UNCHANGED <<type, cdr, writerBuild, readerBuild, data, keyBuffer, handle,
    reserved,
                   wire, refused>>
  BY <1>1 DEF topic, writerVars
<1>3. Reader.copied = DOMAIN Writer.class
  BY Topic DEF ExchangeIInv
<1>4. msg \in [DOMAIN Writer.class -> Nat] /\ kept \in [DOMAIN Writer.class -> Nat]
  BY DEF ExchangeIInv, Object
<1>5. Assigned(kept, msg) = msg
  BY <1>3, <1>4 DEF Assigned
<1>6. MovedFrom(msg) \in Object
  BY <1>4 DEF MovedFrom, Object, Default
<1>7. Writer' = Writer /\ Object' = Object /\ Support' = Support
  BY <1>2 DEF Writer, Object, Support
<1>8. (Support.getKeyDefined => KeyOnHandle') /\ FitsTypeSize'
  BY <1>2, <1>7 DEF ExchangeIInv, KeyOnHandle, Key, FitsTypeSize
<1> QED
  BY <1>1, <1>2, <1>5, <1>6, <1>7, <1>8 DEF ExchangeIInv, TakenAsWritten,
      NoWriteRefused

\* So it holds of every exchange.
LEMMA IInvHolds == ExchangeSpec => []ExchangeIInv
<1>1. ExchangeIInv /\ [ExchangeNext]_exchangeVars => ExchangeIInv'
  <2> SUFFICES ASSUME ExchangeIInv, [ExchangeNext]_exchangeVars PROVE ExchangeIInv'
    OBVIOUS
  <2>1. CASE Write
    BY <2>1, WriteKeeps
  <2>2. CASE Take
    BY <2>2, TakeKeeps
  <2>3. CASE Copy \/ Move
    BY <2>3, CopyKeeps
  <2>4. CASE UNCHANGED exchangeVars
    BY <2>4 DEF exchangeVars, topic, writerVars, readerVars, ExchangeIInv, Object,
        Writer, Support,
                KeyOnHandle, Key, TakenAsWritten, NoWriteRefused, FitsTypeSize
  <2> QED
    BY <2>1, <2>2, <2>3, <2>4 DEF ExchangeNext
<1> QED
  BY <1>1, InitIInv, PTL DEF ExchangeSpec

(* For every topic of the ten generated types, whatever is written, in either*)
(* representation and under either memory policy: serialize never needs more*)
(* than getSerializedSizeProvider promised, so no write is refused.         *)
THEOREM NeverRefused == ExchangeSpec => []NoWriteRefused
<1>1. ExchangeIInv => NoWriteRefused
  BY DEF ExchangeIInv
<1> QED
  BY <1>1, IInvHolds, PTL

(* For the same topics and every sequence of writes, takes, copies and moves:*)
(* a take leaves in the subscriber's object what the publisher meant, and   *)
(* operator= takes it over member for member, whichever of the builds for   *)
(* fastcdr 1 and 2 the two programs come from.                              *)
THEOREM ArrivesAsWritten == ExchangeSpec => []TakenAsWritten
<1>1. ExchangeIInv => TakenAsWritten
  BY DEF ExchangeIInv
<1> QED
  BY <1>1, IInvHolds, PTL

(* For the same topics, what getSerializedSizeProvider answers fits m_typeSize,*)
(* unless the type is unbounded and a string or a sequence is longer than   *)
(* fastddsgen counts.                                                       *)
THEOREM FitsItsType == ExchangeSpec => []FitsTypeSize
<1>1. ExchangeIInv => FitsTypeSize
  BY DEF ExchangeIInv
<1> QED
  BY <1>1, IInvHolds, PTL

(* A step that puts another sample on the wire changes the instance handle  *)
(* just when the key changes.                                               *)
LEMMA StepKeepsInstance ==
  ASSUME ExchangeIInv, [ExchangeNext]_exchangeVars,
         Support.getKeyDefined, handle # <<>>, wire # Nothing, wire' # wire
  PROVE  LET keys == {m \in DOMAIN data : m \in {"deadlinekey", "key_value"}}
         IN  (handle' = handle) <=> (\A m \in keys : wire'.meant[m] = wire.meant[m])
<1>1. Write
  BY DEF ExchangeNext, Take, Copy, Move, exchangeVars, topic, writerVars
<1>2. ExchangeIInv'
  BY <1>1, WriteKeeps
<1>3. UNCHANGED <<type, cdr, writerBuild, readerBuild, policy>>
  BY <1>1 DEF Write, topic
<1>4. Writer' = Writer /\ Object' = Object /\ Support' = Support
  BY <1>3 DEF Writer, Object, Support
<1>5. data \in Object /\ data' \in Object
  BY <1>2, <1>4 DEF ExchangeIInv
<1>6. PICK d \in Meanings :
         /\ data' = Filled(data, d)
         /\ keyBuffer' = KeyBuffer(keyBuffer, Filled(data, d))
         /\ handle' = SubSeq(keyBuffer', 1, 16)
         /\ wire' = wire \/ wire'.meant = [m \in DOMAIN d |-> Stored(Writer.class[m], d[m])]
  BY <1>1 DEF Write
<1>7. wire'.meant = data'
  BY <1>6, FilledIsMeant
<1>8. wire.meant = data /\ handle = keyBuffer /\ keyBuffer \in [1 .. 16 -> Nat]
      /\ \A i \in 1 .. Len(Key(data)) : keyBuffer[i] = Key(data)[i]
  BY DEF ExchangeIInv, KeyOnHandle
<1> DEFINE after == data'
<1>9. /\ keyBuffer' \in [1 .. 16 -> Nat] /\ handle' = keyBuffer'
      /\ \A i \in 1 .. 16 :
            keyBuffer'[i] = IF i
                <= Len(Key(after)) THEN Key(after)[i] ELSE keyBuffer[i]
  BY <1>5, <1>6, WriteKeys
<1>10. /\ Len(Key(after)) \in 1 .. 16 /\ Len(Key(data)) = Len(Key(after))
       /\ (\A m \in (DOMAIN Writer.class) \cap KeyNames : after[m] = data[m])
          <=> \A i \in 1 .. Len(Key(after)) : Key(after)[i] = Key(data)[i]
  BY <1>5, KeysTell DEF ExchangeIInv
<1> HIDE DEF after
<1>11. handle' = handle <=> \A i \in 1 .. Len(Key(after)) : Key(after)[i] = Key(data)[i]
  <2> DEFINE new == Key(after)
             old == Key(data)
  <2>1. ASSUME NEW f \in [1 .. 16 -> Nat], NEW h \in [1 .. 16 -> Nat]
        PROVE  f = h <=> \A i \in 1 .. 16 : f[i] = h[i]
    <3>1. f = [i \in 1 .. 16 |-> f[i]] /\ h = [i \in 1 .. 16 |-> h[i]]
      OBVIOUS
    <3> QED
      BY <3>1
  <2>2. keyBuffer' = keyBuffer <=> \A i \in 1 .. 16 : keyBuffer'[i] = keyBuffer[i]
    BY <1>8, <1>9, <2>1, Zenon
  <2> HIDE DEF new, old
  <2>3. /\ Len(new) \in 1 .. 16
        /\ \A i \in 1 .. Len(new) : keyBuffer[i] = old[i]
        /\ \A i \in 1 .. 16 : keyBuffer'[i] = IF i <= Len(new) THEN new[i] ELSE keyBuffer[i]
    BY <1>8, <1>9, <1>10 DEF new, old
  <2>4. (\A i \in 1 .. 16 : keyBuffer'[i] = keyBuffer[i])
          <=> \A i \in 1 .. Len(new) : new[i] = old[i]
    <3> DEFINE n == Len(new)
               buffer == keyBuffer'
    <3>1. /\ n \in 1 .. 16
          /\ \A i \in 1 .. n : keyBuffer[i] = old[i]
          /\ \A i \in 1 .. 16 : buffer[i] = IF i <= n THEN new[i] ELSE keyBuffer[i]
      BY <2>3
    <3> HIDE DEF n, buffer
    <3>2. ASSUME NEW i \in 1 .. n PROVE i \in 1 .. 16 /\ buffer[i] = new[i]
      BY <3>1
    <3>3. ASSUME NEW i \in 1 .. 16, i \notin 1 .. n PROVE buffer[i] = keyBuffer[i]
      BY <3>1, <3>3
    <3>4. (\A i \in 1 .. 16 : buffer[i] = keyBuffer[i]) <=> \A i \in 1 .. n : new[i] = old[i]
      BY <3>1, <3>2, <3>3
    <3> QED
      BY <3>4 DEF n, buffer
  <2> QED
    BY <1>8, <1>9, <2>2, <2>4 DEF new, old
<1>12. {m \in DOMAIN data : m \in {"deadlinekey", "key_value"}}
         = (DOMAIN Writer.class) \cap KeyNames
  BY <1>5 DEF Object, KeyNames
<1> QED
  BY <1>7, <1>8, <1>10, <1>11, <1>12 DEF after

(* For the types with a key, HelloMsg and sample: two writes one after the  *)
(* other go to one instance just when their keys are equal, although getKey *)
(* serializes over the bytes the call before left in m_keyBuffer.           *)
THEOREM InstancesAreKeys == ExchangeSpec => InstanceIsKey
<1>1. ExchangeIInv /\ [ExchangeNext]_exchangeVars =>
        [Support.getKeyDefined /\ handle # <<>> /\ wire # Nothing /\ wire' # wire =>
          LET keys == {m \in DOMAIN data : m \in {"deadlinekey", "key_value"}}
          IN  (handle' = handle) <=>
                  (\A m \in keys : wire'.meant[m] = wire.meant[m])]_exchangeVars
  BY StepKeepsInstance
<1> QED
  BY <1>1, IInvHolds, PTL DEF ExchangeSpec, InstanceIsKey

-----------------------------------------------------------------------------
(* DiscoveryStart: what main() makes of a command line.                    *)

\* v takes what a gives at the places of H and keeps what it had elsewhere.
Replaces(v, a, H, n) ==
  /\ \A k \in H : v[k] = a[k]
  /\ \A k \in (1 .. n) \ H : v[k] = v[k - 1]

\* In the end it has what the last of those places gave.
LEMMA LastGiven ==
  ASSUME NEW n \in Nat, NEW v, NEW a, NEW H \in SUBSET (1 .. n), Replaces(v, a, H, n)
  PROVE  /\ H = {} => v[n] = v[0]
         /\ H # {} => LastOf(H) \in H /\ v[n] = a[LastOf(H)]
<1> DEFINE last(m, i) == i \in H /\ i <= m /\ \A j \in H : j <= m => j <= i
           P(m) == \/ v[m] = v[0] /\ \A j \in H : j > m
                   \/ \E i \in H : last(m, i) /\ v[m] = a[i]
           T == {m \in Nat : m <= n => P(m)}
<1>1. P(0)
  OBVIOUS
<1>2. ASSUME NEW m \in Nat, m + 1 <= n, P(m) PROVE P(m + 1)
  <2>1. m + 1 \in 1 .. n /\ (m + 1) - 1 = m
    BY <1>2
  <2>2. CASE m + 1 \in H
    <3>1. v[m + 1] = a[m + 1]
      BY <2>2 DEF Replaces
    <3>2. last(m + 1, m + 1)
      BY <2>2
    <3> QED
      BY <2>2, <3>1, <3>2
  <2>3. CASE m + 1 \notin H
    <3>1. v[m + 1] = v[m]
      BY <2>1, <2>3 DEF Replaces
    <3>2. \A j \in H : (j <= m + 1 <=> j <= m) /\ (j > m + 1 <=> j > m)
      BY <2>3
    <3> QED
      BY <1>2, <3>1, <3>2
  <2> QED
    BY <2>2, <2>3
<1> HIDE DEF P
<1>3. P(n)
  <2>1. 0 \in T
    BY <1>1
  <2>2. ASSUME NEW m \in Nat, m \in T PROVE m + 1 \in T
    BY <1>2, <2>2
  <2> HIDE DEF T
  <2>3. n \in T
    BY <2>1, <2>2, Induct
  <2> QED
    BY <2>3 DEF T
<1>4. \/ v[n] = v[0] /\ \A j \in H : j > n
      \/ \E i \in H : last(n, i) /\ v[n] = a[i]
  BY <1>3 DEF P
<1>a. \A j \in H : j \in Nat /\ j <= n /\ ~(j > n)
  OBVIOUS
<1>5. CASE H = {}
  BY <1>4, <1>5
<1>6. CASE H # {}
  <2>1. PICK i \in H : last(n, i) /\ v[n] = a[i]
    BY <1>4, <1>6, <1>a
  <2>2. \A j \in H : j <= i
    BY <2>1, <1>a
  <2>3. ASSUME NEW h \in H, \A j \in H : j <= h PROVE h = i
    BY <1>a, <2>2, <2>3
  <2>4. LastOf(H) = i
    BY <2>2, <2>3 DEF LastOf
  <2> QED
    BY <1>6, <2>1, <2>4
<1> QED
  BY <1>5, <1>6

\* A configuration with its fields from A.
Configs(A) ==
  [topic : A, transport : A, connectionAddress : A, connectionPort : A,
   connectionId : A, idSet : A, listeningAddress : A, listeningPort : A,
   listeningId : A]

\* All that an option can put into a field, and what was there before.
DefaultsOf == {Defaults.topic, Defaults.transport, Defaults.connectionAddress,
               16166, 0, TRUE, FALSE}
WordsOf(l) == {l.options[i].arg.word : i \in DOMAIN l.options}
NumbersOf(l) == {Uint16(l.options[i].arg.num) : i \in DOMAIN l.options}
Fields(l) == DefaultsOf \cup WordsOf(l) \cup NumbersOf(l)

\* One turn of the loop leaves a configuration.
LEMMA AssignKeeps ==
  ASSUME NEW l, NEW i \in DOMAIN l.options, NEW c \in Configs(Fields(l)), NEW kind
  PROVE  Assign(c, l.options[i], kind) \in Configs(Fields(l))
<1> DEFINE A == Fields(l)
           o == l.options[i]
           w == o.arg.word
           m == Uint16(o.arg.num)
<1>1. w \in A /\ m \in A /\ TRUE \in A
  <2>1. w \in WordsOf(l)
    BY Zenon DEF WordsOf
  <2>2. m \in NumbersOf(l)
    BY Zenon DEF NumbersOf
  <2>3. TRUE \in DefaultsOf
    BY DEF DefaultsOf
  <2> HIDE DEF w, m
  <2> QED
    BY <2>1, <2>2, <2>3 DEF Fields
<1> HIDE DEF A, w, m
<1>2. c \in Configs(A)
  BY DEF A
<1>3. /\ [c EXCEPT !.topic = w] \in Configs(A)
      /\ [c EXCEPT !.transport = w] \in Configs(A)
      /\ [c EXCEPT !.connectionAddress = w] \in Configs(A)
      /\ [c EXCEPT !.listeningAddress = w] \in Configs(A)
  BY <1>1, <1>2 DEF Configs
<1>4. /\ [c EXCEPT !.connectionPort = m] \in Configs(A)
      /\ [c EXCEPT !.listeningPort = m] \in Configs(A)
      /\ [c EXCEPT !.listeningId = m] \in Configs(A)
      /\ [c EXCEPT !.connectionId = m, !.idSet = TRUE] \in Configs(A)
  BY <1>1, <1>2 DEF Configs
<1>5. Assign(c, o, kind) \in
        {c, [c EXCEPT !.topic = w], [c EXCEPT !.transport = w],
         [c EXCEPT !.connectionAddress = w], [c EXCEPT !.listeningAddress = w],
         [c EXCEPT !.connectionPort = m], [c EXCEPT !.listeningPort = m],
         [c EXCEPT !.listeningId = m], [c EXCEPT !.connectionId = m, !.idSet = TRUE]}
  BY DEF Assign, w, m
<1> HIDE DEF o
<1>6. Assign(c, o, kind) \in Configs(A)
  BY <1>2, <1>3, <1>4, <1>5
<1> QED
  BY <1>6 DEF o, A

\* The fold of Configuration, written out.
ConfigFold(l) ==
  CHOOSE iter : iter = [s \in SUBSET DOMAIN l.options |->
                 IF s = {} THEN Defaults
                 ELSE Assign(iter[s \ {Max(s)}], l.options[Max(s)], l.kind)]

\* It is what Configuration says.
LEMMA ConfigUnfolds ==
  ASSUME NEW l
  PROVE  Configuration(l) = ConfigFold(l)[DOMAIN l.options]
BY DEF Configuration, FoldLeft, MapThenFoldSet, ConfigFold

\* w[k] is the configuration after k options.
Configures(w, l) ==
  /\ w \in [0 .. Len(l.options) -> Configs(Fields(l))]
  /\ w[0] = Defaults
  /\ \A k \in 1 .. Len(l.options) : w[k] = Assign(w[k - 1], l.options[k], l.kind)

\* Configuration is the end of a walk over the options.
LEMMA ConfigWalk ==
  ASSUME NEW l, l.options \in Seq(Range(l.options))
  PROVE  \E w : Configures(w, l) /\ Configuration(l) = w[Len(l.options)]
<1> DEFINE n == Len(l.options)
           D == Configs(Fields(l))
           body(iter, s) == IF s = {} THEN Defaults
                            ELSE Assign(iter[s \ {Max(s)}], l.options[Max(s)], l.kind)
           g == [p \in D \X (1 .. n) |-> Assign(p[1], l.options[p[2]], l.kind)]
           f == ConfigFold(l)
<1>0. n \in Nat /\ DOMAIN l.options = 1 .. n
  OBVIOUS
<1>a. Defaults \in D
  BY DEF Defaults, Configs, Fields, DefaultsOf
<1>b. \A c \in D, i \in 1 .. n : Assign(c, l.options[i], l.kind) \in D
  BY <1>0, AssignKeeps
<1>c. ConfigFold(l) = CHOOSE h : h = [s \in SUBSET DOMAIN l.options |-> body(h, s)]
  BY DEF ConfigFold
<1> HIDE DEF D
<1>1. g \in [D \X (1 .. n) -> D]
  BY <1>b
<1>2. \E h : IsFold(h, D, Defaults, n, g)
  BY <1>0, <1>a, <1>1, FoldExists, Zenon
<1>3. PICK h : IsFold(h, D, Defaults, n, g)
  BY <1>2
<1>4. ASSUME NEW s \in SUBSET (1 .. n) PROVE h[s] = body(h, s)
  <2>1. CASE s = {}
    BY <1>3, <2>1 DEF IsFold
  <2>2. CASE s # {}
    <3> HIDE DEF g
    <3>1. Max(s) \in 1 .. n
      BY <1>0, <2>2, MaxOfSome
    <3>2. s \ {Max(s)} \in SUBSET (1 .. n)
      OBVIOUS
    <3>3. h[s \ {Max(s)}] \in D /\ h[s] = g[<<h[s \ {Max(s)}], Max(s)>>]
      BY <1>3, <2>2, <3>2 DEF IsFold
    <3> QED
      BY <2>2, <3>1, <3>3 DEF g
  <2> QED
    BY <2>1, <2>2
<1>5. h = [s \in SUBSET (1 .. n) |-> body(h, s)]
  <2>1. h = [s \in SUBSET (1 .. n) |-> h[s]]
    BY <1>3 DEF IsFold
  <2> QED
    BY <1>4, <2>1
<1>6. f = [s \in SUBSET DOMAIN l.options |-> body(f, s)]
  BY <1>0, <1>5, <1>c
<1> HIDE DEF f
<1> DEFINE w == [k \in 0 .. n |-> f[1 .. k]]
<1>7. w[0] = Defaults
  <2>1. 1 .. 0 = {} /\ 0 \in 0 .. n
    BY <1>0
  <2> QED
    BY <1>6, <2>1
<1>8. ASSUME NEW k \in 1 .. n PROVE w[k] = Assign(w[k - 1], l.options[k], l.kind)
  <2>1. f[1 .. k] = body(f, 1 .. k)
    BY <1>0, <1>6, Steps
  <2>2. body(f, 1 .. k) = Assign(f[1 .. (k - 1)], l.options[k], l.kind)
    BY <1>0, Steps
  <2>3. w[k] = f[1 .. k] /\ w[k - 1] = f[1 .. (k - 1)]
    BY <1>0, Steps
  <2> QED
    BY <2>1, <2>2, <2>3
<1> HIDE DEF w
<1>9. \A k \in 0 .. n : w[k] \in D
  <2> DEFINE T == {k \in Nat : k <= n => w[k] \in D}
  <2>1. 0 \in T
    BY <1>7, <1>a
  <2>2. ASSUME NEW k \in Nat, k \in T PROVE k + 1 \in T
    <3> SUFFICES ASSUME k + 1 <= n PROVE w[k + 1] \in D
      OBVIOUS
    <3>1. k + 1 \in 1 .. n /\ (k + 1) - 1 = k /\ k <= n
      BY <1>0
    <3> QED
      BY <1>8, <1>b, <2>2, <3>1
  <2> HIDE DEF T
  <2>3. \A k \in Nat : k \in T
    BY <2>1, <2>2, Induct
  <2> QED
    BY <1>0, <2>3 DEF T
<1>10. w \in [0 .. n -> D]
  BY <1>9 DEF w
<1>11. Configuration(l) = w[n]
  BY <1>0, ConfigUnfolds DEF f, w
<1> QED
  BY <1>7, <1>8, <1>10, <1>11 DEF Configures, D

\* What one option makes of the fields that the properties are about.
OneOption(d, c, o, kind) ==
  /\ d.transport = IF o.opt = "TRANSPORT" THEN o.arg.word ELSE c.transport
  /\ d.connectionPort =
        IF o.opt = "CONNECTION_PORT" THEN Uint16(o.arg.num) ELSE c.connectionPort
  /\ d.connectionId = IF o.opt = "CONNECTION_DISCOVERY_SERVER_ID"
                      THEN Uint16(o.arg.num) ELSE c.connectionId
  /\ d.idSet = IF o.opt = "CONNECTION_DISCOVERY_SERVER_ID" THEN TRUE ELSE c.idSet
  /\ kind = "server" =>
        /\ d.listeningPort =
              IF o.opt = "LISTENING_PORT" THEN Uint16(o.arg.num) ELSE c.listeningPort
        /\ d.listeningId = IF o.opt = "LISTENING_DISCOVERY_SERVER_ID"
                           THEN Uint16(o.arg.num) ELSE c.listeningId

\* One turn of the loop sets the field of its option, unless the option is
\* for another kind of process, and no other.
LEMMA AssignFields ==
  ASSUME NEW A, NEW c \in Configs(A), NEW o, NEW kind \in Kinds
  PROVE  OneOption(Assign(c, o, kind), c, o, kind)
<1> DEFINE w == o.arg.word
           m == Uint16(o.arg.num)
           d == Assign(c, o, kind)
<1>1. d = IF kind \notin For(o.opt) THEN c ELSE
     CASE o.opt = "TOPIC" -> [c EXCEPT !.topic = w]
      [] o.opt = "TRANSPORT" -> [c EXCEPT !.transport = w]
      [] o.opt = "CONNECTION_PORT" -> [c EXCEPT !.connectionPort = m]
      [] o.opt = "CONNECTION_ADDRESS" -> [c EXCEPT !.connectionAddress = w]
      [] o.opt = "CONNECTION_DISCOVERY_SERVER_ID" ->
            [c EXCEPT !.connectionId = m, !.idSet = TRUE]
      [] o.opt = "LISTENING_PORT" -> [c EXCEPT !.listeningPort = m]
      [] o.opt = "LISTENING_ADDRESS" -> [c EXCEPT !.listeningAddress = w]
      [] o.opt = "LISTENING_DISCOVERY_SERVER_ID" -> [c EXCEPT !.listeningId = m]
      [] OTHER -> c
  BY DEF Assign
<1> HIDE DEF w, m, d
<1> DEFINE opt == o.opt
<1> SUFFICES OneOption(d, c, o, kind)
  BY DEF d
<1>2. CASE opt = "TRANSPORT"
  <2>1. d = [c EXCEPT !.transport = w]
    BY <1>1, <1>2 DEF For
  <2> QED
    BY <1>2, <2>1 DEF Configs, OneOption, w
<1>3. CASE opt = "CONNECTION_PORT"
  <2>1. d = [c EXCEPT !.connectionPort = m]
    BY <1>1, <1>3 DEF For
  <2> QED
    BY <1>3, <2>1 DEF Configs, OneOption, m
<1>4. CASE opt = "CONNECTION_DISCOVERY_SERVER_ID"
  <2>1. d = [c EXCEPT !.connectionId = m, !.idSet = TRUE]
    BY <1>1, <1>4 DEF For
  <2> QED
    BY <1>4, <2>1 DEF Configs, OneOption, m
<1>5. CASE opt = "LISTENING_PORT"
  <2>1. CASE kind = "server"
    <3>1. d = [c EXCEPT !.listeningPort = m]
      BY <1>1, <1>5, <2>1 DEF For
    <3> QED
      BY <1>5, <3>1 DEF Configs, OneOption, m
  <2>2. CASE kind # "server"
    <3>0. kind \notin For(o.opt)
      BY <1>5, <2>2 DEF For, Kinds
    <3>1. d = c
      BY <1>1, <3>0
    <3> QED
      BY <1>5, <2>2, <3>1 DEF OneOption
  <2> QED
    BY <2>1, <2>2
<1>6. CASE opt = "LISTENING_DISCOVERY_SERVER_ID"
  <2>1. CASE kind = "server"
    <3>1. d = [c EXCEPT !.listeningId = m]
      BY <1>1, <1>6, <2>1 DEF For
    <3> QED
      BY <1>6, <3>1 DEF Configs, OneOption, m
  <2>2. CASE kind # "server"
    <3>0. kind \notin For(o.opt)
      BY <1>6, <2>2 DEF For, Kinds
    <3>1. d = c
      BY <1>1, <3>0
    <3> QED
      BY <1>6, <2>2, <3>1 DEF OneOption
  <2> QED
    BY <2>1, <2>2
<1>7. CASE opt \notin {"TRANSPORT", "CONNECTION_PORT", "CONNECTION_DISCOVERY_SERVER_ID",
                     "LISTENING_PORT", "LISTENING_DISCOVERY_SERVER_ID"}
  <2>1. d \in {c, [c EXCEPT !.topic = w], [c EXCEPT !.connectionAddress = w],
               [c EXCEPT !.listeningAddress = w]}
    BY <1>1, <1>7
  <2>2. /\ d.transport = c.transport /\ d.connectionPort = c.connectionPort
        /\ d.connectionId = c.connectionId /\ d.idSet = c.idSet
        /\ d.listeningPort = c.listeningPort /\ d.listeningId = c.listeningId
    BY <2>1 DEF Configs
  <2> QED
    BY <1>7, <2>2 DEF OneOption
<1> QED
  BY <1>2, <1>3, <1>4, <1>5, <1>6, <1>7

LastPlace(l, opt) == LastOf(Places(l, opt))

\* The field has what the last of its options said, or its usual.
Holds(field, l, opt, value, usual) ==
  /\ Places(l, opt) = {} => field = usual
  /\ Places(l, opt) # {} => /\ LastPlace(l, opt) \in Places(l, opt)
                            /\ field = value[LastPlace(l, opt)]

\* What the options put into the fields.
Words(l) == [i \in DOMAIN l.options |-> l.options[i].arg.word]
Numbers(l) == [i \in DOMAIN l.options |-> Uint16(l.options[i].arg.num)]

(* Each field of the configuration holds what the last of its options said, *)
(* or its default; the connection of a server is set only by its option.    *)
LEMMA LastOfConfiguration ==
  ASSUME NEW l, l.options \in Seq(Range(l.options)), l.kind \in Kinds
  PROVE  LET c == Configuration(l) IN
         /\ Holds(c.transport, l, "TRANSPORT", Words(l), "udpv4")
         /\ Holds(c.connectionPort, l, "CONNECTION_PORT", Numbers(l), 16166)
         /\ Holds(c.connectionId, l, "CONNECTION_DISCOVERY_SERVER_ID", Numbers(l), 0)
         /\ c.idSet => Given(l.options, "CONNECTION_DISCOVERY_SERVER_ID")
         /\ l.kind = "server" =>
               /\ Holds(c.listeningPort, l, "LISTENING_PORT", Numbers(l), 16166)
               /\ Holds(c.listeningId, l, "LISTENING_DISCOVERY_SERVER_ID", Numbers(l), 0)
<1> DEFINE n == Len(l.options)
           trues == [i \in DOMAIN l.options |-> TRUE]
<1>0. n \in Nat /\ DOMAIN l.options = 1 .. n
  OBVIOUS
<1>1. PICK w : Configures(w, l) /\ Configuration(l) = w[n]
  BY ConfigWalk
<1>2. w[0] = Defaults /\ \A k \in 0 .. n : w[k] \in Configs(Fields(l))
  BY <1>0, <1>1 DEF Configures
<1>3. ASSUME NEW k \in 1 .. n
      PROVE  OneOption(w[k], w[k - 1], l.options[k], l.kind)
  <2>1. w[k - 1] \in Configs(Fields(l)) /\ w[k] = Assign(w[k - 1], l.options[k], l.kind)
    BY <1>0, <1>1, <1>2 DEF Configures
  <2> QED
    BY <2>1, AssignFields, Zenon
<1>4. ASSUME NEW opt, NEW v, NEW a,
             \A k \in 1 .. n : v[k] = IF l.options[k].opt = opt THEN a[k] ELSE v[k - 1]
      PROVE  Holds(v[n], l, opt, a, v[0])
  <2> DEFINE H == Places(l, opt)
  <2>1. H \in SUBSET (1 .. n) /\ Replaces(v, a, H, n)
    BY <1>0, <1>4 DEF Places, Replaces
  <2> HIDE DEF H, n
  <2>2. /\ H = {} => v[n] = v[0]
        /\ H # {} => LastOf(H) \in H /\ v[n] = a[LastOf(H)]
    BY <1>0, <2>1, LastGiven
  <2> QED
    BY <2>2, Zenon DEF Holds, LastPlace, H
<1>5. Holds(w[n].transport, l, "TRANSPORT", Words(l), "udpv4")
  <2> DEFINE v == [k \in 0 .. n |-> w[k].transport]
  <2>1. ASSUME NEW k \in 1 .. n
        PROVE  v[k] = IF l.options[k].opt = "TRANSPORT"
                       THEN Words(l)[k] ELSE v[k - 1]
    <3>1. k \in DOMAIN l.options /\ k \in 0 .. n /\ k - 1 \in 0 .. n
      BY <1>0
    <3>2. w[k].transport = IF l.options[k].opt = "TRANSPORT"
            THEN l.options[k].arg.word ELSE w[k - 1].transport
      BY <1>3 DEF OneOption
    <3> QED
      BY <3>1, <3>2 DEF Words
  <2>2. v[0] = "udpv4" /\ v[n] = w[n].transport
    BY <1>0, <1>2 DEF Defaults
  <2> HIDE DEF v
  <2>3. Holds(v[n], l, "TRANSPORT", Words(l), v[0])
    BY <1>4, <2>1
  <2> QED
    BY <2>2, <2>3
<1>6. Holds(w[n].connectionPort, l, "CONNECTION_PORT", Numbers(l), 16166)
  <2> DEFINE v == [k \in 0 .. n |-> w[k].connectionPort]
  <2>1. ASSUME NEW k \in 1 .. n
        PROVE  v[k] = IF l.options[k].opt = "CONNECTION_PORT"
                       THEN Numbers(l)[k] ELSE v[k - 1]
    <3>1. k \in DOMAIN l.options /\ k \in 0 .. n /\ k - 1 \in 0 .. n
      BY <1>0
    <3>2. w[k].connectionPort = IF l.options[k].opt = "CONNECTION_PORT"
            THEN Uint16(l.options[k].arg.num) ELSE w[k - 1].connectionPort
      BY <1>3 DEF OneOption
    <3> QED
      BY <3>1, <3>2 DEF Numbers
  <2>2. v[0] = 16166 /\ v[n] = w[n].connectionPort
    BY <1>0, <1>2 DEF Defaults
  <2> HIDE DEF v
  <2>3. Holds(v[n], l, "CONNECTION_PORT", Numbers(l), v[0])
    BY <1>4, <2>1
  <2> QED
    BY <2>2, <2>3
<1>7. Holds(w[n].connectionId, l, "CONNECTION_DISCOVERY_SERVER_ID", Numbers(l), 0)
  <2> DEFINE v == [k \in 0 .. n |-> w[k].connectionId]
  <2>1. ASSUME NEW k \in 1 .. n
        PROVE  v[k] = IF l.options[k].opt = "CONNECTION_DISCOVERY_SERVER_ID"
                       THEN Numbers(l)[k] ELSE v[k - 1]
    <3>1. k \in DOMAIN l.options /\ k \in 0 .. n /\ k - 1 \in 0 .. n
      BY <1>0
    <3>2. w[k].connectionId = IF l.options[k].opt = "CONNECTION_DISCOVERY_SERVER_ID"
            THEN Uint16(l.options[k].arg.num) ELSE w[k - 1].connectionId
      BY <1>3 DEF OneOption
    <3> QED
      BY <3>1, <3>2 DEF Numbers
  <2>2. v[0] = 0 /\ v[n] = w[n].connectionId
    BY <1>0, <1>2 DEF Defaults
  <2> HIDE DEF v
  <2>3. Holds(v[n], l, "CONNECTION_DISCOVERY_SERVER_ID", Numbers(l), v[0])
    BY <1>4, <2>1
  <2> QED
    BY <2>2, <2>3
<1>8. Holds(w[n].idSet, l, "CONNECTION_DISCOVERY_SERVER_ID", trues, FALSE)
  <2> DEFINE v == [k \in 0 .. n |-> w[k].idSet]
  <2>1. ASSUME NEW k \in 1 .. n
        PROVE  v[k] = IF l.options[k].opt = "CONNECTION_DISCOVERY_SERVER_ID"
                       THEN trues[k] ELSE v[k - 1]
    <3>1. k \in DOMAIN l.options /\ k \in 0 .. n /\ k - 1 \in 0 .. n
      BY <1>0
    <3>2. w[k].idSet = IF l.options[k].opt = "CONNECTION_DISCOVERY_SERVER_ID"
            THEN TRUE ELSE w[k - 1].idSet
      BY <1>3 DEF OneOption
    <3> QED
      BY <3>1, <3>2
  <2>2. v[0] = FALSE /\ v[n] = w[n].idSet
    BY <1>0, <1>2 DEF Defaults
  <2> HIDE DEF v, trues
  <2>3. Holds(v[n], l, "CONNECTION_DISCOVERY_SERVER_ID", trues, v[0])
    BY <1>4, <2>1
  <2> QED
    BY <2>2, <2>3
<1>9. ASSUME l.kind = "server"
      PROVE  Holds(w[n].listeningPort, l, "LISTENING_PORT", Numbers(l), 16166)
  <2> DEFINE v == [k \in 0 .. n |-> w[k].listeningPort]
  <2>1. ASSUME NEW k \in 1 .. n
        PROVE  v[k] = IF l.options[k].opt = "LISTENING_PORT"
                       THEN Numbers(l)[k] ELSE v[k - 1]
    <3>1. k \in DOMAIN l.options /\ k \in 0 .. n /\ k - 1 \in 0 .. n
      BY <1>0
    <3>2. w[k].listeningPort = IF l.options[k].opt = "LISTENING_PORT"
            THEN Uint16(l.options[k].arg.num) ELSE w[k - 1].listeningPort
      BY <1>3, <1>9 DEF OneOption
    <3> QED
      BY <3>1, <3>2 DEF Numbers
  <2>2. v[0] = 16166 /\ v[n] = w[n].listeningPort
    BY <1>0, <1>2 DEF Defaults
  <2> HIDE DEF v
  <2>3. Holds(v[n], l, "LISTENING_PORT", Numbers(l), v[0])
    BY <1>4, <2>1
  <2> QED
    BY <2>2, <2>3
<1>10. ASSUME l.kind = "server"
      PROVE  Holds(w[n].listeningId, l, "LISTENING_DISCOVERY_SERVER_ID", Numbers(l), 0)
  <2> DEFINE v == [k \in 0 .. n |-> w[k].listeningId]
  <2>1. ASSUME NEW k \in 1 .. n
        PROVE  v[k] = IF l.options[k].opt = "LISTENING_DISCOVERY_SERVER_ID"
                       THEN Numbers(l)[k] ELSE v[k - 1]
    <3>1. k \in DOMAIN l.options /\ k \in 0 .. n /\ k - 1 \in 0 .. n
      BY <1>0
    <3>2. w[k].listeningId = IF l.options[k].opt = "LISTENING_DISCOVERY_SERVER_ID"
            THEN Uint16(l.options[k].arg.num) ELSE w[k - 1].listeningId
      BY <1>3, <1>10 DEF OneOption
    <3> QED
      BY <3>1, <3>2 DEF Numbers
  <2>2. v[0] = 0 /\ v[n] = w[n].listeningId
    BY <1>0, <1>2 DEF Defaults
  <2> HIDE DEF v
  <2>3. Holds(v[n], l, "LISTENING_DISCOVERY_SERVER_ID", Numbers(l), v[0])
    BY <1>4, <2>1
  <2> QED
    BY <2>2, <2>3
<1>11. w[n].idSet => Given(l.options, "CONNECTION_DISCOVERY_SERVER_ID")
  BY <1>8 DEF Given, Places, Holds
<1> QED
  BY <1>1, <1>5, <1>6, <1>7, <1>9, <1>10, <1>11

\* Numbers whose remainders are one are alike.
LEMMA AlikeNumbers ==
  ASSUME NEW a \in Int, NEW b \in Int
  PROVE  /\ Uint16(a) = Uint16(b) => Alike(a, b, 65536)
         /\ Uint16(a) % 256 = Uint16(b) % 256 => Alike(a, b, 256)
BY DEF Uint16, Alike

\* What the last of an option's places holds is what the line says.
LEMMA SaidLast ==
  ASSUME NEW l, NEW opt, NEW usual
  PROVE  LET arg == l.options[LastPlace(l, opt)].arg IN
         /\ Places(l, opt) = {} => Said(l, opt, usual) = usual
         /\ Places(l, opt) # {} /\ "num" \in DOMAIN arg => Said(l, opt, usual) = arg.num
         /\ Places(l, opt) # {} /\ "num" \notin DOMAIN arg => Said(l, opt, usual) = arg.word
<1> DEFINE at == Places(l, opt)
           arg == l.options[LastPlace(l, opt)].arg
<1>1. Said(l, opt, usual) = IF at = {} THEN usual
                              ELSE IF "num" \in DOMAIN arg THEN arg.num ELSE arg.word
  BY DEF Said, LastPlace
<1> HIDE DEF at, arg
<1>2. /\ at = {} => Said(l, opt, usual) = usual
      /\ at # {} /\ "num" \in DOMAIN arg => Said(l, opt, usual) = arg.num
      /\ at # {} /\ "num" \notin DOMAIN arg => Said(l, opt, usual) = arg.word
  BY <1>1
<1> QED
  BY <1>2 DEF at, arg

\* An option of a line that main() accepts has a word or a number as it must.
LEMMA ArgOf ==
  ASSUME NEW p \in Processes, NEW l \in Lines[p], ~ParseError(l.options),
         NEW i \in DOMAIN l.options
  PROVE  LET arg == l.options[i].arg
             check == Checks[l.options[i].opt]
         IN  /\ check = "Transport" => "num" \notin DOMAIN arg
             /\ check = "Numeric" => "num" \in DOMAIN arg /\ arg.num \in Int
<1> DEFINE arg == l.options[i].arg
           check == Checks[l.options[i].opt]
<1>1. Arg(check, arg)
  BY DEF ParseError
<1>2. arg \in [num : Int] \/ DOMAIN arg = {"word"}
  BY LinesAssumption
<1> HIDE DEF arg, check
<1>3. check = "Transport" => "num" \notin DOMAIN arg
  BY <1>1, <1>2 DEF Arg
<1>4. check = "Numeric" => "num" \in DOMAIN arg /\ arg.num \in Int
  BY <1>1, <1>2 DEF Arg
<1> QED
  BY <1>3, <1>4 DEF arg, check

\* What a field holds is what the line says.
LEMMA SaidWord ==
  ASSUME NEW p \in Processes, NEW l \in Lines[p], ~ParseError(l.options),
         NEW field, Holds(field, l, "TRANSPORT", Words(l), "udpv4")
  PROVE  field = SaysTransport(l)
<1> DEFINE at == Places(l, "TRANSPORT")
           i == LastPlace(l, "TRANSPORT")
<1> HIDE DEF i
<1>1. CASE at = {}
  BY <1>1, SaidLast DEF Holds, SaysTransport
<1>2. CASE at # {}
  <2>1. i \in at /\ field = Words(l)[i]
    BY <1>2 DEF Holds, i
  <2>2. i \in DOMAIN l.options /\ l.options[i].opt = "TRANSPORT"
    BY <2>1 DEF Places
  <2>3. Checks[l.options[i].opt] = "Transport"
    BY <2>2 DEF Checks
  <2>4. "num" \notin DOMAIN l.options[i].arg
    BY <2>2, <2>3, ArgOf
  <2>5. Said(l, "TRANSPORT", "udpv4") = l.options[i].arg.word
    BY <1>2, <2>4, SaidLast DEF i
  <2> QED
    BY <2>1, <2>2, <2>5 DEF Words, SaysTransport
<1> QED
  BY <1>1, <1>2

\* The options that hold a port or an id.
Numbered == {"CONNECTION_PORT", "CONNECTION_DISCOVERY_SERVER_ID",
             "LISTENING_PORT", "LISTENING_DISCOVERY_SERVER_ID"}

\* The same of a port or an id, of which the field keeps 16 bits.
LEMMA SaidNumber ==
  ASSUME NEW p \in Processes, NEW l \in Lines[p], ~ParseError(l.options),
         NEW opt \in Numbered,
         NEW usual \in Nat, usual < 65536, NEW field, Holds(field, l, opt, Numbers(l), usual)
  PROVE  Said(l, opt, usual) \in Int /\ field = Uint16(Said(l, opt, usual))
<1> DEFINE at == Places(l, opt)
           i == LastPlace(l, opt)
<1> HIDE DEF i
<1>1. CASE at = {}
  <2>1. Said(l, opt, usual) = usual /\ field = usual
    BY <1>1, SaidLast DEF Holds
  <2>2. usual \in Int /\ Uint16(usual) = usual
    BY DEF Uint16
  <2> QED
    BY <2>1, <2>2
<1>2. CASE at # {}
  <2>1. i \in at /\ field = Numbers(l)[i]
    BY <1>2 DEF Holds, i
  <2>2. i \in DOMAIN l.options /\ l.options[i].opt = opt
    BY <2>1 DEF Places
  <2>0. Checks[l.options[i].opt] = "Numeric"
    BY <2>2 DEF Numbered, Checks
  <2>3. "num" \in DOMAIN l.options[i].arg /\ l.options[i].arg.num \in Int
    BY <2>0, <2>2, ArgOf
  <2>4. Said(l, opt, usual) = l.options[i].arg.num
    BY <1>2, <2>3, SaidLast DEF i
  <2> QED
    BY <2>1, <2>2, <2>3, <2>4 DEF Numbers
<1> QED
  BY <1>1, <1>2

\* What main() goes on with is what the line says, to 16 bits.
Understood(c, l) ==
  /\ c.transport = SaysTransport(l)
  /\ LET port == Said(l, "CONNECTION_PORT", 16166)
         id == Said(l, "CONNECTION_DISCOVERY_SERVER_ID", 0)
     IN  /\ port \in Int /\ c.connectionPort = Uint16(port)
         /\ id \in Int /\ c.connectionId = Uint16(id)
  /\ c.idSet => Given(l.options, "CONNECTION_DISCOVERY_SERVER_ID")
  /\ l.kind = "server" =>
        LET port == Said(l, "LISTENING_PORT", 16166)
            id == Said(l, "LISTENING_DISCOVERY_SERVER_ID", 0)
        IN  /\ port \in Int /\ c.listeningPort = Uint16(port)
            /\ id \in Int /\ c.listeningId = Uint16(id)

\* A line that main() accepts is understood.
LEMMA StartUnderstands ==
  ASSUME NEW p \in Processes, NEW l \in Lines[p], Outcome(l) = "start"
  PROVE  l.kind \in Kinds /\ Understood(Configuration(l), l)
<1>1. l.kind \in Kinds /\ ~ParseError(l.options)
  BY DEF Outcome
<1>2. l.options \in Seq(Range(l.options))
  BY LinesAssumption
<1> DEFINE c == Configuration(l)
<1>3. /\ Holds(c.transport, l, "TRANSPORT", Words(l), "udpv4")
      /\ Holds(c.connectionPort, l, "CONNECTION_PORT", Numbers(l), 16166)
      /\ Holds(c.connectionId, l, "CONNECTION_DISCOVERY_SERVER_ID", Numbers(l), 0)
      /\ c.idSet => Given(l.options, "CONNECTION_DISCOVERY_SERVER_ID")
      /\ l.kind = "server" =>
            /\ Holds(c.listeningPort, l, "LISTENING_PORT", Numbers(l), 16166)
            /\ Holds(c.listeningId, l, "LISTENING_DISCOVERY_SERVER_ID", Numbers(l), 0)
  BY <1>1, <1>2, LastOfConfiguration
<1> HIDE DEF c
<1>5. c.transport = SaysTransport(l)
  BY <1>1, <1>3, SaidWord
<1>6. ASSUME NEW field, NEW opt \in Numbered, NEW usual \in {0, 16166},
             Holds(field, l, opt, Numbers(l), usual)
      PROVE  Said(l, opt, usual) \in Int /\ field = Uint16(Said(l, opt, usual))
  <2>1. usual \in Nat /\ usual < 65536
    OBVIOUS
  <2> QED
    BY <1>1, <1>6, <2>1, SaidNumber
<1>7. Understood(c, l)
  BY <1>3, <1>5, <1>6 DEF Numbered, Understood
<1> QED
  BY <1>1, <1>7 DEF c

\* A locator with a transport and a port, and any address.
LocatorOf(locator, transport, port) ==
  \E address : locator = Locator(transport, address, port)

\* The servers a participant announces itself to, and where a server listens.
LEMMA ParticipantOf ==
  ASSUME NEW p \in Processes, NEW l \in Lines[p], l.kind \in Kinds, Initialised(l) # None
  PROVE  LET c == Configuration(l)
             made == Initialised(l)
         IN  /\ \A r \in made.servers :
                   /\ r.prefix = c.connectionId % 256
                   /\ LocatorOf(r.locator, c.transport, c.connectionPort)
                   /\ l.kind = "server" => c.idSet
             /\ made.protocol = "SERVER" =>
                   /\ l.kind = "server"
                   /\ made.prefix = c.listeningId % 256
                   /\ LocatorOf(made.listening, c.transport, c.listeningPort)
<1> DEFINE c == Configuration(l)
           made == Initialised(l)
<1> USE DEF LocatorOf, RemoteServer, get_discovery_server_guid_from_id
<1>1. CASE l.kind = "publisher"
  <2>1. made = HelloWorldPublisher_init(c)
    BY <1>1 DEF Initialised
  <2> HIDE DEF c, made
  <2>2. PICK ip : made = Client(c, PublisherLocator(c.transport, ip, c.connectionPort))
    BY <2>1 DEF HelloWorldPublisher_init, made
  <2> QED
    BY <1>1, <2>2 DEF Client, PublisherLocator, made, c
<1>2. CASE l.kind = "subscriber"
  <2>1. made = HelloWorldSubscriber_init(c)
    BY <1>2 DEF Initialised
  <2> HIDE DEF c, made
  <2>2. PICK ip : made = Client(c, SubscriberLocator(c.transport, ip, c.connectionPort))
    BY <2>1 DEF HelloWorldSubscriber_init, made
  <2> QED
    BY <1>2, <2>2 DEF Client, SubscriberLocator, made, c
<1>3. CASE l.kind = "server"
  <2>1. made = DiscoveryServer_init(c)
    BY <1>3 DEF Initialised
  <2> HIDE DEF c, made
  <2>2. PICK listening, connection :
          made = [protocol |-> "SERVER",
              prefix |-> get_discovery_server_guid_from_id(c.listeningId),
              listening |-> ServerLocator(c.transport, listening, c.listeningPort),
              topic |-> "",
              servers |-> IF c.idSet
                          THEN {RemoteServer(c.connectionId,
                                   ServerLocator(c.transport, connection, c.connectionPort))}
                          ELSE {}]
    BY <2>1 DEF DiscoveryServer_init, made
  <2>3. /\ made.protocol = "SERVER"
        /\ made.prefix = c.listeningId % 256
        /\ LocatorOf(made.listening, c.transport, c.listeningPort)
    BY <2>2 DEF ServerLocator
  <2>4. made.servers = IF c.idSet
            THEN {RemoteServer(c.connectionId,
                      ServerLocator(c.transport, connection, c.connectionPort))}
            ELSE {}
    BY <2>2
  <2>5. ASSUME NEW r \in made.servers
        PROVE  /\ c.idSet
               /\ r = RemoteServer(c.connectionId,
                         ServerLocator(c.transport, connection, c.connectionPort))
    <3> HIDE DEF RemoteServer
    <3> QED
      BY <2>4
  <2>6. ASSUME NEW r \in made.servers
        PROVE  /\ r.prefix = c.connectionId % 256
               /\ LocatorOf(r.locator, c.transport, c.connectionPort)
    BY <2>5 DEF ServerLocator
  <2> QED
    BY <1>3, <2>3, <2>5, <2>6 DEF made, c
<1> QED
  BY <1>1, <1>2, <1>3 DEF Kinds

-----------------------------------------------------------------------------
(* The inductive invariant: a process runs with the participant that init() *)
(* makes of its line, and every link was asked for.                         *)
StartIInv ==
  /\ \A p \in Processes : line[p] \in Lines[p]
  /\ DOMAIN status = Processes /\ DOMAIN participant = Processes
  /\ \A p \in Processes : status[p] = "running" =>
        /\ Outcome(line[p]) = "start"
        /\ participant[p] = Initialised(line[p]) /\ participant[p] # None
  /\ LinkedAsAsked

\* A server that answers is the one the line of the client asks for.
LEMMA LinkAsks ==
  ASSUME StartIInv, NEW p \in Processes, NEW s \in Processes, Link(p, s)
  PROVE  AsksFor(line[p], line[s])
<1> DEFINE l == line[p]
           k == line[s]
           c == Configuration(l)
           d == Configuration(k)
<1>1. p \in Running /\ s \in Running /\ IsServer(s)
  BY DEF Link
<1>2. /\ l \in Lines[p] /\ Outcome(l) = "start"
      /\ participant[p] = Initialised(l) /\ Initialised(l) # None
  BY <1>1 DEF StartIInv, Running
<1>3. /\ k \in Lines[s] /\ Outcome(k) = "start"
      /\ participant[s] = Initialised(k) /\ Initialised(k) # None
  BY <1>1 DEF StartIInv, Running
<1>4. PICK r \in participant[p].servers :
         r.prefix = participant[s].prefix /\ Reaches(r.locator, s)
  BY DEF Link
<1> HIDE DEF l, k, c, d
<1>5. l.kind \in Kinds /\ Understood(c, l)
  BY <1>2, StartUnderstands DEF c
<1>6. k.kind \in Kinds /\ Understood(d, k)
  BY <1>3, StartUnderstands DEF d
<1>7. /\ r.prefix = c.connectionId % 256
      /\ LocatorOf(r.locator, c.transport, c.connectionPort)
      /\ l.kind = "server" => c.idSet
  BY <1>2, <1>4, <1>5, ParticipantOf DEF c
<1>8. /\ k.kind = "server"
      /\ participant[s].prefix = d.listeningId % 256
      /\ LocatorOf(participant[s].listening, d.transport, d.listeningPort)
  BY <1>1, <1>3, <1>6, ParticipantOf DEF d, IsServer
<1>9. c.transport = d.transport /\ c.connectionPort = d.listeningPort
  <2>1. PICK a : r.locator = Locator(c.transport, a, c.connectionPort)
    BY <1>7 DEF LocatorOf
  <2>2. PICK b : participant[s].listening = Locator(d.transport, b, d.listeningPort)
    BY <1>8 DEF LocatorOf
  <2>3. [Locator(c.transport, a, c.connectionPort) EXCEPT !.address = ""]
           = [Locator(d.transport, b, d.listeningPort) EXCEPT !.address = ""]
    BY <1>4, <2>1, <2>2, Zenon DEF Reaches
  <2> QED
    BY <2>3 DEF Locator
<1>10. c.connectionId % 256 = d.listeningId % 256
  BY <1>4, <1>7, <1>8
<1>11. l.kind = "server" => Given(l.options, "CONNECTION_DISCOVERY_SERVER_ID")
  BY <1>5, <1>7 DEF Understood
<1>12. SaysTransport(l) = SaysTransport(k)
  BY <1>5, <1>6, <1>9 DEF Understood
<1>13. Alike(Said(l, "CONNECTION_PORT", 16166), Said(k, "LISTENING_PORT", 16166), 65536)
  BY <1>5, <1>6, <1>8, <1>9, AlikeNumbers DEF Understood
<1>14. Alike(Said(l, "CONNECTION_DISCOVERY_SERVER_ID", 0),
             Said(k, "LISTENING_DISCOVERY_SERVER_ID", 0), 256)
  BY <1>5, <1>6, <1>8, <1>10, AlikeNumbers DEF Understood
<1> QED
  BY <1>8, <1>11, <1>12, <1>13, <1>14 DEF AsksFor, l, k

(* Whatever lines the processes are started with, and in whatever order they *)
(* start and stop: a process linked to a server has named the transport, the *)
(* port and the id of that server, though options may be repeated, left to   *)
(* their defaults or meant for others, and only 16 bits of a port and 8 of   *)
(* an id are kept.                                                           *)
THEOREM LinksAsAsked == StartSpec => []LinkedAsAsked
<1>1. StartInit => StartIInv
  BY DEF StartInit, StartIInv, LinkedAsAsked
<1>2. ASSUME StartIInv, [StartNext]_startVars PROVE StartIInv'
  <2>1. ASSUME NEW p \in Processes, Start(p) PROVE StartIInv'
    <3>1. line' = line /\ linked' = linked
      BY <2>1 DEF Start
    <3>2. LinkedAsAsked'
      BY <1>2, <3>1 DEF StartIInv, LinkedAsAsked
    <3>3. DOMAIN status' = Processes /\ DOMAIN participant' = Processes
      BY <1>2, <2>1 DEF StartIInv, Start
    <3>4. ASSUME NEW q \in Processes, status'[q] = "running"
          PROVE  /\ Outcome(line[q]) = "start"
                 /\ participant'[q] = Initialised(line[q]) /\ participant'[q] # None
      <4>1. CASE q = p
        <5> DEFINE made == IF Outcome(line[p]) = "start" THEN Initialised(line[p]) ELSE None
        <5> HIDE DEF made
        <5>1. /\ participant' = [participant EXCEPT ![p] = made]
              /\ status' = [status EXCEPT ![p] = IF made # None THEN "running"
                                ELSE IF Outcome(line[p]) = "usage" THEN "usage" ELSE "error"]
          BY <2>1 DEF Start, made
        <5>2. made # None /\ participant'[p] = made
          BY <1>2, <3>4, <4>1, <5>1 DEF StartIInv
        <5> QED
          BY <4>1, <5>2 DEF made
      <4>2. CASE q # p
        <5>1. status'[q] = status[q] /\ participant'[q] = participant[q]
          BY <1>2, <2>1, <4>2 DEF StartIInv, Start
        <5> QED
          BY <1>2, <3>4, <5>1 DEF StartIInv
      <4> QED
        BY <4>1, <4>2
    <3> QED
      BY <1>2, <3>1, <3>2, <3>3, <3>4 DEF StartIInv
  <2>2. ASSUME NEW p \in Processes, Stop(p) PROVE StartIInv'
    <3>1. /\ line' = line /\ linked' \subseteq linked
          /\ status' = [status EXCEPT ![p] = "ended"]
          /\ participant' = [participant EXCEPT ![p] = None]
      BY <2>2 DEF Stop
    <3>2. LinkedAsAsked'
      BY <1>2, <3>1 DEF StartIInv, LinkedAsAsked
    <3> QED
      BY <1>2, <3>1, <3>2 DEF StartIInv
  <2>3. ASSUME NEW p \in Processes, NEW s \in Processes, Link(p, s) PROVE StartIInv'
    <3>1. /\ UNCHANGED <<line, status, participant>>
          /\ linked' = linked \cup {<<p, s>>}
      BY <2>3 DEF Link
    <3>2. AsksFor(line[p], line[s])
      BY <1>2, <2>3, LinkAsks
    <3>3. LinkedAsAsked'
      BY <1>2, <3>1, <3>2 DEF StartIInv, LinkedAsAsked
    <3> QED
      BY <1>2, <3>1, <3>3 DEF StartIInv
  <2>4. ASSUME UNCHANGED <<line, status, participant, linked>> PROVE StartIInv'
    BY <1>2, <2>4 DEF StartIInv, LinkedAsAsked
  <2> QED
    BY <1>2, <2>1, <2>2, <2>3, <2>4 DEF StartNext, Match, startVars
<1>3. StartIInv => LinkedAsAsked
  BY DEF StartIInv
<1> QED
  BY <1>1, <1>2, <1>3, PTL DEF StartSpec
=============================================================================
