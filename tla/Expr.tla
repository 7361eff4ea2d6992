-------------------------------- MODULE Expr --------------------------------
(***************************************************************************)
(* Terms over bit vectors (estimator/expr.hpp): the nodes, the functions   *)
(* that build them and simplify on the way, structural equality, and the   *)
(* merge of two terms.                                                     *)
(*                                                                         *)
(* A node is its operator, its width (0: a truth value), its arguments and *)
(* its numeric parameters, all of which are template parameters or members *)
(* in the code.  Widths are scaled: a byte has Byte bits instead of 8, a   *)
(* word four bytes, a packet length LenBits bits instead of 14.            *)
(***************************************************************************)
EXTENDS Integers, Sequences, FiniteSets, Bitwise

CONSTANTS
    Byte,       \* bits of a byte (8)
    LenBits     \* bits of a packet length (14)

ASSUME WidthAssumption ==
    /\ Byte \in Nat /\ LenBits \in Nat
    /\ Byte < LenBits /\ LenBits < 2 * Byte

Word  == 4 * Byte       \* 32
DWord == 2 * Word       \* 64
Bytes == {Byte, 2 * Byte, 3 * Byte}

-----------------------------------------------------------------------------
(* Nodes.                                                                  *)

Node(op, w, args, k) == [op |-> op, w |-> w, args |-> args, k |-> k]

Const(w, v)    == Node("const", w, <<>>, <<v % 2^w>>)
Bool(b)        == Node("const", 0, <<>>, <<IF b THEN 1 ELSE 0>>)
Var(w, i)      == Node("var", w, <<>>, <<i>>)

\* undef<B>() is one shared object, undef<B>(name) a new one each time.
Shared         == 0
Undef(w, id)   == Node("undef", w, <<>>, <<id>>)

\* Arrays are numbered; those of local memory hold words, the others bytes.
Local          == {0, 1}
ElemBits(i)    == IF i \in Local THEN Word ELSE Byte
ArrayVar(i)    == Node("array", ElemBits(i), <<>>, <<i>>)

\* Pointers into array i: its address plus an offset, the same behind another
\* word, and the same shifted to the right.
Ptr(i, off)         == Node("ptr", Word, <<off>>, <<i>>)
PtrExt(i, off, ext) == Node("ptr_ext", DWord, <<off, ext>>, <<i>>)
PtrBase(i, sh, off) == Node("ptr_base", Word, <<off>>, <<i, sh>>)

\* concrete_storing: an array and a map from constant offsets, in their order.
CStore(array, offs, vals) == Node("cstore", array.w, <<array>> \o vals, offs)

\* The other nodes: they are what their arguments are, or bits, or truth values.
Selection(array, off)     == Node("select", array.w, <<array, off>>, <<>>)
Storing(array, off, val)  == Node("store", array.w, <<array, off, val>>, <<>>)
IfThenElse(c, a, b)       == Node("ite", a.w, <<c, a, b>>, <<>>)
Binary(op, a, b)          == Node(op, a.w, <<a, b>>, <<>>)
OneBit(op, a, b)           == Node(op, 1, <<a, b>>, <<>>)
Rotation(op, e, n)        == Node(op, e.w, <<e>>, <<n>>)
Extraction(s, f, e)       == Node("extract", s - f + 1, <<e>>, <<s, f>>)
Concatenation(a, b)       == Node("concat", a.w + b.w, <<a, b>>, <<>>)
Comparison(op, a, b)      == Node(op, 0, <<a, b>>, <<>>)
Connective(op, a, b)      == Node(op, 0, <<a, b>>, <<>>)
Negation(e)               == Node("not", 0, <<e>>, <<>>)

IsConst(e)     == e.op = "const"
Val(e)         == e.k[1]
Is(e, v)       == IsConst(e) /\ Val(e) = v
IsPtr(e)       == e.op = "ptr"
Left(e)        == e.args[1]
Right(e)       == e.args[2]

\* concatenation<x, ...> and concatenation<..., y>
LeftIn(e, X)   == e.op = "concat" /\ Left(e).w \in X
RightIn(e, Y)  == e.op = "concat" /\ Right(e).w \in Y

\* extraction<s, f, b>
IsExtraction(e, s, f, b) == e.op = "extract" /\ e.k = <<s, f>> /\ Left(e).w = b

-----------------------------------------------------------------------------
(* operator==.  What is not known equals itself only, and itself is: the   *)
(* same object.  Two concrete_storing are compared by std::equal over the  *)
(* map of the first; what is behind the end of a shorter second map is not *)
(* an offset.                                                              *)

RECURSIVE Same(_, _)
Same(a, b) ==
    /\ a.op = b.op /\ a.w = b.w
    /\ IF a.op = "cstore"
       THEN Len(a.k) <= Len(b.k) /\ a.k = SubSeq(b.k, 1, Len(a.k))
       ELSE a.k = b.k
    /\ \A i \in DOMAIN a.args : Same(a.args[i], b.args[i])

-----------------------------------------------------------------------------
(* The functions that build terms.  Each has its rules below; Simplify     *)
(* applies them to the node that would be built.                           *)

RECURSIVE Simplify(_)

Extract(s, f, e) == Simplify(Extraction(s, f, e))
Concat(a, b)     == Simplify(Concatenation(a, b))
Extend(n, e)     == Concat(Const(n, 0), e)
BvNot(e)         == Simplify(Node("bvnot", e.w, <<e>>, <<>>))
BvAnd(a, b)      == Simplify(Binary("bvand", a, b))
BvOr(a, b)       == Simplify(Binary("bvor", a, b))
BvXor(a, b)      == Simplify(Binary("bvxor", a, b))
BvShl(a, b)      == Simplify(Binary("bvshl", a, b))
BvLshr(a, b)     == Simplify(Binary("bvlshr", a, b))
BvAdd(a, b)      == Simplify(Binary("bvadd", a, b))
BvSub(a, b)      == Simplify(Binary("bvsub", a, b))
BvComp(a, b)     == Simplify(OneBit("bvcomp", a, b))
BvUge(a, b)      == Simplify(Comparison("bvuge", a, b))
BvUlt(a, b)      == Simplify(Comparison("bvult", a, b))
Eq(a, b)         == Simplify(Comparison("=", a, b))
Store(array, off, val) == Simplify(Storing(array, off, val))

\* No rules for these.
BvAshr(a, b)     == Binary("bvashr", a, b)
BvRotl(e, n)     == Rotation("bvrotl", e, n)
BvRotr(e, n)     == Rotation("bvrotr", e, n)
BvMul(a, b)      == Binary("bvmul", a, b)
BvAddCarry(a, b) == OneBit("bvadd_carry", a, b)
BvSubCarry(a, b) == OneBit("bvsub_carry", a, b)

-----------------------------------------------------------------------------
(* Extraction and concatenation.                                           *)

ExtractsAll(s, f, e)     == s + 1 = e.w /\ f = 0
ExtractsPointer(s, f, e) == e.op = "ptr_ext" /\ <<s, f>> \in {<<Word - 1, 0>>, <<DWord - 1, Word>>}

\* Bits s down to f of a concatenation that is split inside or beside them.
ExtractsConcatLeft(s, f, e) ==
    /\ RightIn(e, Bytes \cup {Word + 1})
    /\ s >= Right(e).w
    /\ LET aligned == e.w % Byte = 0 /\ e.w <= DWord
       IN  \/ f >= Right(e).w /\ aligned
           \/ f < Right(e).w /\ aligned /\ Right(e).w % Byte = 0
           \/ f = 0 /\ e.w = DWord + 1

ExtractsConcatRight(s, f, e) == LeftIn(e, Bytes) /\ s < Right(e).w /\ e.w <= DWord

\* Bits of an extraction of the upper or of the lower part of a term.
ExtractsExtractLeft(s, f, e) ==
    /\ \E x \in Bytes \cup {Word, Word + 1} : IsExtraction(e, e.w + x - 1, x, e.w + x)
    /\ \/ s = f /\ s = e.w - 1 /\ e.w % Word = 1
       \/ e.w % Byte = 0 /\ e.w <= Word

ExtractsExtractRight(s, f, e) ==
    /\ \E x \in Bytes : IsExtraction(e, e.w - 1, 0, e.w + x)
    /\ e.w % Byte = 0 /\ e.w <= Word

ExtractRules(s, f, e) ==
    IF IsConst(e) THEN Const(s - f + 1, Val(e) \div 2^f)
    ELSE IF ExtractsAll(s, f, e) THEN e
    ELSE IF ExtractsPointer(s, f, e) THEN IF f = 0 THEN Ptr(e.k[1], Left(e)) ELSE Right(e)
    ELSE IF f > 0 /\ RightIn(e, {f}) THEN Extract(s - f, 0, Left(e))
    ELSE IF RightIn(e, {s + 1}) THEN Extract(s, f, Right(e))
    ELSE IF ExtractsConcatLeft(s, f, e)
    THEN LET r == Right(e).w
         IN  IF f >= r THEN Extract(s - r, f - r, Left(e))
             ELSE Concat(Extract(s - r, 0, Left(e)), Extract(r - 1, f, Right(e)))
    ELSE IF ExtractsConcatRight(s, f, e) THEN Extract(s, f, Right(e))
    ELSE IF ExtractsExtractLeft(s, f, e)
    THEN Extract(s + Left(e).w - e.w, f + Left(e).w - e.w, Left(e))
    ELSE IF ExtractsExtractRight(s, f, e) THEN Extract(s, f, Left(e))
    ELSE Extraction(s, f, e)

\* Two constants side by side, the second one in front of a term.
MergesConstants(a, b) ==
    /\ IsConst(a) /\ a.w \in {1, Word - 1}
    /\ (a.w + b.w) % Byte # 0 /\ a.w + b.w <= DWord
    /\ LeftIn(b, Bytes \cup {1, Word - LenBits}) /\ IsConst(Left(b))

\* A constant in front of the upper part of a term.
PullsExtract(a, b) ==
    IsConst(a) /\ a.w + b.w + Word <= DWord + 1 /\ IsExtraction(b, Word + b.w - 1, Word, Word + b.w)

ConcatsPointer(a, b)   == a.w = Word /\ IsPtr(b)
ConcatsConstants(a, b) == IsConst(a) /\ IsConst(b) /\ a.w + b.w <= DWord
PullsConcat(a)         == LeftIn(a, {Byte})

ConcatRules(a, b) ==
    LET w == a.w + b.w
    IN
    IF ConcatsPointer(a, b) THEN PtrExt(b.k[1], Left(b), a)
    ELSE IF ConcatsConstants(a, b) THEN Const(w, Val(a) * 2^b.w + Val(b))
    ELSE IF MergesConstants(a, b)
    THEN LET l == Left(b)
         IN  Concat(Const(a.w + l.w, Val(a) * 2^l.w + Val(l)), Right(b))
    ELSE IF PullsExtract(a, b) THEN Extract(Word + w - 1, Word, Concat(a, Left(b)))
    ELSE IF PullsConcat(a) THEN Concat(Left(a), Concat(Right(a), b))
    ELSE Concatenation(a, b)

-----------------------------------------------------------------------------
(* And, or, xor, not.                                                      *)

BvNotRules(e) == IF IsConst(e) THEN Const(e.w, 2^e.w - 1 - Val(e)) ELSE Node("bvnot", e.w, <<e>>, <<>>)

\* The masks of one run of ones among those BVAndExtract is tried with: the
\* lower n bits (those of a packet length only on the left hand side), or all
\* but the lower n bits.
LowMask(m, n, left) ==
    n \in Bytes \cup {Word} \cup (IF left THEN {LenBits} ELSE {}) /\ n < m.w /\ Is(m, 2^n - 1)
HighMask(m, n) == n \in Bytes /\ n < m.w /\ m.w \in Bytes \cup {Word} /\ Is(m, 2^m.w - 2^n)

Runs(m, left) == {n \in 1..m.w : IsConst(m) /\ (LowMask(m, n, left) \/ HighMask(m, n))}

Masked(m, n, e) ==
    IF Is(m, 2^n - 1) THEN Extend(m.w - n, Extract(n - 1, 0, e))
    ELSE Concat(Extract(m.w - 1, n, e), Const(n, 0))

\* A mask that is zero for the part on the left; the code looks at the lower
\* byte of that part, however wide it is.
ClearsLeft(m, e) ==
    /\ IsConst(m) /\ LeftIn(e, Bytes)
    /\ (Val(m) \div 2^Right(e).w) % 2^Byte = 0

FaultyWithoutLeft(m, e) == BvAnd(Const(Right(e).w, Val(m)), Right(e))
WithoutLeft(m, e) == Extend(Left(e).w, BvAnd(Const(Right(e).w, Val(m)), Right(e)))

BvAndRules(a, b) ==
    IF IsConst(a) /\ IsConst(b) THEN Const(a.w, Val(a) & Val(b))
    ELSE IF Is(a, 2^a.w - 1) THEN b
    ELSE IF Is(b, 2^b.w - 1) THEN a
    ELSE IF \E n \in Runs(a, TRUE) : TRUE THEN Masked(a, CHOOSE n \in Runs(a, TRUE) : TRUE, b)
    ELSE IF \E n \in Runs(b, FALSE) : TRUE THEN Masked(b, CHOOSE n \in Runs(b, FALSE) : TRUE, a)
    ELSE IF ClearsLeft(a, b) THEN WithoutLeft(a, b)
    ELSE IF ClearsLeft(b, a) THEN WithoutLeft(b, a)
    ELSE Binary("bvand", a, b)

\* BVOrConcats: both sides are concatenations; the wider part on the left is
\* split where the other one ends.
BvOrSplit(a, b) ==
    LET x == Left(a).w
        y == Left(b).w
        w == a.w
    IN
    IF x = y THEN Concat(BvOr(Left(a), Left(b)), BvOr(Right(a), Right(b)))
    ELSE IF x > y
    THEN Concat(BvOr(Extract(x - 1, x - y, Left(a)), Left(b)),
                Concat(BvOr(Extract(x - y - 1, 0, Left(a)), Extract(w - y - 1, w - x, Right(b))),
                       BvOr(Right(a), Extract(w - x - 1, 0, Right(b)))))
    ELSE Concat(BvOr(Left(a), Extract(y - 1, y - x, Left(b))),
                Concat(BvOr(Extract(w - x - 1, w - y, Right(a)), Extract(y - x - 1, 0, Left(b))),
                       BvOr(Extract(w - y - 1, 0, Right(a)), Right(b))))

BvOrRules(a, b) ==
    IF IsConst(a) /\ IsConst(b) THEN Const(a.w, Val(a) | Val(b))
    ELSE IF Is(a, 0) THEN b
    ELSE IF Is(b, 0) THEN a
    ELSE IF LeftIn(a, Bytes) /\ LeftIn(b, Bytes) THEN BvOrSplit(a, b)
    ELSE Binary("bvor", a, b)

BvXorRules(a, b) ==
    IF IsConst(a) /\ IsConst(b) THEN Const(a.w, Val(a) ^^ Val(b))
    ELSE IF Is(a, 0) THEN b
    ELSE IF Is(b, 0) THEN a
    ELSE Binary("bvxor", a, b)

-----------------------------------------------------------------------------
(* Shifts by whole bytes become concatenations.                            *)

WholeBytes(w, b) == IsConst(b) /\ Val(b) \in Bytes /\ Val(b) < w

ShiftsOut(a, b)     == WholeBytes(a.w, b) /\ LeftIn(a, {Val(b)})
ShiftsThrough(a, b) == WholeBytes(a.w, b) /\ LeftIn(a, {Byte}) /\ a.w >= Val(b) + Byte

\* A pointer without its lower bits gets them back.
ShiftsPointer(a, b) == a.op = "ptr_base" /\ IsConst(b) /\ a.k[2] >= Val(b)

BvShlRules(a, b) ==
    LET n == Val(b)
        w == a.w
    IN
    IF IsConst(a) /\ IsConst(b) THEN Const(w, IF n >= w THEN 0 ELSE (Val(a) % 2^(w - n)) * 2^n)
    ELSE IF ShiftsPointer(a, b)
    THEN IF a.k[2] = n THEN Ptr(a.k[1], Left(a)) ELSE PtrBase(a.k[1], a.k[2] - n, Left(a))
    ELSE IF ShiftsOut(a, b) THEN Concat(Right(a), Const(n, 0))
    ELSE IF WholeBytes(w, b) THEN Concat(Extract(w - n - 1, 0, a), Const(n, 0))
    ELSE Binary("bvshl", a, b)

BvLshrRules(a, b) ==
    LET n == Val(b)
        w == a.w
        r == Right(a).w
    IN
    IF IsConst(a) /\ IsConst(b) THEN Const(w, IF n >= w THEN 0 ELSE Val(a) \div 2^n)
    ELSE IF ShiftsThrough(a, b)
    THEN IF w = n + Byte THEN Extend(n, Left(a))
         ELSE Extend(n, Concat(Left(a), Extract(r - n - 1, 0, BvLshr(Right(a), Const(r, n)))))
    ELSE IF WholeBytes(w, b) THEN Extend(n, Extract(w - 1, n, a))
    ELSE Binary("bvlshr", a, b)

-----------------------------------------------------------------------------
(* Addition and subtraction.                                               *)

\* BVAddPullExtract: the upper part of a longer sum.
IsUpper(e) == IsExtraction(e, e.w + Word - 1, Word, e.w + Word) /\ e.w + Word <= DWord + 1
AddUpper(a, e) == Extract(e.w + Word - 1, Word, BvAdd(Concat(a, Const(Word, 0)), Left(e)))

\* A number is added to the offset of a pointer.
AddPtr(p, e)     == Ptr(p.k[1], BvAdd(Left(p), e))
AddPtrExt(p, e)  == PtrExt(p.k[1], BvAdd(Left(p), Extract(Word - 1, 0, e)),
                                   BvAdd(Right(p), Extract(DWord - 1, Word, e)))
AddPtrBase(p, e) == PtrBase(p.k[1], p.k[2], BvAdd(Left(p), BvShl(e, Const(Word, p.k[2]))))

AddConst(a, b)  == \/ IsConst(a) /\ (IsConst(b) \/ Val(a) = 0)
                   \/ Is(b, 0)
SumOfConst(a, b) == IF IsConst(a) /\ IsConst(b) THEN Const(a.w, Val(a) + Val(b))
                    ELSE IF IsConst(a) THEN b ELSE a

BvAddRules(a, b) ==
    IF AddConst(a, b) /\ a.w <= DWord THEN SumOfConst(a, b)
    ELSE IF IsPtr(a) /\ ~IsPtr(b) THEN AddPtr(a, b)
    ELSE IF ~IsPtr(a) /\ IsPtr(b) THEN AddPtr(b, a)
    ELSE IF a.op = "ptr_ext" /\ b.op # "ptr_ext" THEN AddPtrExt(a, b)
    ELSE IF a.op # "ptr_ext" /\ b.op = "ptr_ext" THEN AddPtrExt(b, a)
    ELSE IF a.op = "ptr_base" /\ b.op # "ptr_base" THEN AddPtrBase(a, b)
    ELSE IF a.op # "ptr_base" /\ b.op = "ptr_base" THEN AddPtrBase(b, a)
    ELSE IF IsUpper(b) THEN AddUpper(a, b)
    ELSE IF IsUpper(a) THEN AddUpper(b, a)
    ELSE Binary("bvadd", a, b)

SubConst(a, b) == IF IsConst(a) THEN Const(a.w, Val(a) - Val(b)) ELSE a
SubPtr(p, e)   == IF IsPtr(e) THEN BvSub(Left(p), Left(e)) ELSE Ptr(p.k[1], BvSub(Left(p), e))

BvSubRules(a, b) ==
    IF a.w <= DWord /\ IsConst(b) /\ (IsConst(a) \/ Val(b) = 0) THEN SubConst(a, b)
    ELSE IF IsPtr(a) THEN SubPtr(a, b)
    ELSE Binary("bvsub", a, b)

-----------------------------------------------------------------------------
(* Comparisons and truth values.                                           *)

\* A pointer into memory is not null, and bits or-ed together are zero if all are.
BvCompRules(a, b) ==
    LET NotNull(p) == \/ IsPtr(p) /\ ElemBits(p.k[1]) = Byte
                      \/ p.op = "ptr_base"
    IN
    IF IsConst(a) /\ IsConst(b) THEN Const(1, IF Val(a) = Val(b) THEN 1 ELSE 0)
    ELSE IF (Is(a, 0) /\ NotNull(b)) \/ (Is(b, 0) /\ NotNull(a)) THEN Const(1, 0)
    ELSE IF Is(a, 0) /\ b.op = "bvor" THEN BvAnd(BvComp(a, Left(b)), BvComp(a, Right(b)))
    ELSE IF Is(b, 0) /\ a.op = "bvor" THEN BvAnd(BvComp(Left(a), b), BvComp(Right(a), b))
    ELSE OneBit("bvcomp", a, b)

\* Wherever the upper part ends.
FaultyUpperConst(a, b) == IsConst(b) /\ a.op = "concat" /\ IsConst(Left(a))

\* BVUGEConcatConstant, BVULTConcatConstant: a constant upper part decides, or
\* the lower parts are compared, if the upper part has one of these widths.
\* No condition of a branch is split there: bcc and bcs compare words, and two
\* words each that -carry concatenated (32 and 32 bits, not 31 and 33).
UpperConst(a, b) ==
    /\ IsConst(b) /\ a.op = "concat" /\ IsConst(Left(a))
    /\ \/ a.w = DWord /\ Left(a).w = Word - 1
       \/ a.w = Word + 1 /\ Left(a).w = Word + 1 - LenBits

Upper(a, b) == Val(b) \div 2^Right(a).w
Lower(a, b) == Const(Right(a).w, Val(b))

BvUgeRules(a, b) ==
    IF IsConst(a) /\ IsConst(b) THEN Bool(Val(a) >= Val(b))
    ELSE IF UpperConst(a, b)
    THEN IF Val(Left(a)) = Upper(a, b) THEN BvUge(Right(a), Lower(a, b))
         ELSE Bool(Val(Left(a)) > Upper(a, b))
    ELSE Comparison("bvuge", a, b)

BvUltRules(a, b) ==
    IF IsConst(a) /\ IsConst(b) THEN Bool(Val(a) < Val(b))
    ELSE IF UpperConst(a, b)
    THEN IF Val(Left(a)) = Upper(a, b) THEN BvUlt(Right(a), Lower(a, b))
         ELSE Bool(Val(Left(a)) < Upper(a, b))
    ELSE Comparison("bvult", a, b)

BvUle(a, b) == IF IsConst(a) /\ IsConst(b) THEN Bool(Val(a) <= Val(b)) ELSE Comparison("bvule", a, b)
BvUgt(a, b) == IF IsConst(a) /\ IsConst(b) THEN Bool(Val(a) > Val(b)) ELSE Comparison("bvugt", a, b)

IsFalse(e) ==
    IF IsConst(e) THEN Bool(Val(e) = 0)
    ELSE IF e.op = "bvult" /\ Left(e).w \in {LenBits, Word, DWord} THEN BvUge(Left(e), Right(e))
    ELSE Negation(e)

EqRules(a, b) == IF Same(a, b) THEN Bool(TRUE) ELSE Comparison("=", a, b)

LOr(a, b) ==
    IF Is(a, 0) \/ Is(b, 1) THEN b
    ELSE IF Is(a, 1) \/ Is(b, 0) THEN a
    ELSE Connective("or", a, b)

LAnd(a, b) ==
    IF Is(a, 1) \/ Is(b, 0) THEN b
    ELSE IF Is(a, 0) \/ Is(b, 1) THEN a
    ELSE Connective("and", a, b)

Ite(c, a, b) ==
    IF IsConst(c) THEN IF Val(c) = 1 THEN a ELSE b
    ELSE IfThenElse(c, a, b)

-----------------------------------------------------------------------------
(* Arrays.  A store at a constant offset goes to a map.                    *)

Stored(m, off) == {i \in DOMAIN m.k : m.k[i] = off}

Select(array, off) ==
    IF array.op = "cstore" /\ IsConst(off)
    THEN IF Stored(array, Val(off)) # {}
         THEN LET i == CHOOSE i \in Stored(array, Val(off)) : TRUE IN array.args[i + 1]
         ELSE Selection(Left(array), off)
    ELSE Selection(array, off)

\* The map with one more entry, or another value for one: n offsets are below
\* it, and the entries from number rest on are above.
Spliced(m, off, val, vals, n, rest) ==
    CStore(Left(m), SubSeq(m.k, 1, n) \o <<off>> \o SubSeq(m.k, rest, Len(m.k)),
                    SubSeq(vals, 1, n) \o <<val>> \o SubSeq(vals, rest, Len(vals)))

Insert(m, off, val) ==
    Spliced(m, off, val, Tail(m.args),
            Cardinality({i \in DOMAIN m.k : m.k[i] < off}),
            1 + Cardinality({i \in DOMAIN m.k : m.k[i] <= off}))

StoreRules(array, off, val) ==
    IF ~IsConst(off) THEN Storing(array, off, val)
    ELSE Insert(IF array.op = "cstore" THEN array ELSE CStore(array, <<>>, <<>>), Val(off), val)

-----------------------------------------------------------------------------

Simplify(e) ==
    CASE e.op = "extract" -> ExtractRules(e.k[1], e.k[2], Left(e))
      [] e.op = "concat"  -> ConcatRules(Left(e), Right(e))
      [] e.op = "bvnot"   -> BvNotRules(Left(e))
      [] e.op = "bvand"   -> BvAndRules(Left(e), Right(e))
      [] e.op = "bvor"    -> BvOrRules(Left(e), Right(e))
      [] e.op = "bvxor"   -> BvXorRules(Left(e), Right(e))
      [] e.op = "bvshl"   -> BvShlRules(Left(e), Right(e))
      [] e.op = "bvlshr"  -> BvLshrRules(Left(e), Right(e))
      [] e.op = "bvadd"   -> BvAddRules(Left(e), Right(e))
      [] e.op = "bvsub"   -> BvSubRules(Left(e), Right(e))
      [] e.op = "bvcomp"  -> BvCompRules(Left(e), Right(e))
      [] e.op = "bvuge"   -> BvUgeRules(Left(e), Right(e))
      [] e.op = "bvult"   -> BvUltRules(Left(e), Right(e))
      [] e.op = "="       -> EqRules(Left(e), Right(e))
      [] e.op = "store"   -> StoreRules(Left(e), Right(e), e.args[3])

-----------------------------------------------------------------------------
(* static_merge: what holds whichever of two terms it is.                  *)

RECURSIVE StaticMerge(_, _)
StaticMerge(a, b) ==
    IF Same(a, b) THEN a
    ELSE IF a.op = "concat" /\ b.op = "concat" /\ Left(a).w = Left(b).w
    THEN Concat(StaticMerge(Left(a), Left(b)), StaticMerge(Right(a), Right(b)))
    ELSE IF a.op = "cstore" /\ b.op = "cstore"
    THEN LET array == StaticMerge(Left(a), Left(b))
             offs  == {a.k[i] : i \in DOMAIN a.k} \cup {b.k[i] : i \in DOMAIN b.k}
             Of(m, o) == m.args[(CHOOSE i \in Stored(m, o) : TRUE) + 1]
             Merged(o) == IF Stored(a, o) # {} /\ Stored(b, o) # {}
                          THEN StaticMerge(Of(a, o), Of(b, o))
                          ELSE Undef(a.w, Shared)
             RECURSIVE Add(_, _)
             Add(m, S) == IF S = {} THEN m
                          ELSE LET o == CHOOSE o \in S : TRUE
                               IN  Add(Insert(m, o, Merged(o)), S \ {o})
         IN  Add(CStore(array, <<>>, <<>>), offs)
    ELSE Undef(a.w, Shared)
=============================================================================
