-------------------------------- MODULE Instr --------------------------------
(***************************************************************************)
(* What the instructions of a micro engine do to a symbolic state          *)
(* (estimator/instr.cpp, instr.hpp): every instruction reads terms from    *)
(* the state it is given and returns the updates to store, the condition   *)
(* of a branch is a term as well.                                          *)
(*                                                                         *)
(* Places are tuples: registers <<"A", n>>, <<"B", n>>, transfer registers *)
(* <<"in", n>>, <<"out", n>>, hidden registers such as <<"PREV_A", 0>>,    *)
(* <<"lmaddr", n>> for ActLMAddr, flags <<"N", 0>>, ..., and arrays        *)
(* <<"mem", i>>.  An operand is a register, <<"lm", addr, offset>>,        *)
(* <<"const", v>> or <<"omitted">>.                                        *)
(*                                                                         *)
(* The part of state::exec the instructions see: st.at has the terms of    *)
(* the places written so far, st.made numbers the objects made for what    *)
(* is not known.                                                           *)
(***************************************************************************)
EXTENDS Expr

N == <<"N", 0>>
Z == <<"Z", 0>>
V == <<"V", 0>>
C == <<"C", 0>>
PREV_A    == <<"PREV_A", 0>>
PREV_ALU  == <<"PREV_ALU", 0>>
mulA      == <<"mulA", 0>>
mulB      == <<"mulB", 0>>
mul_state == <<"mul_state", 0>>
Mem(i)    == <<"mem", i>>

Flags     == {N, Z, V, C}
IsMem(l)  == l[1] = "mem"
WidthOf(l) == IF l \in Flags THEN 1 ELSE IF IsMem(l) THEN ElemBits(l[2]) ELSE Word

\* undef<B>(name): a new object every time; site tells those of one
\* instruction apart.
New(st, site, w) == Undef(w, 32 * st.made + site)

\* state::exec::operator[]
At(st, site, l) == IF l \in DOMAIN st.at THEN st.at[l] ELSE New(st, site, WidthOf(l))

-----------------------------------------------------------------------------
(* Updates: what to store where, when and whether memory is to be          *)
(* forgotten instead (invalidate_mem).                                     *)

Update(l, e)     == [at |-> l, e |-> e, after |-> 0]
Defer(cycles, u) == [u EXCEPT !.after = cycles]
Forget           == [at |-> <<"mem">>, e |-> Undef(Byte, Shared), after |-> 0]

-----------------------------------------------------------------------------
(* Operands.                                                               *)

LmWrite_latency == 3

\* The word of local memory a *l$index operand is: <<>> if it is not known.
LmWordAt(ptr, offset) ==
    IF IsPtr(ptr) /\ ptr.k[1] \in Local /\ IsConst(Left(ptr)) /\ Val(Left(ptr)) % 4 = 0
    THEN <<ptr.k[1], Val(Left(ptr)) \div 4 + offset>>
    ELSE <<>>

LmWord(st, site, o) == LmWordAt(At(st, site, <<"lmaddr", o[2]>>), o[3])

LmRead(st, site, w) ==
    IF w = <<>> THEN New(st, site, Word)
    ELSE Select(At(st, site, Mem(w[1])), Const(Word, w[2]))

Read(st, site, o) ==
    CASE o[1] = "const"   -> Const(Word, o[2])
      [] o[1] = "omitted" -> New(st, site, Word)
      [] o[1] = "lm"      -> LmRead(st, site, LmWord(st, site, o))
      [] OTHER            -> At(st, site, o)

LmWrite(st, w, e) ==
    IF w = <<>> THEN <<Forget>>
    ELSE <<Update(Mem(w[1]), Store(At(st, 4, Mem(w[1])), Const(Word, w[2]), e))>>

\* The updates of one write; an omitted destination has none.
Write(st, o, e) ==
    CASE o[1] = "omitted" -> <<>>
      [] o[1] = "lm"      -> LmWrite(st, LmWord(st, 4, o), e)
      [] OTHER            -> <<Update(o, e)>>

\* The former value of a destination, where that can be read at all.
Former(st, dst) == IF dst[1] = "out" THEN New(st, 3, Word) ELSE Read(st, 3, dst)

Flip(o) == <<IF o[1] = "A" THEN "B" ELSE "A", o[2]>>

\* shift_cntl: <<"none">>, <<"left", n>>, <<"right", n>>, <<"rotl", n>>,
\* <<"rotr", n>>, or by the lower bits of PREV_A: <<"left">>, <<"right">>.
Widen(w, e)  == IF e.w = w THEN e ELSE Extend(w - e.w, e)
Indirect(st) == BvAnd(At(st, 5, PREV_A), Const(Word, Word - 1))

ShiftOp(sc, e, by) ==
    CASE sc[1] = "none"  -> e
      [] sc[1] = "left"  -> BvShl(e, by)
      [] sc[1] = "right" -> IF e.w = Word + 1 THEN BvAshr(e, by) ELSE BvLshr(e, by)
      [] sc[1] = "rotl"  -> BvRotl(e, sc[2])
      [] sc[1] = "rotr"  -> BvRotr(e, sc[2])

Shift(st, sc, e) == ShiftOp(sc, e, IF Len(sc) = 2 THEN Const(e.w, sc[2]) ELSE Widen(e.w, Indirect(st)))

-----------------------------------------------------------------------------
(* alu_op: the result and the flags V and C.                               *)

Sign(e) == Extract(Word - 1, Word - 1, e)
Carried(e) == Extract(Word, Word, e)

Result(dst, v, c)  == [dst |-> dst, v |-> v, c |-> c, more |-> <<>>]
Logic(dst)         == Result(dst, Const(1, 0), Const(1, 0))
WithoutFlags(dst)  == Result(dst, Undef(1, Shared), Undef(1, Shared))

\* Sums are <<sum, sum of one bit more, carry>>.
Sum(s) == Result(s[1], BvXor(Carried(s[2]), Sign(s[1])), s[3])

Plus(A, B) == <<BvAdd(A, B), BvAdd(Extend(1, A), Extend(1, B)), BvAddCarry(A, B)>>

\* C is still the carry of two words
CarryOf(op, c) == c.op = op /\ Left(c).w = Word

\* Another bit is added; where the sum is that of a longer one, so is C.
PlusBits(AB, e, wide, long) ==
    <<BvAdd(AB, e), wide, IF long THEN Carried(wide) ELSE BvAddCarry(AB, e)>>
PlusBit(A, B, bit, long) ==
    PlusBits(BvAdd(A, B), Extend(Word - 1, bit),
             BvAdd(BvAdd(Extend(1, A), Extend(1, B)), Extend(Word, bit)), long)

\* The carry that follows from the words it is the carry of.
CarryBit(c) == Extract(Left(c).w, Left(c).w, BvAdd(Extend(1, Left(c)), Extend(1, Right(c))))

\* Two words each.
PlusLong(a, b) ==
    <<Extract(DWord - 1, Word, BvAdd(a, b)),
      Extract(DWord, Word, BvAdd(Extend(1, a), Extend(1, b))),
      BvAddCarry(a, b)>>

PlusCarry(A, B, c) ==
    LET known == CarryOf("bvadd_carry", c)
    IN  IF known /\ A.op # "ptr_base" THEN PlusLong(Concat(A, Left(c)), Concat(B, Right(c)))
        ELSE PlusBit(A, B, IF known THEN CarryBit(c) ELSE c, known)

\* Differences are <<first, second, difference, carry>>.
Difference(d) ==
    Result(d[3], BvAnd(BvXor(Sign(d[1]), Sign(d[2])), BvNot(BvXor(Sign(d[2]), Sign(d[3])))), d[4])

Minus(A, B) == <<A, B, BvSub(A, B), BvSubCarry(A, B)>>

MinusBit(A, B, AB, e) == <<A, B, BvSub(AB, e), BvSubCarry(AB, e)>>
MinusLong(A, B, a, b) == <<A, B, Extract(DWord - 1, Word, BvSub(a, b)), BvSubCarry(a, b)>>

MinusCarry(A, B, c) ==
    IF CarryOf("bvsub_carry", c) THEN MinusLong(A, B, Concat(A, Left(c)), Concat(B, Right(c)))
    ELSE MinusBit(A, B, BvSub(A, B), Extend(Word - 1, c))

\* The lower half word; +8 takes it as well.
LowHalf(e) == BvAnd(e, Const(Word, 2^(2 * Byte) - 1))

LogicOp(op, A, B) ==
    CASE op = "B"    -> B
      [] op = "~B"   -> BvNot(B)
      [] op = "AND"  -> BvAnd(A, B)
      [] op = "~AND" -> BvAnd(BvNot(A), B)
      [] op = "AND~" -> BvAnd(A, BvNot(B))
      [] op = "OR"   -> BvOr(A, B)
      [] op = "XOR"  -> BvXor(A, B)

WritesPrev(op) == op \in {"B", "~B", "AND", "~AND", "AND~", "OR", "XOR"}

AluOp(st, op, A, B) ==
    CASE op \in {"+", "+16", "+8", "+carry"} ->
            Sum(IF op = "+carry" THEN PlusCarry(A, B, At(st, 6, C))
                ELSE Plus(A, IF op = "+" THEN B ELSE LowHalf(B)))
      [] op \in {"-", "-carry", "B-A"} ->
            Difference(IF op = "-carry" THEN MinusCarry(A, B, At(st, 6, C))
                       ELSE IF op = "-" THEN Minus(A, B) ELSE Minus(B, A))
      [] WritesPrev(op) -> Logic(LogicOp(op, A, B))

\* A value that is gone one cycle later.
Passing(l, e) == <<Update(l, e), Defer(1, Update(l, Undef(Word, Shared)))>>

-----------------------------------------------------------------------------
(* calculate() of the instructions that assign.  An instruction is a       *)
(* record: its name, destination, operands, alu_op or mul_step_tok, shift, *)
(* numbers, and whether it is gpr_wrboth, indirect_ref, ctx_swap.          *)

LeavesPrev(r, fn, A) ==
    LET a == Passing(PREV_A, A)
        d == Passing(PREV_ALU, r.dst)
    IN  IF WritesPrev(fn) THEN [r EXCEPT !.more = <<a[1], d[1], a[2], d[2]>>] ELSE r

AluOf(st, fn, A, B) == LeavesPrev(AluOp(st, fn, A, B), fn, A)

Alu(st, i) == AluOf(st, i.fn, Read(st, 1, i.a), Shift(st, i.sc, Read(st, 2, i.b)))

Asr(st, i) ==
    LET prev == At(st, 7, PREV_ALU)
    IN  [Logic(Extract(Word - 1, 0, Shift(st, i.sc, Concat(Sign(prev), Read(st, 1, i.a)))))
            EXCEPT !.more = Passing(PREV_ALU, prev)]

DblShf(st, i) ==
    Logic(Extract(Word - 1, 0, Shift(st, i.sc, Concat(Read(st, 1, i.a), Read(st, 2, i.b)))))

Immed(st, i) ==
    LET im == Const(Word, i.n)
        r  == Extract(DWord - 1, Word, Shift(st, i.sc, Concat(im, im)))
    IN  [WithoutFlags(r) EXCEPT !.more = <<Update(PREV_ALU, r)>>]

ImmedW1(st, i) ==
    WithoutFlags(Concat(Const(2 * Byte, i.n), Extract(2 * Byte - 1, 0, Former(st, i.dst))))

\* The bytes of a word i.n selects: one decimal digit each.
Selected(n) ==
    LET digit(j) == IF (n \div 10^j) % 10 = 0 THEN 0 ELSE (2^Byte - 1) * 2^(j * Byte)
    IN  Const(Word, digit(0) + digit(1) + digit(2) + digit(3))

\* The selected bytes of e, the others as they were: former is <<>> if they are cleared.
Field(n, e, mask, former) ==
    WithoutFlags(IF n = 1111 THEN e
                 ELSE IF former = <<>> THEN BvAnd(e, mask)
                 ELSE BvOr(BvAnd(former[1], BvNot(mask)), BvAnd(e, mask)))

LdField(st, i) ==
    Field(i.n, Shift(st, i.sc, Read(st, 1, i.a)), Selected(i.n),
          IF i.op = "ld_field" THEN <<Former(st, i.dst)>> ELSE <<>>)

\* mul_step: the token that may follow a token, given by the object the
\* former left behind.
Step(tok) == Undef(Word, -tok)
Tokens    == <<"start", "16x16_step1", "16x16_step2", "16x16_last", "32x32_step1",
               "32x32_step2", "32x32_step3", "32x32_step4", "32x32_last", "32x32_last2">>
Before    == <<0, 1, 2, 3, 1, 5, 6, 7, 8, 9>>
Tok(i)    == CHOOSE t \in DOMAIN Tokens : Tokens[t] = i.fn
InSequence(st, t) == Same(At(st, 8, mul_state), Step(Before[t]))

Product(fn, a, b) ==
    IF fn = "32x32_last2" THEN Extract(DWord - 1, Word, BvMul(Extend(Word, a), Extend(Word, b)))
    ELSE BvMul(a, b)

\* A step out of sequence leaves nothing that is known.
OutOfSequence(st) ==
    <<Update(mul_state, New(st, 14, Word)), Update(mulA, New(st, 15, Word)), Update(mulB, New(st, 16, Word))>>

MulStepLast(st, i) ==
    IF InSequence(st, Tok(i))
    THEN [WithoutFlags(Product(i.fn, At(st, 9, mulA), At(st, 10, mulB))) EXCEPT !.more =
            <<Update(mul_state, Step(Tok(i)))>>]
    ELSE [Result(New(st, 11, Word), New(st, 12, 1), New(st, 13, 1)) EXCEPT !.more = OutOfSequence(st)]

Calculate(st, i) ==
    CASE i.op = "alu"      -> Alu(st, i)
      [] i.op = "asr"      -> Asr(st, i)
      [] i.op = "dbl_shf"  -> DblShf(st, i)
      [] i.op = "immed"    -> Immed(st, i)
      [] i.op = "immed_w1" -> ImmedW1(st, i)
      [] i.op \in {"ld_field", "ld_field_w_clr"} -> LdField(st, i)
      [] i.op = "mul_last" -> MulStepLast(st, i)

Assigns   == {"alu", "asr", "dbl_shf", "immed", "immed_w1", "ld_field", "ld_field_w_clr", "mul_last"}
WritesCC(i) == i.op \in (Assigns \ {"immed", "immed_w1"}) \cup {"fin"}

\* assign::perform: what is stored for a result.
Results(st, i, r) ==
    Write(st, i.dst, r.dst)
    \o (IF i.both /\ i.dst[1] \in {"A", "B"} THEN <<Update(Flip(i.dst), r.dst)>> ELSE <<>>)
    \o (IF WritesCC(i)
        THEN <<Update(N, BvComp(Sign(r.dst), Const(1, 1))),
               Update(Z, BvComp(r.dst, Const(Word, 0))),
               Update(V, r.v), Update(C, r.c)>>
        ELSE <<>>)
    \o r.more

Assign(st, i) == Results(st, i, Calculate(st, i))

-----------------------------------------------------------------------------
(* Memory.                                                                 *)

LocalCsrWr(st, i) == <<Defer(LmWrite_latency, Update(i.dst, Read(st, 1, i.a)))>>

MulStepOf(st, i, A, B) ==
    IF i.fn = "start" \/ (InSequence(st, Tok(i)) /\ Same(At(st, 9, mulA), A) /\ Same(At(st, 10, mulB), B))
    THEN <<Update(mul_state, Step(Tok(i))), Update(mulA, A), Update(mulB, B)>>
    ELSE OutOfSequence(st)

MulStep(st, i) == MulStepOf(st, i, Read(st, 1, i.a), Read(st, 2, i.b))

Mems == {"mem_read", "mem_write"}

BytePtr(e) == IsPtr(e) /\ e.k[1] \notin Local

\* How many transfer registers: the first one in any case; RefCntMax stands
\* for 32.
RefCntMax == 2
Xfers(i) ==
    LET cnt == IF i.indirect THEN RefCntMax ELSE i.n
        x   == CASE i.fn \in {"read32_swap", "write32_swap"} -> cnt
                 [] i.fn = "write8_swap" -> (cnt + 3) \div 4
                 [] i.fn = "add_imm"     -> 0
    IN  IF x = 0 THEN 1 ELSE x

\* The address, and how many units are meant.
Address(st, i) == BvAdd(Shift(st, i.sc, Read(st, 1, i.a)), Shift(st, i.sc2, Read(st, 2, i.b)))
Ref(st, i) ==
    IF i.indirect
    THEN BvAdd(BvLshr(At(st, 7, PREV_ALU), Const(Word, Byte)), Const(Word, 1))
    ELSE Const(Word, i.n)

Xfer(l, j) == <<l[1], l[2] + j>>
Offset(e, n) == BvAdd(e, Const(Word, n))

\* Four bytes of an array, the first one below.
Four(array, off, n) ==
    LET byte(b) == Select(array, Offset(off, n + b))
    IN  Concat(byte(3), Concat(byte(2), Concat(byte(1), byte(0))))

\* read32_swap::read of word j
Read32(st, src, j) ==
    IF BytePtr(src) THEN Four(At(st, 17, Mem(src.k[1])), Left(src), 4 * j) ELSE New(st, 18 + j, Word)

MemRead(st, i, src, ref) ==
    LET x(j) == Xfer(i.dst, j)
        \* a read that fails does not move on
        done(j) == IF BytePtr(src) THEN j ELSE 0
        read(j, r) == IF i.indirect THEN Ite(BvUgt(ref, Const(Word, done(j))), r, At(st, 21 + j, x(j))) ELSE r
    IN  [j \in 1..Xfers(i) |-> Update(x(j - 1), read(j - 1, Read32(st, src, j - 1)))]

StoreByte(array, off, n, value, b) ==
    Store(array, Offset(off, n), Extract((b + 1) * Byte - 1, b * Byte, value))

\* A byte is written if so many units are to be; the first one is anyway.
Guarded(ref, n, stored, former) ==
    IF ref = <<>> \/ n % 4 = 1 THEN stored ELSE Ite(BvUge(ref[1], Const(Word, n)), stored, former)

\* The bytes of a word from n on.
StoreBytes(array, off, n, value, ref) ==
    LET written[b \in 0..4] ==
            IF b = 0 THEN array
            ELSE Guarded(ref, n + b, StoreByte(written[b - 1], off, n + b - 1, value, b - 1), written[b - 1])
    IN  written[4]

\* add_imm::write; it is given an offset and looks for a pointer.
AddImm(st, array, off, ref) ==
    IF ~BytePtr(off) THEN New(st, 18, Byte)
    ELSE StoreBytes(array, off, 0, BvAdd(Four(array, Left(off), 0), ref), <<>>)

\* write8_swap::write and write32_swap::write: a byte is written if so many
\* units are to be.
MemWrite(st, i, dst, ref) ==
    LET written[j \in 0..Xfers(i)] ==
            IF j = 0 THEN At(st, 17, Mem(dst.k[1]))
            ELSE IF i.fn = "add_imm" THEN AddImm(st, written[j - 1], Left(dst), ref)
            ELSE StoreBytes(written[j - 1], Left(dst), 4 * (j - 1), At(st, 20 + j, Xfer(i.dst, j - 1)), <<ref>>)
    IN  IF BytePtr(dst) THEN <<Update(Mem(dst.k[1]), written[Xfers(i)])>>
        ELSE <<Forget>>

MemOf(st, i, addr, ref) ==
    IF i.op = "mem_read" THEN MemRead(st, i, addr, ref) ELSE MemWrite(st, i, addr, ref)

\* perform() of every instruction
Perform(st, i) ==
    CASE i.op \in Assigns        -> Assign(st, i)
      [] i.op = "local_csr_wr"   -> LocalCsrWr(st, i)
      [] i.op = "mul_step"       -> MulStep(st, i)
      [] i.op \in Mems           -> MemOf(st, i, Address(st, i), Ref(st, i))
      [] OTHER                   -> <<>>

-----------------------------------------------------------------------------
(* The conditions of the branches.                                         *)

\* Pointers into one array are compared by their offsets.
SameArray(a, b)    == BytePtr(a) /\ BytePtr(b) /\ a.k[1] = b.k[1]
SameArrayExt(a, b) == a.op = "ptr_ext" /\ b.op = "ptr_ext" /\ a.k[1] = b.k[1]

\* The comparison of two numbers whose difference is, or is not, negative.
Cmp(clear, a, b) == IF clear THEN BvUlt(a, b) ELSE BvUge(a, b)

\* Is the difference C is the borrow of negative, or is it not?
Borrow(a, b, clear) ==
    IF SameArrayExt(a, b)
    THEN LOr(IF clear THEN BvUlt(Right(a), Right(b)) ELSE BvUgt(Right(a), Right(b)),
             LAnd(Eq(Right(a), Right(b)), Cmp(clear, Left(a), Left(b))))
    ELSE LET of(e) == IF SameArray(a, b) THEN Left(e) ELSE e
         IN  Cmp(clear, of(a), of(b))

CheckCarry(c, clear) ==
    IF c.op = "bvsub_carry" THEN Borrow(Left(c), Right(c), clear)
    ELSE Eq(IF c.op = "bvadd_carry" THEN CarryBit(c) ELSE c, Const(1, IF clear THEN 0 ELSE 1))

FlagIs(st, l, v) == Eq(At(st, 3, l), Const(1, v))
NIsV(st)         == Eq(At(st, 1, N), At(st, 2, V))
NIsNotV(st)      == IsFalse(NIsV(st))

Check(st, i) ==
    CASE i.op \in {"bcc", "bcs"} -> CheckCarry(At(st, 6, C), i.op = "bcc")
      [] i.op \in {"beq", "bne"} -> FlagIs(st, Z, IF i.op = "beq" THEN 1 ELSE 0)
      [] i.op \in {"bmi", "bpl"} -> FlagIs(st, N, IF i.op = "bmi" THEN 1 ELSE 0)
      [] i.op \in {"bvs", "bvc"} -> FlagIs(st, V, IF i.op = "bvs" THEN 1 ELSE 0)
      [] i.op = "bge" -> NIsV(st)
      [] i.op = "blt" -> NIsNotV(st)
      [] i.op = "bgt" -> LAnd(FlagIs(st, Z, 0), NIsV(st))
      [] i.op = "ble" -> LOr(FlagIs(st, Z, 1), NIsNotV(st))

Branches == {"bcc", "bcs", "beq", "bne", "bmi", "bpl", "bvs", "bvc", "bge", "blt", "bgt", "ble"}

-----------------------------------------------------------------------------
(* perf::cycles, given the cycles since the flags were written and since   *)
(* the last memory access.                                                 *)

MemCycles(i, sincemem) ==
    LET max == IF i.sc = <<"none">> /\ i.sc2 = <<"none">> THEN 16 ELSE 25
    IN  IF ~i.swap THEN 1 ELSE IF sincemem >= max - 3 THEN 3 ELSE max - sincemem

Cycles(i, sincecc, sincemem, branchtrue) ==
    CASE i.op \in Branches -> IF ~branchtrue THEN 1 ELSE IF sincecc > 0 THEN 3 ELSE 4
      [] i.op = "br"       -> 4
      [] i.op \in Mems     -> MemCycles(i, sincemem)
      [] i.op = "fin"      -> 0
      [] OTHER             -> 1
=============================================================================
