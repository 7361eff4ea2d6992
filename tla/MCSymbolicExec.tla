--------------------------- MODULE MCSymbolicExec ---------------------------
EXTENDS SymbolicExec, TLC

Ins(op) == [op |-> op, dst |-> <<"omitted">>, a |-> <<"omitted">>, b |-> <<"omitted">>,
            fn |-> "", sc |-> <<"none">>, sc2 |-> <<"none">>, n |-> 0,
            both |-> FALSE, indirect |-> FALSE, swap |-> FALSE]

\* Operands.
K(n)  == <<"const", n>>
No    == <<"omitted">>
A0    == <<"A", 0>>
A1    == <<"A", 1>>
B0    == <<"B", 0>>
B1    == <<"B", 1>>
A22   == <<"A", 22>>
B23   == <<"B", 23>>
In0   == <<"in", 0>>
In1   == <<"in", 1>>
Out0  == <<"out", 0>>
Out1  == <<"out", 1>>
Len_  == <<"lm", 1, 0>>     \* the packet's length
Data  == <<"lm", 1, 2>>     \* where the packet begins
Loc(n) == <<"lm", 0, n>>

MCPlaces == {A0, A1, B0, B1, A22, B23, In0, In1, Out0, Out1, PREV_A, PREV_ALU, mulA, mulB,
             <<"lmaddr", 0>>, <<"lmaddr", 1>>, N, Z, V, C}

\* Instructions.
alu(dst, a, op, b) == [Ins("alu") EXCEPT !.dst = dst, !.a = a, !.fn = op, !.b = b]
alu_shf(dst, a, op, b, sc) == [alu(dst, a, op, b) EXCEPT !.sc = sc]
mov(dst, b) == alu(dst, No, "B", b)
immed(dst, n, sc) == [Ins("immed") EXCEPT !.dst = dst, !.n = n, !.sc = sc]
immed_w1(dst, n) == [Ins("immed_w1") EXCEPT !.dst = dst, !.n = n]
asr(dst, a, sc) == [Ins("asr") EXCEPT !.dst = dst, !.a = a, !.sc = sc]
dbl_shf(dst, a, b, n) == [Ins("dbl_shf") EXCEPT !.dst = dst, !.a = a, !.b = b, !.sc = <<"right", n>>]
ld_field(dst, mask, a, sc) == [Ins("ld_field") EXCEPT !.dst = dst, !.n = mask, !.a = a, !.sc = sc]
ld_field_w_clr(dst, mask, a, sc) == [ld_field(dst, mask, a, sc) EXCEPT !.op = "ld_field_w_clr"]
local_csr_wr(n, a) == [Ins("local_csr_wr") EXCEPT !.dst = <<"lmaddr", n>>, !.a = a]
read32(dst, a, b, n) ==
    [Ins("mem_read") EXCEPT !.dst = dst, !.a = a, !.b = b, !.n = n, !.fn = "read32_swap", !.swap = TRUE]
write8(src, a, b, n) ==
    [Ins("mem_write") EXCEPT !.dst = src, !.a = a, !.b = b, !.n = n, !.fn = "write8_swap"]
write32(src, a, b, n) == [write8(src, a, b, n) EXCEPT !.fn = "write32_swap", !.swap = TRUE]
add_imm(a, b, n) == [write8(Out0, a, b, n) EXCEPT !.fn = "add_imm"]
indirect_ref(i) == [i EXCEPT !.indirect = TRUE]
wrboth(i) == [i EXCEPT !.both = TRUE]
mul_step(tok, a, b) == [Ins("mul_step") EXCEPT !.fn = tok, !.a = a, !.b = b]
mul_last(dst, tok) == [Ins("mul_last") EXCEPT !.fn = tok, !.dst = dst]
nop == Ins("nop")
br(op) == Ins(op)

\* Programs.
One(i)    == [kind |-> "both", of |-> {i}]
OneOf(S)    == [kind |-> "both", of |-> S]
Follow(S) == [kind |-> "branch", of |-> {br(op) : op \in S}]
Fork_(S)  == [kind |-> "fork", of |-> {br(op) : op \in S}]
Each(S)   == [kind |-> "sides", of |-> S]
Join_     == [kind |-> "join", of |-> {}]

Zero == {"beq", "bne"}

\* Words of the packet, taken apart, put together again and compared.
Parse ==
    LET fields ==
            {alu(B0, K(3), "AND", In0), alu(B0, In0, "AND", K(15)), alu(B0, K(7), "AND", In0),
             alu(B0, In0, "AND~", K(15)), alu(B0, In0, "~AND", K(240)), alu(B0, In0, "AND", K(60)),
             alu_shf(B0, K(3), "AND", In0, <<"right", 2>>),
             alu_shf(B0, In1, "OR", In0, <<"right", 6>>), alu_shf(B0, In0, "OR", In1, <<"left", 4>>),
             alu_shf(B0, No, "B", In0, <<"left", 6>>), alu_shf(B0, No, "~B", In0, <<"rotl", 2>>),
             alu_shf(B0, K(1), "XOR", In0, <<"rotr", 3>>), alu_shf(B0, K(1), "+16", In0, <<"right", 1>>),
             ld_field(B0, 11, In0, <<"right", 4>>), ld_field(B0, 1100, In1, <<"left", 2>>),
             ld_field_w_clr(B0, 101, In0, <<"rotr", 2>>), ld_field_w_clr(B0, 1111, In1, <<"none">>),
             dbl_shf(B0, In0, In1, 2), dbl_shf(B0, In1, In0, 3), dbl_shf(B0, In0, In1, 4)}
        again ==
            {alu(A1, B0, "AND", K(12)), alu(A1, In1, "OR", B0), alu(A1, B0, "-", K(2)), alu(A1, K(2), "B-A", B0),
             alu_shf(A1, No, "B", B0, <<"right", 4>>), alu_shf(A1, B0, "OR", B0, <<"left", 2>>),
             alu_shf(A1, No, "B", B0, <<"left", 4>>), alu_shf(A1, K(3), "AND", B0, <<"right", 6>>),
             ld_field(A1, 1, B0, <<"rotr", 6>>), ld_field(A1, 110, B0, <<"none">>),
             dbl_shf(A1, B0, In0, 4)}
    IN  <<One(mov(A0, Data)),
          OneOf({read32(In0, A0, K(0), 1), read32(In0, A0, K(1), 2), [read32(In0, B23, K(1), 2) EXCEPT !.sc = <<"left", 2>>]}),
          OneOf(fields), OneOf(again), Follow(Zero)>>

\* The length against constants, the end of the packet against pointers.
Lengths ==
    <<One(mov(A0, Len_)),
      OneOf({alu(B0, A0, "-", K(4)), alu(No, A0, "-", K(3)), alu(No, A0, "-", K(6)), alu(No, K(5), "B-A", A0), alu(No, A0, "-", K(130)),
           alu(No, K(4), "-", A0), alu(B0, A0, "+", K(252)),
           alu(No, A0, "AND", K(1)), alu(No, K(6), "XOR", A0), alu(No, A0, "AND", K(7))}),
      OneOf({nop, alu(A1, K(0), "+carry", K(0))}),
      Follow({"bcc", "bcs", "beq", "bne", "bmi", "bpl", "bvs", "bvc", "bge", "blt", "bgt", "ble"}),
      One(alu(No, A0, "-", K(4))),
      Follow({"bcc", "bcs", "beq", "bge"})>>

Ends ==
    <<One(mov(A0, Data)),
      One(alu(B0, A0, "+", Len_)), OneOf({nop, alu(B1, K(0), "+carry", K(0))}),
      OneOf({alu(A1, A0, "+", K(3)), alu(A1, A0, "+", K(6)), alu(A1, A0, "-", K(1)), alu(A1, K(4), "+", A0)}),
      OneOf({alu(No, B0, "-", A1), alu(No, A1, "-", B0), alu(No, A1, "B-A", B0), alu(No, A1, "-", K(0)),
             alu(In1, A1, "-", A0)}),
      OneOf({nop, alu(In0, K(0), "-carry", K(0)), alu(In0, B1, "-carry", K(0)), alu(No, A1, "OR", K(0)),
             alu(No, B23, "OR", K(0))}),
      Follow({"bcc", "bcs", "beq", "bne"})>>

\* Both again as compilers write it: of two words each.
Words ==
    LET second == {alu(No, K(0), "-carry", K(0)), alu(No, K(0), "-carry", B1), alu(No, B1, "-carry", K(0))}
    IN  <<One(mov(A0, Data)), OneOf({alu(A1, A0, "+", Len_), mov(A1, Len_)}),
          OneOf({alu(B0, A0, "+", K(4)), alu(B0, K(6), "+", A0), alu(B0, Len_, "+", K(0)), alu(B0, K(7), "+", K(0))}),
          One(alu(B1, K(0), "+carry", K(0))),
          OneOf({alu(No, A1, "-", B0), alu(No, B0, "B-A", A1), alu(No, A1, "-", K(4))}),
          OneOf(second), Follow({"bcc", "bcs", "beq"}),
          OneOf({alu(No, A1, "-", K(6)), alu(No, K(3), "-", B0)}), OneOf(second), Follow({"bcc", "bcs"})>>

\* Sums and differences of two words each, of numbers and of pointers.
Carries ==
    LET high == {alu(B1, K(1), "+carry", K(2)), alu(B1, K(254), "+carry", K(1)), alu(B1, Loc(0), "+carry", K(0)),
                 alu(B1, K(0), "+carry", K(1))}
    IN  <<One(mov(A0, Data)), OneOf({mov(A1, Len_), mov(A1, Loc(1)), alu(A1, A0, "+", K(2)), mov(A1, B23)}),
          OneOf({alu(B0, Len_, "+", K(250)), alu(B0, K(3), "+", A1), alu(B0, A1, "+", Len_), alu(B0, Len_, "+", A1)}),
          OneOf(high), OneOf({alu(A1, B1, "+", K(5)), alu(A1, K(251), "+", B1), alu(A1, K(1), "+carry", K(3)),
                              alu(No, B0, "OR", Loc(0)), alu_shf(A1, No, "B", B0, <<"left", 1>>),
                              alu_shf(A1, K(0), "OR", B0, <<"left", 2>>)}),
          OneOf({alu(No, A1, "+", Len_), alu(No, A1, "-", K(4)), alu(No, B0, "-", K(2))}),
          Follow({"bcs", "beq"})>>

\* Bytes written to the packet, some of them where the length says, and read
\* again; how many may be in PREV_ALU.
Memory ==
    LET count == {nop, mov(B1, K(4)), mov(B1, K(9)), mov(B1, Len_)}
    IN  <<One(mov(A0, Data)), OneOf({mov(Out0, Len_), immed(Out0, 27, <<"none">>), alu(Out0, Len_, "+", K(90))}),
          One(mov(Out1, K(54))), OneOf(count),
          OneOf({write8(Out0, A0, K(1), 1), write8(Out0, A0, K(0), 3), write8(Out0, A0, K(2), 5),
                 write8(Out0, A0, Len_, 2), indirect_ref(write8(Out0, A0, K(0), 0)),
                 [write8(Out0, B23, Len_, 2) EXCEPT !.sc = <<"left", 2>>], write8(Out0, K(7), K(0), 1),
                 add_imm(A0, K(0), 1)}),
          OneOf({read32(In0, A0, K(0), 2), read32(In0, A0, Len_, 1), [read32(In0, B23, K(4), 1) EXCEPT !.sc = <<"left", 2>>]}),
          OneOf(count), OneOf({indirect_ref(read32(In0, A0, K(2), 0)), alu(No, In0, "-", Out0), alu(No, In0, "+8", In0)}),
          Follow(Zero)>>

\* Local memory while an address is on its way to ActLMAddr.
Locals ==
    LET access == {mov(Loc(1), Len_), alu(B0, Loc(1), "+", K(1)), alu(Loc(0), Loc(1), "XOR", B0), nop}
    IN  <<One(mov(Loc(1), K(77))), OneOf({alu(A1, A22, "+", K(4)), alu(A1, A22, "+", K(3)), mov(A1, K(4))}),
          OneOf({local_csr_wr(0, A1), local_csr_wr(0, Len_)}), OneOf(access), OneOf(access), OneOf(access), OneOf(access)>>

Shifts ==
    <<One(mov(A0, Len_)),
      OneOf({alu(B1, K(3), "OR", A0), alu(B1, A0, "B", K(200)), alu(B1, K(9), "~B", A0), alu(B1, A0, "AND", K(255)),
             wrboth(immed(B1, 9, <<"none">>)), immed(B1, 9, <<"left", 4>>), immed(B1, 11, <<"rotl", 2>>)}),
      OneOf({alu_shf(A1, No, "B", A0, <<"left">>), alu_shf(A1, K(6), "+", B1, <<"right">>),
             asr(A1, A0, <<"right", 3>>), asr(A1, B1, <<"right">>), immed_w1(A1, 5), immed_w1(B1, 6),
             wrboth(alu(A1, A0, "-", B1))}),
      OneOf({nop, asr(B0, B1, <<"right", 1>>), alu_shf(B0, A1, "AND", B1, <<"right">>), alu(B0, B1, "-", A1)}),
      Follow({"beq", "bpl", "bge"})>>

Products ==
    LET steps == {mul_step(t, A0, B0) : t \in {"16x16_step1", "16x16_step2", "32x32_step1"}}
    IN  <<One(mov(A0, Len_)), One(immed(B0, 45, <<"none">>)), One(mul_step("start", A0, B0)),
          OneOf(steps), OneOf(steps \cup {mul_step("16x16_step2", A0, A0), mul_last(B1, "16x16_last"), mul_step("32x32_step2", A0, B0)}),
          OneOf({mul_last(B1, "16x16_last"), mul_step("32x32_step3", A0, B0)}),
          OneOf({nop, mul_step("32x32_step4", A0, B0)}), OneOf({nop, mul_last(B1, "32x32_last")}),
          OneOf({nop, mul_last(A1, "32x32_last2")}), OneOf({alu(No, B1, "-", K(45))})>>

\* What both sides of a branch leave.
Joins ==
    LET sides == {<<mov(B0, K(1)), mov(B0, K(2))>>, <<mov(B0, A0), mov(B0, A0)>>,
                  <<mov(Loc(1), K(3)), mov(Loc(1), A0)>>, <<mov(Loc(2), K(3)), mov(Loc(1), K(3))>>,
                  <<local_csr_wr(0, A1), nop>>, <<ld_field_w_clr(B0, 10, A0, <<"left", 2>>), immed(B0, 8, <<"none">>)>>,
                  <<ld_field_w_clr(B0, 1, A0, <<"none">>), alu_shf(B0, K(3), "AND", In0, <<"right", 2>>)>>}
    IN  <<One(mov(A0, Len_)), One(mov(Loc(1), K(77))), One(alu(A1, A22, "+", K(4))), OneOf({alu(No, A0, "-", K(4)), alu(No, A0, "-", K(7))}),
          Fork_({"bcc", "bne", "bge"}), Each(sides), Each(sides), Join_,
          OneOf({mov(In1, Loc(0)), mov(In1, Loc(1)), alu(In1, B0, "+", K(250))}), One(nop), OneOf({mov(In1, Loc(0)), alu(No, A0, "-", K(3))}),
          Follow({"bcc", "beq"})>>

MCPrograms == "carries" :> Carries @@ "parse" :> Parse @@ "lengths" :> Lengths @@ "ends" :> Ends @@ "words" :> Words @@ "memory" :> Memory @@ "locals" :> Locals
              @@ "shifts" :> Shifts @@ "products" :> Products @@ "joins" :> Joins

MCPackets == {"p2", "p3", "p4", "p6", "p7"}
Env_(len, data, x) ==
    LET area == Stack :> 0..3 @@ Ctx :> 8..11 @@ Packet :> (data + 128)..(data + 139) @@ Map :> 64..71
    IN  [len |-> len, area |-> area,
         base |-> (Stack :> 0 @@ Ctx :> 32 @@ Packet :> data @@ Map :> 64),
         lm   |-> [a \in area[Stack] \cup area[Ctx] |-> (x * a + 5) % 256],
         byte |-> [a \in area[Packet] \cup area[Map] |-> (x * a + a \div 4) % 4]]

MCEnv == "p2" :> Env_(2, 16, 1) @@ "p3" :> Env_(3, 3, 7) @@ "p4" :> Env_(4, 32, 3) @@ "p6" :> Env_(6, 100, 2)
         @@ "p7" :> Env_(7, 64, 5)
=============================================================================
