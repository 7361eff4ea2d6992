------------------------------- MODULE Machine -------------------------------
(***************************************************************************)
(* What a micro engine does with one packet, in numbers: the reference     *)
(* the symbolic execution is compared with, and the value a term has for   *)
(* a packet.  The hardware is not part of the repository; this is what     *)
(* estimator/instr.cpp takes it to be, written with arithmetic instead of  *)
(* terms.  Where the code leaves open what the hardware does, or takes it  *)
(* to do something its name does not say, the machine says Unknown.        *)
(*                                                                         *)
(* An environment is a packet and the addresses it is handled at: its      *)
(* length, the base address of each array, the first contents of the       *)
(* memory.                                                                 *)
(***************************************************************************)
EXTENDS Instr

Unknown == -1

\* The value of a function at a place it may not have; nothing is there.
In(f, x) == IF x \in DOMAIN f THEN f[x] ELSE 0

-----------------------------------------------------------------------------
(* The value of a term: Unknown if it depends on something that is not     *)
(* known.  Truth values are 0 and 1.                                       *)

Bit(b) == IF b THEN 1 ELSE 0
Signed(v, w) == IF v >= 2^(w - 1) THEN v - 2^w ELSE v

Rotl(v, n, w) == LET m == n % w IN (v % 2^(w - m)) * 2^m + v \div 2^(w - m)

\* The value of a node, given those of its arguments.
Meaning(env, e, v) ==
    LET w == e.w
        k == e.k
        Location == (env.base[k[1]] + v[1]) % 2^Word
    IN
    CASE e.op = "ptr"      -> Location
      [] e.op = "ptr_ext"  -> v[2] * 2^Word + Location
      [] e.op = "ptr_base" -> Location \div 2^k[2]
      [] e.op = "extract"  -> (v[1] \div 2^k[2]) % 2^w
      [] e.op = "concat"   -> v[1] * 2^Right(e).w + v[2]
      [] e.op = "bvnot"    -> 2^w - 1 - v[1]
      [] e.op = "bvand"    -> v[1] & v[2]
      [] e.op = "bvor"     -> v[1] | v[2]
      [] e.op = "bvxor"    -> v[1] ^^ v[2]
      [] e.op = "bvshl"    -> IF v[2] >= w THEN 0 ELSE (v[1] % 2^(w - v[2])) * 2^v[2]
      [] e.op = "bvlshr"   -> IF v[2] >= w THEN 0 ELSE v[1] \div 2^v[2]
      [] e.op = "bvashr"   -> (Signed(v[1], w) \div 2^(IF v[2] >= w THEN w ELSE v[2])) % 2^w
      [] e.op = "bvrotl"   -> Rotl(v[1], k[1], w)
      [] e.op = "bvrotr"   -> Rotl(v[1], w - (k[1] % w), w)
      [] e.op = "bvadd"    -> (v[1] + v[2]) % 2^w
      [] e.op = "bvsub"    -> (v[1] - v[2]) % 2^w
      [] e.op = "bvmul"    -> (v[1] * v[2]) % 2^w
      [] e.op = "bvadd_carry" -> Bit(v[1] + v[2] >= 2^Left(e).w)
      [] e.op = "bvsub_carry" -> Bit(v[1] >= v[2])
      [] e.op \in {"bvcomp", "="} -> Bit(v[1] = v[2])
      [] e.op = "bvuge"    -> Bit(v[1] >= v[2])
      [] e.op = "bvugt"    -> Bit(v[1] > v[2])
      [] e.op = "bvule"    -> Bit(v[1] <= v[2])
      [] e.op = "bvult"    -> Bit(v[1] < v[2])
      [] e.op = "not"      -> 1 - v[1]

Conj(a, b) == IF a = 0 \/ b = 0 THEN 0 ELSE IF a = 1 /\ b = 1 THEN 1 ELSE Unknown
Disj(a, b)  == IF a = 1 \/ b = 1 THEN 1 ELSE IF a = 0 /\ b = 0 THEN 0 ELSE Unknown

RECURSIVE Value(_, _), Cell(_, _, _)

Value(env, e) ==
    CASE e.op = "const"  -> Val(e)
      [] e.op = "var"    -> env.len
      [] e.op = "undef"  -> Unknown
      [] e.op = "select" -> LET off == Value(env, Right(e))
                            IN  IF off = Unknown THEN Unknown ELSE Cell(env, Left(e), off)
      [] e.op = "and"    -> Conj(Value(env, Left(e)), Value(env, Right(e)))
      [] e.op = "or"     -> Disj(Value(env, Left(e)), Value(env, Right(e)))
      [] e.op = "ite"    -> LET c == Value(env, Left(e))
                            IN  IF c = Unknown THEN Unknown ELSE Value(env, e.args[3 - c])
      [] OTHER           -> LET v == [j \in DOMAIN e.args |-> Value(env, e.args[j])]
                            IN  IF \E j \in DOMAIN v : v[j] = Unknown THEN Unknown
                                ELSE Meaning(env, e, v)

\* The element of an array at an offset.
Cell(env, array, off) ==
    CASE array.op = "undef"  -> Unknown
      [] array.op = "array"  ->
            LET i == array.k[1]
            IN  IF i \in Local THEN In(env.lm, (env.base[i] \div 4 + off) % 2^Word)
                ELSE In(env.byte, (env.base[i] + off) % 2^Word)
      [] array.op = "cstore" ->
            IF Stored(array, off) # {}
            THEN Value(env, array.args[(CHOOSE j \in Stored(array, off) : TRUE) + 1])
            ELSE Cell(env, Left(array), off)
      [] array.op = "store"  ->
            LET at == Value(env, Right(array))
            IN  IF at = Unknown THEN Unknown
                ELSE IF at = off THEN Value(env, array.args[3]) ELSE Cell(env, Left(array), off)
      [] array.op = "ite"    ->
            LET c == Value(env, Left(array))
            IN  IF c = Unknown THEN Unknown ELSE Cell(env, array.args[3 - c], off)

-----------------------------------------------------------------------------
(* The machine.  r.at: registers and flags, r.lm: words of local memory,   *)
(* r.byte: bytes of memory, r.waiting: writes to ActLMAddr on their way.   *)

M == 2^Word
Top(v) == v \div 2^(Word - 1)

Get(r, o) ==
    CASE o[1] = "const"   -> o[2] % M
      [] o[1] = "omitted" -> 0
      [] o[1] = "lm"      -> In(r.lm, In(r.at, <<"lmaddr", o[2]>>) \div 4 + o[3])
      [] OTHER            -> In(r.at, o)

Put(r, o, v) ==
    CASE o[1] = "omitted" -> r
      [] o[1] = "lm"      -> LET a == In(r.at, <<"lmaddr", o[2]>>) \div 4 + o[3]
                             IN  [r EXCEPT !.lm = [x \in DOMAIN @ |-> IF x = a THEN v ELSE @[x]]]
      [] OTHER            -> [r EXCEPT !.at[o] = v]

\* v in w bits, shifted.
Shifted(r, sc, v, w) ==
    LET n == IF Len(sc) = 2 THEN sc[2] ELSE Get(r, PREV_A) % Word
    IN  CASE sc[1] = "none"  -> v
          [] sc[1] = "left"  -> (v % 2^(w - n)) * 2^n
          [] sc[1] = "right" -> v \div 2^n
          [] sc[1] = "rotl"  -> Rotl(v, n, w)
          [] sc[1] = "rotr"  -> Rotl(v, w - n, w)

\* Result and carry of the arithmetic operations; the carry of a difference
\* is clear if it borrows.
Arithmetic(op, a, b, c) ==
    LET low == b % 2^(2 * Byte)
    IN
    CASE op = "+"      -> <<(a + b) % M, Bit(a + b >= M)>>
      [] op = "+16"    -> <<(a + low) % M, Bit(a + low >= M)>>
      [] op = "+carry" -> <<(a + b + c) % M, Bit(a + b + c >= M)>>
      [] op = "-"      -> <<(a - b) % M, Bit(a >= b)>>
      [] op = "-carry" -> <<(a - b - (1 - c)) % M, Bit(a >= b + (1 - c))>>
      [] op = "B-A"    -> <<(b - a) % M, Bit(b >= a)>>

Logical(op, a, b) ==
    LET inv(v) == M - 1 - v
    IN  CASE op = "B"    -> b
          [] op = "~B"   -> inv(b)
          [] op = "AND"  -> a & b
          [] op = "~AND" -> inv(a) & b
          [] op = "AND~" -> a & inv(b)
          [] op = "OR"   -> a | b
          [] op = "XOR"  -> a ^^ b

\* A difference overflows if its operands have different signs and it does
\* not have the sign of the first one.
Overflow(a, b, d) == Bit(Top(a) # Top(b) /\ Top(d) # Top(a))

\* Result and the flags V and C.
AluValue(r, i) ==
    LET a == Get(r, i.a)
        b == Shifted(r, i.sc, Get(r, i.b), Word)
        x == Arithmetic(i.fn, a, b, Get(r, C))
    IN  IF WritesPrev(i.fn) THEN <<Logical(i.fn, a, b), 0, 0>>
        ELSE IF i.fn = "+8" THEN <<Unknown, Unknown, Unknown>>
        ELSE <<x[1],
               CASE i.fn \in {"-", "-carry"} -> Overflow(a, b, x[1])
                 [] i.fn = "B-A" -> Overflow(b, a, x[1])
                 [] OTHER -> Unknown,
               x[2]>>

\* The bytes of v that the decimal digits of n select, those of p elsewhere.
Bytewise(n, v, p) ==
    LET byte(j) == ((IF (n \div 10^j) % 10 = 0 THEN p ELSE v) \div 2^(j * Byte)) % 2^Byte
    IN  byte(0) + byte(1) * 2^Byte + byte(2) * 2^(2 * Byte) + byte(3) * 2^(3 * Byte)

Assigned(r, i) ==
    LET a == Get(r, i.a)
        sh == Shifted(r, i.sc, a, Word)
        double == Shifted(r, i.sc, a * M + Get(r, i.b), DWord)
        im == Shifted(r, i.sc, (i.n % M) * M + (i.n % M), DWord)
        product == Get(r, mulA) * Get(r, mulB)
        n == IF Len(i.sc) = 2 THEN i.sc[2] ELSE Get(r, PREV_A) % Word
        sign == Top(Get(r, PREV_ALU))
    IN
    CASE i.op = "alu"            -> AluValue(r, i)
      [] i.op = "asr"            -> <<((a - sign * M) \div 2^n) % M, 0, 0>>
      [] i.op = "dbl_shf"        -> <<double % M, 0, 0>>
      [] i.op = "immed"          -> <<im \div M, Unknown, Unknown>>
      [] i.op = "immed_w1"       -> <<(i.n % 2^(2 * Byte)) * 2^(2 * Byte) + (Get(r, i.dst) % 2^(2 * Byte)), Unknown, Unknown>>
      [] i.op = "ld_field"       -> <<Bytewise(i.n, sh, Get(r, i.dst)), Unknown, Unknown>>
      [] i.op = "ld_field_w_clr" -> <<Bytewise(i.n, sh, 0), Unknown, Unknown>>
      [] i.op = "mul_last"       -> <<IF i.fn = "32x32_last2" THEN (product \div M) % M ELSE product % M,
                                      Unknown, Unknown>>

WithFlags(r, i, x) ==
    IF ~WritesCC(i) THEN r
    ELSE [r EXCEPT !.at[N] = IF x[1] = Unknown THEN Unknown ELSE Top(x[1]),
                   !.at[Z] = IF x[1] = Unknown THEN Unknown ELSE Bit(x[1] = 0),
                   !.at[V] = x[2], !.at[C] = x[3]]

\* What an instruction leaves for its successors besides its result.
WithPrev(r, i, x, a) ==
    IF i.op = "alu" /\ WritesPrev(i.fn) THEN [r EXCEPT !.at[PREV_A] = a, !.at[PREV_ALU] = x[1]]
    ELSE IF i.op = "immed" THEN [r EXCEPT !.at[PREV_ALU] = x[1]]
    ELSE r

AssignValue(r, i) ==
    LET x  == Assigned(r, i)
        r1 == Put(r, i.dst, x[1])
        r2 == IF i.both /\ i.dst[1] \in {"A", "B"} THEN Put(r1, Flip(i.dst), x[1]) ELSE r1
    IN  WithPrev(WithFlags(r2, i, x), i, x, Get(r, i.a))

-----------------------------------------------------------------------------
(* Memory accesses.                                                        *)

AddressValue(r, i) ==
    (Shifted(r, i.sc, Get(r, i.a), Word) + Shifted(r, i.sc2, Get(r, i.b), Word)) % M

Units(r, i) == IF i.indirect THEN Get(r, PREV_ALU) \div 2^Byte + 1 ELSE i.n

ReadWords(r, i) ==
    LET addr == AddressValue(r, i)
        byte(a) == In(r.byte, (addr + a) % M)
        word(j) == byte(4 * j) + byte(4 * j + 1) * 2^Byte
                   + byte(4 * j + 2) * 2^(2 * Byte) + byte(4 * j + 3) * 2^(3 * Byte)
        hit(l) == {j \in 0..(Xfers(i) - 1) : j < Units(r, i) /\ l = Xfer(i.dst, j)}
    IN  [r EXCEPT !.at = [l \in DOMAIN @ |-> IF hit(l) = {} THEN @[l]
                                             ELSE word(CHOOSE j \in hit(l) : TRUE)]]

\* The value of byte number n of what is written.
OutByte(r, i, n) == (Get(r, Xfer(i.dst, n \div 4)) \div 2^((n % 4) * Byte)) % 2^Byte

WriteBytes(r, i) ==
    LET addr  == AddressValue(r, i)
        bytes == IF i.fn = "write8_swap" THEN Units(r, i) ELSE 4 * Units(r, i)
    IN  [r EXCEPT !.byte = [a \in DOMAIN @ |->
            IF i.fn = "add_imm" THEN IF (a - addr) % M < 4 THEN Unknown ELSE @[a]
            ELSE IF (a - addr) % M < bytes THEN OutByte(r, i, (a - addr) % M) ELSE @[a]]]

-----------------------------------------------------------------------------

\* Whether a branch is taken.
Taken(r, i) ==
    LET n == Get(r, N) = 1
        z == Get(r, Z) = 1
        v == Get(r, V) = 1
        c == Get(r, C) = 1
    IN
    CASE i.op = "bcc" -> ~c       [] i.op = "bcs" -> c
      [] i.op = "beq" -> z        [] i.op = "bne" -> ~z
      [] i.op = "bmi" -> n        [] i.op = "bpl" -> ~n
      [] i.op = "bvs" -> v        [] i.op = "bvc" -> ~v
      [] i.op = "bge" -> n = v    [] i.op = "blt" -> n # v
      [] i.op = "bgt" -> ~z /\ n = v
      [] i.op = "ble" -> z \/ n # v

\* The flags a branch looks at.
Looks(i) ==
    CASE i.op \in {"bcc", "bcs"} -> {C}
      [] i.op \in {"beq", "bne"} -> {Z}
      [] i.op \in {"bmi", "bpl"} -> {N}
      [] i.op \in {"bvs", "bvc"} -> {V}
      [] i.op \in {"bge", "blt"} -> {N, V}
      [] i.op \in {"bgt", "ble"} -> {N, V, Z}

Effect(r, i, clock) ==
    CASE i.op \in Assigns      -> AssignValue(r, i)
      [] i.op = "local_csr_wr" -> [r EXCEPT !.waiting = Append(@, <<clock + LmWrite_latency, i.dst, Get(r, i.a)>>)]
      [] i.op = "mul_step"     -> [r EXCEPT !.at[mulA] = Get(r, i.a), !.at[mulB] = Get(r, i.b)]
      [] i.op = "mem_read"     -> ReadWords(r, i)
      [] i.op = "mem_write"    -> WriteBytes(r, i)
      [] OTHER                 -> r

\* Writes that have arrived take effect behind the instruction.
Arrive(r, before, clock) ==
    LET due == {j \in DOMAIN before : before[j][1] <= clock}
        last(l) == {j \in due : before[j][2] = l /\ \A o \in due : before[o][2] = l => o <= j}
    IN  [r EXCEPT !.at = [l \in DOMAIN @ |-> IF last(l) = {} THEN @[l]
                                             ELSE before[CHOOSE j \in last(l) : TRUE][3]],
                  !.waiting = SelectSeq(@, LAMBDA w : w[1] > clock)]

Execute(r, i, branchtrue) ==
    LET clock == r.clock + Cycles(i, r.clock - r.lastcc, r.clock - r.lastmem, branchtrue)
        s == Arrive(Effect(r, i, clock), r.waiting, clock)
    IN  [s EXCEPT !.clock = clock,
                  !.lastcc = IF WritesCC(i) THEN clock ELSE @,
                  !.lastmem = IF i.op \in Mems THEN clock ELSE @]
=============================================================================
