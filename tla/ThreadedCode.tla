--------------------------- MODULE ThreadedCode ---------------------------
(***************************************************************************)
(* The programs of perf/threaded_code, in which one thing is written       *)
(* several times (switch, table, function pointers, computed goto, tail    *)
(* calls); the versions run side by side here.                             *)
(*                                                                         *)
(* basic.cpp: six interpreters of one register machine, each with its own  *)
(* dispatch table and instruction format, run in step on the programs the  *)
(* benchmarks generate for them.  Registers are W bits wide (64 in the     *)
(* code) and wrap around.                                                  *)
(*                                                                         *)
(* json.cpp and json_musttail.cpp: character classes, JSON tokenizers and  *)
(* the number-matching VM on the same input, a sequence of char codes.     *)
(***************************************************************************)
EXTENDS Integers, SequencesExt, FiniteSetsExt, Bitwise

CONSTANTS W,            \* bits of a register
          NumRegs,      \* registers used (at most 16)
          Lengths       \* the lengths CodeGenerator::generate is called with

VARIABLES code, vm      \* the program; by interpreter [regs, flags, ip, cycles, end]

\* enum class OpCode: the position is the value; 32 extended opcodes follow MAX
Ops == <<"HALT", "NOP", "ADD", "SUB", "MUL", "INC", "DEC", "NEG", "AND", "OR", "XOR", "NOT",
         "SHL", "SHR", "LOAD_IMM", "LOAD_REG", "STORE", "CMP_EQ", "CMP_LT", "CMP_GT",
         "JMP", "JZ", "JNZ", "MAC", "DOT", "POLY", "ABS", "MIN", "MAX">>
Op(name) == (CHOOSE i \in DOMAIN Ops : Ops[i] = name) - 1
OP32 == Len(Ops)
NUM_OPCODES == Len(Ops) + 32
NUM_BASIC_OPS == 32

U(x) == x % 2 ^ W                                               \* as unsigned
S(x) == IF U(x) >= 2 ^ (W - 1) THEN U(x) - 2 ^ W ELSE U(x)      \* as signed, wrapped
Bit(b) == IF b THEN 1 ELSE 0
Least(a, b) == IF b < a THEN b ELSE a
Most(a, b) == IF a < b THEN b ELSE a

\* The C++ expressions the handlers are written with, over the values a, b and c of the
\* registers r1, r2 and r3, the immediate and the number x of an extended opcode
Value(e, a, b, c, imm, x) ==
    CASE e = "b+c" -> b + c [] e = "b-c" -> b - c [] e = "b*c" -> b * c
      [] e = "a+1" -> a + 1 [] e = "a-1" -> a - 1 [] e = "-b" -> -b
      [] e = "b&c" -> U(b) & U(c) [] e = "b|c" -> U(b) | U(c) [] e = "b^c" -> U(b) ^^ U(c) [] e = "~b" -> -b - 1
      [] e = "b<<c" -> U(b) * 2 ^ (U(c) % W) [] e = "b>>c" -> U(b) \div 2 ^ (U(c) % W)
      [] e = "imm" -> imm [] e = "b" -> b [] e = "a+b*c" -> a + b * c [] e = "a*b+c" -> a * b + c
      [] e = "abs(b)" -> IF b < 0 THEN -b ELSE b
      [] e = "min(b,c)" -> Least(b, c) [] e = "max(b,c)" -> Most(b, c) [] e = "(b^x)+c" -> (U(b) ^^ U(x)) + c
Tests == {"b==c", "b<c", "b>c"}
Test(e, b, c) == CASE e = "b==c" -> b = c [] e = "b<c" -> b < c [] e = "b>c" -> b > c
Jumps == {"ip=imm", "flags==0?imm", "flags!=0?imm"}
Jumped(e, flags) == e = "ip=imm" \/ (e = "flags==0?imm" /\ flags = 0) \/ (e = "flags!=0?imm" /\ flags # 0)

\* One handler, e its expression.  HALT leaves ip, or moves it past the end (CTC); a label
\* that was read past the end of a table is a wild jump.
Run(s, e, i, x, halted) ==
    LET n == [s EXCEPT !.cycles = @ + 1]
        m == [n EXCEPT !.ip = @ + 1]
        b == s.regs[i.r2]
        c == s.regs[i.r3]
    IN  CASE e \in {"halt", "wild"} -> [n EXCEPT !.end = e, !.ip = halted]
          [] e = "nop" -> m
          [] e \in Jumps -> IF Jumped(e, s.flags) THEN [n EXCEPT !.ip = i.imm] ELSE m
          [] e \in Tests -> [m EXCEPT !.flags = Bit(Test(e, b, c))]
          [] OTHER -> [m EXCEPT !.regs[i.r1] = S(Value(e, @, b, c, i.imm, x))]

\* Each interpreter has a list of its own of what the handlers do; those that are not a
\* switch also have a table of labels of their own, in the order of the opcodes.

\* 1. switch, with the default branch for the extended opcodes
SwitchCases ==
    [HALT |-> "halt", NOP |-> "nop", ADD |-> "b+c", SUB |-> "b-c", MUL |-> "b*c", INC |-> "a+1", DEC |-> "a-1",
     NEG |-> "-b", AND |-> "b&c", OR |-> "b|c", XOR |-> "b^c", NOT |-> "~b", SHL |-> "b<<c", SHR |-> "b>>c",
     LOAD_IMM |-> "imm", LOAD_REG |-> "b", STORE |-> "b", CMP_EQ |-> "b==c", CMP_LT |-> "b<c", CMP_GT |-> "b>c",
     JMP |-> "ip=imm", JZ |-> "flags==0?imm", JNZ |-> "flags!=0?imm", MAC |-> "a+b*c", DOT |-> "a+b*c",
     POLY |-> "a*b+c", ABS |-> "abs(b)", MIN |-> "min(b,c)", MAX |-> "max(b,c)"]
SwitchStep(s, i) ==
    Run(s, IF i.op < OP32 THEN SwitchCases[Ops[i.op + 1]] ELSE IF i.op < NUM_OPCODES THEN "(b^x)+c" ELSE "nop",
        i, i.op - OP32, s.ip)

Ext == [k \in 1 .. 32 |-> "EXT"]
\* 2. a table of labels for every opcode
dispatch_table ==
    <<"HALT", "NOP", "ADD", "SUB", "MUL", "INC", "DEC", "NEG", "AND", "OR", "XOR", "NOT", "SHL", "SHR",
      "LOAD_IMM", "LOAD_REG", "STORE", "CMP_EQ", "CMP_LT", "CMP_GT", "JMP", "JZ", "JNZ",
      "MAC", "DOT", "POLY", "ABS", "MIN", "MAX">> \o Ext
DirectLabels ==
    [HALT |-> "halt", NOP |-> "nop", ADD |-> "b+c", SUB |-> "b-c", MUL |-> "b*c", INC |-> "a+1", DEC |-> "a-1",
     NEG |-> "-b", AND |-> "b&c", OR |-> "b|c", XOR |-> "b^c", NOT |-> "~b", SHL |-> "b<<c", SHR |-> "b>>c",
     LOAD_IMM |-> "imm", LOAD_REG |-> "b", STORE |-> "b", CMP_EQ |-> "b==c", CMP_LT |-> "b<c", CMP_GT |-> "b>c",
     JMP |-> "ip=imm", JZ |-> "flags==0?imm", JNZ |-> "flags!=0?imm", MAC |-> "a+b*c", DOT |-> "a+b*c",
     POLY |-> "a*b+c", ABS |-> "abs(b)", MIN |-> "min(b,c)", MAX |-> "max(b,c)", EXT |-> "(b^x)+c"]
DirectStep(s, i) == Run(s, DirectLabels[dispatch_table[i.op + 1]], i, i.op - OP32, s.ip)

\* 3. labels put into the instructions; the table has only the basic ones
itc_table ==
    <<"HALT", "NOP", "ADD", "SUB", "MUL", "INC", "DEC", "NEG", "AND", "OR", "XOR", "NOT", "SHL", "SHR",
      "LOAD_IMM", "LOAD_REG", "STORE", "CMP_EQ", "CMP_LT", "CMP_GT", "JMP", "JZ", "JNZ",
      "MAC", "DOT", "POLY", "ABS", "MIN", "MAX">>
IndirectLabels ==
    [HALT |-> "halt", NOP |-> "nop", ADD |-> "b+c", SUB |-> "b-c", MUL |-> "b*c", INC |-> "a+1", DEC |-> "a-1",
     NEG |-> "-b", AND |-> "b&c", OR |-> "b|c", XOR |-> "b^c", NOT |-> "~b", SHL |-> "b<<c", SHR |-> "b>>c",
     LOAD_IMM |-> "imm", LOAD_REG |-> "b", STORE |-> "b", CMP_EQ |-> "b==c", CMP_LT |-> "b<c", CMP_GT |-> "b>c",
     JMP |-> "ip=imm", JZ |-> "flags==0?imm", JNZ |-> "flags!=0?imm", MAC |-> "a+b*c", DOT |-> "a+b*c",
     POLY |-> "a*b+c", ABS |-> "abs(b)", MIN |-> "min(b,c)", MAX |-> "max(b,c)", EXT |-> "(b^x)+c",
     WILD |-> "wild"]
IndirectCompile(i) ==
    [handler |-> IF i.op >= NUM_BASIC_OPS THEN "EXT"
                 ELSE IF i.op + 1 \in DOMAIN itc_table THEN itc_table[i.op + 1] ELSE "WILD",
     op_idx |-> IF i.op >= OP32 THEN i.op - OP32 ELSE 0,
     r1 |-> i.r1, r2 |-> i.r2, r3 |-> i.r3, imm |-> i.imm]
IndirectStep(s, i) ==
    LET c == IndirectCompile(i) IN Run(s, IndirectLabels[c.handler], c, c.op_idx, s.ip)

\* 4. eight bytes: r1 and r2 share one, extended opcodes are counted from NUM_BASIC_OPS
\* mutant: the two nibbles swapped in the packed byte
TokenCompileSwapped(i) == [op |-> i.op, r1_r2 |-> 16 * (i.r2 % 16) + (i.r1 % 16), r3 |-> i.r3 % 16,
                           imm |-> i.imm]
TokenCompile(i) == [op |-> i.op, r1_r2 |-> 16 * (i.r1 % 16) + (i.r2 % 16), r3 |-> i.r3 % 16,
                    imm |-> i.imm]
ttc_table ==
    <<"HALT", "NOP", "ADD", "SUB", "MUL", "INC", "DEC", "NEG", "AND", "OR", "XOR", "NOT", "SHL", "SHR",
      "LOAD_IMM", "LOAD_REG", "STORE", "CMP_EQ", "CMP_LT", "CMP_GT", "JMP", "JZ", "JNZ",
      "MAC", "DOT", "POLY", "ABS", "MIN", "MAX">> \o Ext
TokenLabels ==
    [HALT |-> "halt", NOP |-> "nop", ADD |-> "b+c", SUB |-> "b-c", MUL |-> "b*c", INC |-> "a+1", DEC |-> "a-1",
     NEG |-> "-b", AND |-> "b&c", OR |-> "b|c", XOR |-> "b^c", NOT |-> "~b", SHL |-> "b<<c", SHR |-> "b>>c",
     LOAD_IMM |-> "imm", LOAD_REG |-> "b", STORE |-> "b", CMP_EQ |-> "b==c", CMP_LT |-> "b<c", CMP_GT |-> "b>c",
     JMP |-> "ip=imm", JZ |-> "flags==0?imm", JNZ |-> "flags!=0?imm", MAC |-> "a+b*c", DOT |-> "a+b*c",
     POLY |-> "a*b+c", ABS |-> "abs(b)", MIN |-> "min(b,c)", MAX |-> "max(b,c)", EXT |-> "(b^x)+c"]
TokenStep(s, i) ==
    LET c == TokenCompile(i)
    IN  Run(s, TokenLabels[ttc_table[c.op + 1]],
            [r1 |-> c.r1_r2 \div 16, r2 |-> c.r1_r2 % 16, r3 |-> c.r3, imm |-> c.imm],
            c.op - NUM_BASIC_OPS, s.ip)

\* 5. functions that return whether to go on, with a fallback for opcodes out of range
stc_table ==
    <<"HALT", "NOP", "ADD", "SUB", "MUL", "INC", "DEC", "NEG", "AND", "OR", "XOR", "NOT", "SHL", "SHR",
      "LOAD_IMM", "LOAD_REG", "STORE", "CMP_EQ", "CMP_LT", "CMP_GT", "JMP", "JZ", "JNZ",
      "MAC", "DOT", "POLY", "ABS", "MIN", "MAX">> \o Ext
SubroutineHandlers ==
    [HALT |-> "halt", NOP |-> "nop", ADD |-> "b+c", SUB |-> "b-c", MUL |-> "b*c", INC |-> "a+1", DEC |-> "a-1",
     NEG |-> "-b", AND |-> "b&c", OR |-> "b|c", XOR |-> "b^c", NOT |-> "~b", SHL |-> "b<<c", SHR |-> "b>>c",
     LOAD_IMM |-> "imm", LOAD_REG |-> "b", STORE |-> "b", CMP_EQ |-> "b==c", CMP_LT |-> "b<c", CMP_GT |-> "b>c",
     JMP |-> "ip=imm", JZ |-> "flags==0?imm", JNZ |-> "flags!=0?imm", MAC |-> "a+b*c", DOT |-> "a+b*c",
     POLY |-> "a*b+c", ABS |-> "abs(b)", MIN |-> "min(b,c)", MAX |-> "max(b,c)", EXT |-> "(b^x)+c"]
Fallback(op, table) == IF op >= Len(table) THEN NUM_BASIC_OPS ELSE op
SubroutineStep(s, i) ==
    Run(s, SubroutineHandlers[stc_table[Fallback(i.op, stc_table) + 1]], i, i.op - OP32, s.ip)

\* 6. functions over a context
ctc_table ==
    <<"HALT", "NOP", "ADD", "SUB", "MUL", "INC", "DEC", "NEG", "AND", "OR", "XOR", "NOT", "SHL", "SHR",
      "LOAD_IMM", "LOAD_REG", "STORE", "CMP_EQ", "CMP_LT", "CMP_GT", "JMP", "JZ", "JNZ",
      "MAC", "DOT", "POLY", "ABS", "MIN", "MAX">> \o Ext
CallHandlers ==
    [HALT |-> "halt", NOP |-> "nop", ADD |-> "b+c", SUB |-> "b-c", MUL |-> "b*c", INC |-> "a+1", DEC |-> "a-1",
     NEG |-> "-b", AND |-> "b&c", OR |-> "b|c", XOR |-> "b^c", NOT |-> "~b", SHL |-> "b<<c", SHR |-> "b>>c",
     LOAD_IMM |-> "imm", LOAD_REG |-> "b", STORE |-> "b", CMP_EQ |-> "b==c", CMP_LT |-> "b<c", CMP_GT |-> "b>c",
     JMP |-> "ip=imm", JZ |-> "flags==0?imm", JNZ |-> "flags!=0?imm", MAC |-> "a+b*c", DOT |-> "a+b*c",
     POLY |-> "a*b+c", ABS |-> "abs(b)", MIN |-> "min(b,c)", MAX |-> "max(b,c)", EXT |-> "(b^x)+c"]
CallStep(s, i) == Run(s, CallHandlers[ctc_table[Fallback(i.op, ctc_table) + 1]], i, i.op - OP32, Len(code))

\* CodeGenerator and the two hand-written benchmarks
I(name, r1, r2, r3, imm) == [op |-> Op(name), r1 |-> r1, r2 |-> r2, r3 |-> r3, imm |-> imm]
Halting(p) == Append(p, I("HALT", 0, 0, 0, 0))
Regs == 0 .. NumRegs - 1
safe_ops == DOMAIN Ops \ {Op(n) + 1 : n \in {"HALT", "JMP", "JZ", "JNZ", "MAX"}}
Straight == {Halting(<<I("LOAD_IMM", 3, 0, 0, -3), [op |-> o - 1, r1 |-> a, r2 |-> b, r3 |-> c, imm |-> 9]>>) :
                o \in safe_ops, a \in Regs, b \in Regs, c \in Regs}
Iterations(n) == IF n \div 10 < 10 THEN 10 ELSE n \div 10
generateLoop(n) ==
    Halting(<<I("LOAD_IMM", 0, 0, 0, Iterations(n)), I("LOAD_IMM", 1, 0, 0, 0), I("LOAD_IMM", 2, 0, 0, 0)>>
            \o [k \in 1 .. 5 |-> I("INC", 2, 0, 0, 0)]
            \o <<I("DEC", 0, 0, 0, 0), I("CMP_GT", 0, 0, 1, 0), I("JNZ", 0, 0, 0, 3)>>)
generateBranchHeavy(imms) ==
    LET block(k) == <<I("LOAD_IMM", 0, 0, 0, imms[k]), I("CMP_LT", 0, 0, 1, 0),
                      I("JZ", 0, 0, 0, 4 * k), I("INC", 2, 0, 0, 0)>>
        cat[k \in 0 .. Len(imms)] == IF k = 0 THEN <<>> ELSE cat[k - 1] \o block(k)
    IN  Halting(cat[Len(imms)])
ManyOpcodes == {Halting(<<[op |-> o, r1 |-> 0, r2 |-> 1, r3 |-> 2, imm |-> 7]>>) : o \in OP32 - 1 .. 59}
\* BM_Interpreter, BM_ITC_Template, BM_TTC_Template: what is run
Branches == [1 .. 2 -> {-9, 9}]
Benchmarks == Straight \cup {generateLoop(n) : n \in Lengths} \cup {generateBranchHeavy(s) : s \in Branches}
              \cup ManyOpcodes
Interpreters == {"switch", "dtc", "itc", "ttc", "stc", "ctc"}

\* VMState::reset, and one instruction in every interpreter that still runs
Reset == [regs |-> [r \in Regs |-> r + 1], flags |-> 0, ip |-> 0, cycles |-> 0, end |-> "no"]
VmInit == code \in Benchmarks /\ vm = [k \in Interpreters |-> Reset]
Live(s) == s.end = "no" /\ s.ip < Len(code)
Step(k, s, i) == CASE k = "switch" -> SwitchStep(s, i) [] k = "dtc" -> DirectStep(s, i)
                   [] k = "itc" -> IndirectStep(s, i) [] k = "ttc" -> TokenStep(s, i)
                   [] k = "stc" -> SubroutineStep(s, i) [] k = "ctc" -> CallStep(s, i)
VmNext ==
    /\ \E k \in Interpreters : Live(vm[k])
    /\ vm' = [k \in Interpreters |-> IF Live(vm[k]) THEN Step(k, vm[k], code[vm[k].ip + 1]) ELSE vm[k]]
    /\ UNCHANGED code

\* What an opcode promises, by its name in enum class OpCode: s before, t after the instruction
Same(x, y) == U(x - y) = 0
BitOf(x, n) == IF n \in 0 .. W - 1 THEN (U(x) \div 2 ^ n) % 2 ELSE 0
Does(name, s, t, i) ==
    LET a == s.regs[i.r1]
        b == s.regs[i.r2]
        c == s.regs[i.r3]
        r == t.regs[i.r1]
        bits(Op2(_, _)) == \A n \in 0 .. W - 1 : BitOf(r, n) = Op2(BitOf(b, n), BitOf(c, n))
        shifted(d) == \A n \in 0 .. W - 1 : BitOf(r, n) = BitOf(b, n + d * (U(c) % W))
    IN  /\ \A q \in Regs \ {i.r1} : t.regs[q] = s.regs[q]
        /\ t.flags = Bit((name = "CMP_EQ" /\ b = c) \/ (name = "CMP_LT" /\ b < c) \/ (name = "CMP_GT" /\ b > c))
        /\ CASE name = "ADD" -> Same(r - c, b) [] name = "SUB" -> Same(r + c, b) [] name = "MUL" -> Same(r, b * c)
             [] name = "INC" -> Same(r - 1, a) [] name = "DEC" -> Same(r + 1, a) [] name = "NEG" -> Same(r + b, 0)
             [] name = "AND" -> bits(LAMBDA x, y : x * y) [] name = "OR" -> bits(LAMBDA x, y : Most(x, y))
             [] name = "XOR" -> bits(LAMBDA x, y : (x + y) % 2) [] name = "NOT" -> bits(LAMBDA x, y : 1 - x)
             [] name = "SHL" -> shifted(-1) [] name = "SHR" -> shifted(1)
             [] name = "LOAD_IMM" -> r = i.imm [] name \in {"LOAD_REG", "STORE"} -> r = b
             [] name \in {"MAC", "DOT"} -> Same(r - a, b * c) [] name = "POLY" -> Same(r - c, a * b)
             [] name = "ABS" -> r >= 0 /\ r \in {b, -b}
             [] name = "MIN" -> r \in {b, c} /\ r <= b /\ r <= c
             [] name = "MAX" -> r \in {b, c} /\ r >= b /\ r >= c
             [] name \in {"NOP", "CMP_EQ", "CMP_LT", "CMP_GT"} -> r = a

\* What each of the six hand-written interpreters leaves when it halts.  An instruction does
\* what its name promises, however the interpreter packs and dispatches it; the generated
\* loop leaves 5 times its iterations in r2 after the instructions it must take, the
\* generated branches count the numbers below r1 in r2.  An extended opcode xors its number
\* from OP32 into r2, with two exceptions that come from NUM_BASIC_OPS being 32 although
\* only 29 opcodes precede OP32 (basic.cpp:48), and that the benchmarks of the two
\* interpreters do not reach: the token version counts from 32, and the indirect version
\* reads past its table of labels for the first three.
InterpretersExact ==
    \A k \in Interpreters : vm[k].end # "no" =>
        LET s == vm[k]
            i == code[Len(code) - 1]
        IN  /\ Len(code) = 3 =>
                 /\ s.end = "halt" /\ s.cycles = 3
                 /\ Does(Ops[i.op + 1], [Reset EXCEPT !.regs[3] = -3], s, i)
            /\ \A n \in Lengths : code = generateLoop(n) =>
                 /\ s.regs[0] = 0 /\ s.regs[2] = 5 * Iterations(n) /\ s.cycles = 3 + 8 * Iterations(n) + 1
            /\ \A imms \in Branches : code = generateBranchHeavy(imms) =>
                 s.regs[2] = 3 + Cardinality({j \in 1 .. 2 : imms[j] < 2})
            /\ Len(code) = 2 =>
                 CASE i.op < OP32 -> s.end = "halt" /\ Does(Ops[i.op + 1], Reset, s, i)
                   [] k = "itc" /\ i.op \in OP32 .. NUM_BASIC_OPS - 1 -> s.end = "wild"
                   [] k = "ttc" /\ i.op >= OP32 -> s.regs[0] = S((2 ^^ U(i.op - 32)) + 3)
                   [] OTHER -> s.end = "halt" /\ s.regs[0] = S((2 ^^ (i.op - 29)) + 3)
-----------------------------------------------------------------------------
CONSTANTS Documents,     \* JSON documents as sequences of lexemes <<token, text>>
          Strings        \* other texts

VARIABLES lexemes,       \* what the text was put together from, <<>> for any other text
          input,         \* the string_view
          tok,           \* by tokenizer [pos, out, done]
          machine        \* by VM [pc, pos, match, result, halted]

Ws == {32, 9, 10, 13}
Digits == 48 .. 57
Letters == 65 .. 90 \cup 97 .. 122
NumberChars == Digits \cup {46, 101, 69, 43, 45}
Quote == 34
Backslash == 92

(* Character classes: six classifiers.  A table is filled by assignments in order, a later *)
(* one overwrites; the classifiers with handlers or labels return the class these stand for. *)
Look(table, c) == table[Max({k \in DOMAIN table : c \in table[k][1]})][2]

classify_switch(c) ==
    CASE c \in Ws -> "Whitespace" [] c \in Digits -> "Digit" [] c \in Letters \ {101, 69} -> "Alpha"
      [] c \in {101, 69} -> "Exponent" [] c = 34 -> "Quote" [] c = 58 -> "Colon" [] c = 44 -> "Comma"
      [] c = 123 -> "OpenBrace" [] c = 125 -> "CloseBrace" [] c = 91 -> "OpenBracket"
      [] c = 93 -> "CloseBracket" [] c = 45 -> "Minus" [] c = 43 -> "Plus" [] c = 46 -> "Dot"
      [] c = 92 -> "Backslash" [] OTHER -> "Other"
kCharTable ==
    <<<<0 .. 255, "Other">>, <<Ws, "Whitespace">>, <<48 .. 57, "Digit">>, <<97 .. 122, "Alpha">>,
      <<65 .. 90, "Alpha">>, <<{101}, "Exponent">>, <<{69}, "Exponent">>, <<{34}, "Quote">>, <<{58}, "Colon">>,
      <<{44}, "Comma">>, <<{123}, "OpenBrace">>, <<{125}, "CloseBrace">>, <<{91}, "OpenBracket">>,
      <<{93}, "CloseBracket">>, <<{45}, "Minus">>, <<{43}, "Plus">>, <<{46}, "Dot">>, <<{92}, "Backslash">>>>
kFuncTable ==
    <<<<0 .. 255, "Other">>, <<Ws, "Whitespace">>, <<48 .. 57, "Digit">>, <<97 .. 122, "Alpha">>,
      <<65 .. 90, "Alpha">>, <<{101}, "Exponent">>, <<{69}, "Exponent">>, <<{34}, "Quote">>, <<{58}, "Colon">>,
      <<{44}, "Comma">>, <<{123}, "OpenBrace">>, <<{125}, "CloseBrace">>, <<{91}, "OpenBracket">>,
      <<{93}, "CloseBracket">>, <<{45}, "Minus">>, <<{43}, "Plus">>, <<{46}, "Dot">>, <<{92}, "Backslash">>>>
labels ==
    <<<<0 .. 255, "Other">>, <<Ws, "Whitespace">>, <<48 .. 57, "Digit">>, <<97 .. 122, "Alpha">>,
      <<65 .. 90, "Alpha">>, <<{101}, "Exponent">>, <<{69}, "Exponent">>, <<{34}, "Quote">>, <<{58}, "Colon">>,
      <<{44}, "Comma">>, <<{123}, "OpenBrace">>, <<{125}, "CloseBrace">>, <<{91}, "OpenBracket">>,
      <<{93}, "CloseBracket">>, <<{45}, "Minus">>, <<{43}, "Plus">>, <<{46}, "Dot">>, <<{92}, "Backslash">>>>
classify_handlers ==
    <<<<0 .. 255, "Other">>, <<Ws, "Whitespace">>, <<48 .. 57, "Digit">>, <<97 .. 122, "Alpha">>,
      <<65 .. 90, "Alpha">>, <<{69, 101}, "Exponent">>, <<{34}, "Quote">>, <<{58}, "Colon">>,
      <<{44}, "Comma">>, <<{123}, "OpenBrace">>, <<{125}, "CloseBrace">>, <<{91}, "OpenBracket">>,
      <<{93}, "CloseBracket">>, <<{45}, "Minus">>, <<{43}, "Plus">>, <<{46}, "Dot">>, <<{92}, "Backslash">>>>
classify_hybrid(c) ==
    IF c <= 32 THEN IF c \in Ws THEN "Whitespace" ELSE "Other"
    ELSE IF c \in Digits THEN "Digit"
    ELSE IF c \in Letters THEN IF c \in {101, 69} THEN "Exponent" ELSE "Alpha"
    ELSE Look(kCharTable, c)

(* Tokenizers.  A result is the token and the position after it. *)
Size == Len(input)
Res(t, p) == [token |-> t, pos |-> p]
Skip(p) == Min({q \in p .. Size + 1 : q > Size \/ input[q] \notin Ws})
SkipThen(p, Tok(_)) == IF Skip(p) > Size THEN Res("End", Size + 1) ELSE Tok(Skip(p))
\* parse_string, parse_number: the loops, with the chars that end, escape or go on
parse_string(p, quote, backslash) ==
    LET scan[q \in p + 1 .. Size + 2] ==
            IF q > Size THEN Res("Invalid", Size + 1)
            ELSE IF input[q] \in quote THEN Res("String", q + 1)
            ELSE scan[IF input[q] \in backslash /\ q + 1 <= Size THEN q + 2 ELSE q + 1]
    IN  scan[p + 1]
parse_number(p, more) == Res("Number", Min({q \in p + 1 .. Size + 1 : q > Size \/ input[q] \notin more}))
Spelt(p, w) == p + Len(w) - 1 <= Size /\ SubSeq(input, p, p + Len(w) - 1) = w
\* the switch and the table version: a keyword that is not spelt out is Invalid and stays
parse_keyword(p, kw, token) == IF Spelt(p, kw) THEN Res(token, p + Len(kw)) ELSE Res("Invalid", p)

SwitchToken(p) ==
    SkipThen(p, LAMBDA q :
        LET c == input[q] IN
        CASE c = 123 -> Res("ObjectStart", q + 1) [] c = 125 -> Res("ObjectEnd", q + 1)
          [] c = 91 -> Res("ArrayStart", q + 1) [] c = 93 -> Res("ArrayEnd", q + 1)
          [] c = 58 -> Res("Colon", q + 1) [] c = 44 -> Res("Comma", q + 1)
          [] c = 34 -> parse_string(q, {34}, {92})
          [] c = 116 -> parse_keyword(q, <<116, 114, 117, 101>>, "True")
          [] c = 102 -> parse_keyword(q, <<102, 97, 108, 115, 101>>, "False")
          [] c = 110 -> parse_keyword(q, <<110, 117, 108, 108>>, "Null")
          [] c \in {45} \cup 48 .. 57 -> parse_number(q, 48 .. 57 \cup {46, 101, 69, 43, 45})
          [] OTHER -> Res("Invalid", q + 1))

\* the table version: a class per char, a token per class
char_class_ ==
    <<<<0 .. 255, "OTHER">>, <<Ws, "WS">>, <<{123}, "LBRACE">>, <<{125}, "RBRACE">>, <<{91}, "LBRACKET">>,
      <<{93}, "RBRACKET">>, <<{34}, "QUOTE">>, <<{58}, "COLON">>, <<{44}, "COMMA">>, <<{45}, "MINUS">>,
      <<48 .. 57, "DIGIT">>, <<{46}, "DOT">>, <<{101}, "EXP">>, <<{69}, "EXP">>, <<{43}, "PLUS">>,
      <<{116}, "T">>, <<{102}, "F">>, <<{110}, "N">>, <<{92}, "BACKSLASH">>>>
token_table_ == [LBRACE |-> "ObjectStart", RBRACE |-> "ObjectEnd", LBRACKET |-> "ArrayStart",
                 RBRACKET |-> "ArrayEnd", COLON |-> "Colon", COMMA |-> "Comma"]
Classed(set) == {c \in Range(input) : Look(char_class_, c) \in set}
TableToken(p) ==
    LET q == Min({r \in p .. Size + 1 : r > Size \/ Look(char_class_, input[r]) # "WS"})
        cc == Look(char_class_, input[q])
    IN  CASE q > Size -> Res("End", q)
          [] q <= Size /\ cc \in DOMAIN token_table_ -> Res(token_table_[cc], q + 1)
          [] q <= Size /\ cc = "QUOTE" -> parse_string(q, Classed({"QUOTE"}), Classed({"BACKSLASH"}))
          [] q <= Size /\ cc \in {"MINUS", "DIGIT"} ->
                parse_number(q, Classed({"DIGIT", "DOT", "EXP", "PLUS", "MINUS"}))
          [] q <= Size /\ cc = "T" -> parse_keyword(q, <<116, 114, 117, 101>>, "True")
          [] q <= Size /\ cc = "F" -> parse_keyword(q, <<102, 97, 108, 115, 101>>, "False")
          [] q <= Size /\ cc = "N" -> parse_keyword(q, <<110, 117, 108, 108>>, "Null")
          [] OTHER -> Res("Invalid", q + 1)

\* the versions with a handler or a label per char: what the handlers do, a keyword by the
\* letters after its first; one that is not spelt out is Invalid and passed by a char
One(token) == <<"one", token>>
Word(rest, token) == <<"word", rest, token>>
Handle(h, p) ==
    CASE h[1] = "skip" -> Res("Whitespace", p + 1)
      [] h[1] = "one" -> Res(h[2], p + 1)
      [] h[1] = "string" -> parse_string(p, {34}, {92})
      [] h[1] = "number" -> parse_number(p, 48 .. 57 \cup {46, 101, 69, 43, 45})
      [] h[1] = "word" -> IF Spelt(p + 1, h[2]) THEN Res(h[3], p + 1 + Len(h[2])) ELSE Res("Invalid", p + 1)
handlers_ ==
    <<<<0 .. 255, One("Invalid")>>, <<Ws, <<"skip">>>>, <<{123}, One("ObjectStart")>>, <<{125}, One("ObjectEnd")>>,
      <<{91}, One("ArrayStart")>>, <<{93}, One("ArrayEnd")>>, <<{58}, One("Colon")>>, <<{44}, One("Comma")>>,
      <<{34}, <<"string">>>>, <<{116}, Word(<<114, 117, 101>>, "True")>>,
      <<{102}, Word(<<97, 108, 115, 101>>, "False")>>, <<{110}, Word(<<117, 108, 108>>, "Null")>>,
      <<{45}, <<"number">>>>, <<48 .. 57, <<"number">>>>>>
\* one handler call: after blank space next_token's loop goes on
HandlerToken(p) == IF p > Size THEN Res("End", p) ELSE Handle(Look(handlers_, input[p]), p)

token_labels ==
    <<<<0 .. 255, One("Invalid")>>, <<Ws, <<"skip">>>>, <<{123}, One("ObjectStart")>>, <<{125}, One("ObjectEnd")>>,
      <<{91}, One("ArrayStart")>>, <<{93}, One("ArrayEnd")>>, <<{58}, One("Colon")>>, <<{44}, One("Comma")>>,
      <<{34}, <<"string">>>>, <<{116}, Word(<<114, 117, 101>>, "True")>>,
      <<{102}, Word(<<97, 108, 115, 101>>, "False")>>, <<{110}, Word(<<117, 108, 108>>, "Null")>>,
      <<{45}, <<"number">>>>, <<48 .. 57, <<"number">>>>>>
\* L_skip dispatches again before it returns
GotoToken(p) ==
    LET goto[q \in p .. Size + 1] ==
            IF q > Size THEN Res("End", q)
            ELSE LET h == Look(token_labels, input[q]) IN IF h[1] = "skip" THEN goto[q + 1] ELSE Handle(h, q)
    IN  goto[p]

tok_handlers ==
    <<<<0 .. 255, One("Invalid")>>, <<Ws, <<"skip">>>>, <<{123}, One("ObjectStart")>>, <<{125}, One("ObjectEnd")>>,
      <<{91}, One("ArrayStart")>>, <<{93}, One("ArrayEnd")>>, <<{58}, One("Colon")>>, <<{44}, One("Comma")>>,
      <<{34}, <<"string">>>>, <<{116}, Word(<<114, 117, 101>>, "True")>>,
      <<{102}, Word(<<97, 108, 115, 101>>, "False")>>, <<{110}, Word(<<117, 108, 108>>, "Null")>>,
      <<{45}, <<"number">>>>, <<48 .. 57, <<"number">>>>>>
\* the tail-calling batch skips blank space first; an unterminated string ends it without a token
TailToken(p) ==
    SkipThen(p, LAMBDA q :
        LET h == Look(tok_handlers, input[q])
        IN  IF h[1] = "string" /\ Handle(h, q).token = "Invalid" THEN Res("End", Size + 1) ELSE Handle(h, q))

Tokenizers == {"switch", "table", "handlers", "goto", "tail"}
Token(k, p) == CASE k = "switch" -> SwitchToken(p) [] k = "table" -> TableToken(p)
                 [] k = "handlers" -> HandlerToken(p) [] k = "goto" -> GotoToken(p) [] k = "tail" -> TailToken(p)
\* tokenize_all: tokens with the place of their text, until End.  A scan that stays where it
\* is goes on for ever in the code; it is cut off after more tokens than the text has chars.
Scan(k, t) ==
    LET r == Token(k, t.pos)
    IN  [pos |-> r.pos, done |-> r.token = "End" \/ Len(t.out) > Size,
         out |-> IF r.token \in {"Whitespace", "End"} THEN t.out
                 ELSE Append(t.out, [token |-> r.token, from |-> Skip(t.pos), to |-> r.pos - 1])]

(* The VMs and their program *)
Ins(op, x, y) == [op |-> op, operand1 |-> x, operand2 |-> y]
make_number_program ==
    <<Ins("SkipWhitespace", 0, 0), Ins("MatchChar", 45, 0), Ins("MatchRange", 48, 57),
      Ins("JumpIfNoMatch", 8, 0), Ins("MatchRange", 48, 57), Ins("JumpIfMatch", 4, 0),
      Ins("EmitToken", "Number", 0), Ins("Halt", 0, 0), Ins("EmitToken", "Invalid", 0)>>
Matched(s, ok) == [s EXCEPT !.match = ok, !.pos = IF ok THEN @ + 1 ELSE @, !.pc = @ + 1]
At(s) == make_number_program[s.pc + 1]     \* pc is counted from 0 as in the code
Ended(s) == s.pc >= Len(make_number_program)
Returns(s, token) == [s EXCEPT !.result = token, !.halted = TRUE]
\* the instructions after which the program goes on
Moves(s) ==
    LET i == At(s)
        in(set) == s.pos <= Size /\ input[s.pos] \in set
    IN  CASE i.op = "Nop" -> [s EXCEPT !.pc = @ + 1]
          [] i.op = "SkipWhitespace" -> [s EXCEPT !.pos = Skip(@), !.pc = @ + 1]
          [] i.op = "MatchChar" -> Matched(s, in({i.operand1}))
          [] i.op = "MatchRange" -> Matched(s, in(i.operand1 .. i.operand2))
          [] i.op = "JumpIfMatch" -> [s EXCEPT !.pc = IF s.match THEN i.operand1 ELSE @ + 1]
          [] i.op = "JumpIfNoMatch" -> [s EXCEPT !.pc = IF s.match THEN @ + 1 ELSE i.operand1]
          [] i.op = "Jump" -> [s EXCEPT !.pc = i.operand1]
\* One instruction of each VM: they differ in where they look for the end of the program
\* and in what Halt leaves as the result.
SwitchVM(s) ==
    CASE Ended(s) -> Returns(s, "End") [] ~Ended(s) /\ At(s).op = "EmitToken" -> Returns(s, At(s).operand1)
      [] ~Ended(s) /\ At(s).op = "Halt" -> Returns(s, "End") [] OTHER -> Moves(s)
DirectThreadedVM(s) ==
    CASE Ended(s) -> [s EXCEPT !.halted = TRUE]
      [] ~Ended(s) /\ At(s).op = "EmitToken" -> Returns(s, At(s).operand1)
      [] ~Ended(s) /\ At(s).op = "Halt" -> [s EXCEPT !.halted = TRUE] [] OTHER -> Moves(s)
ComputedGotoVM(s) ==
    CASE At(s).op = "EmitToken" -> Returns(s, At(s).operand1) [] At(s).op = "Halt" -> Returns(s, "End")
      [] OTHER -> IF Ended(Moves(s)) THEN Returns(Moves(s), "End") ELSE Moves(s)
vm_handlers(s) ==
    CASE At(s).op = "EmitToken" -> Returns(s, At(s).operand1) [] At(s).op = "Halt" -> Returns(s, "End")
      [] OTHER -> IF Ended(Moves(s)) THEN [Moves(s) EXCEPT !.halted = TRUE] ELSE Moves(s)
VM(k, s) == CASE k = "switch" -> SwitchVM(s) [] k = "handlers" -> DirectThreadedVM(s)
              [] k = "goto" -> ComputedGotoVM(s) [] k = "tail" -> vm_handlers(s)
\* run_musttail_vm starts from the result Invalid, the others from End
VMs == {"switch", "handlers", "goto", "tail"}
Started(k) == [pc |-> 0, pos |-> 1, match |-> FALSE, halted |-> FALSE,
               result |-> IF k = "tail" THEN "Invalid" ELSE "End"]

JsonInit ==
    /\ lexemes \in Documents \cup {<<>>}
    /\ IF lexemes = <<>> THEN input \in Strings
                         ELSE input = FlattenSeq([i \in DOMAIN lexemes |-> lexemes[i][2]])
    /\ tok = [k \in Tokenizers |-> [pos |-> 1, out |-> <<>>, done |-> FALSE]]
    /\ machine = [k \in VMs |-> Started(k)]
Running(s) == ~s.halted
JsonNext ==
    /\ (\E k \in Tokenizers : ~tok[k].done) \/ \E k \in VMs : Running(machine[k])
    /\ tok' = [k \in Tokenizers |-> IF tok[k].done THEN tok[k] ELSE Scan(k, tok[k])]
    /\ machine' = [k \in VMs |-> IF Running(machine[k]) THEN VM(k, machine[k]) ELSE machine[k]]
    /\ UNCHANGED <<lexemes, input>>

\* What the text of a token is, by the comments of enum class JsonToken (json.cpp:21-37)
Signs == [ObjectStart |-> 123, ObjectEnd |-> 125, ArrayStart |-> 91, ArrayEnd |-> 93, Colon |-> 58, Comma |-> 44]
Words == [True |-> <<116, 114, 117, 101>>, False |-> <<102, 97, 108, 115, 101>>, Null |-> <<110, 117, 108, 108>>]
\* a quote ends the string begun at p when an even number of backslashes precedes it
Ends(p, i) ==
    /\ input[i] = Quote
    /\ LET run == {j \in p + 1 .. i : \A m \in j .. i - 1 : input[m] = Backslash} IN (i - Min(run)) % 2 = 0
Unterminated(p) == input[p] = Quote /\ \A i \in p + 1 .. Size : ~Ends(p, i)
Misspelt(p) == (\E t \in DOMAIN Words : input[p] = Words[t][1]) /\ ~\E t \in DOMAIN Words : Spelt(p, Words[t])
IsText(t, p, q) ==
    CASE t \in DOMAIN Signs -> p = q /\ input[p] = Signs[t]
      [] t \in DOMAIN Words -> SubSeq(input, p, q) = Words[t]
      [] t = "Number" -> /\ input[p] \in Digits \cup {45} /\ \A i \in p + 1 .. q : input[i] \in NumberChars
                         /\ q < Size => input[q + 1] \notin NumberChars
      [] t = "String" -> /\ p < q /\ input[p] = Quote /\ Ends(p, q) /\ \A i \in p + 1 .. q - 1 : ~Ends(p, i)
      [] t = "Invalid" -> IF input[p] = Quote THEN q = Size /\ Unterminated(p)
                          ELSE p = q /\ input[p] \notin Range(Signs) \cup Digits \cup {45} \cup Ws
                               /\ ~\E w \in DOMAIN Words : Spelt(p, Words[w])

\* Each of the five tokenizers takes every token with exactly its text, on any text, and
\* leaves nothing but blank space behind; on a JSON document these are the tokens it is
\* made of.  Two exceptions: the switch and the table version do not get past a keyword
\* that is not spelt out, and return Invalid for ever (json.cpp:404-411, 530-537); the
\* tail-calling version drops an unterminated string without a token
\* (json_musttail.cpp:577).
TokensExact ==
    \A k \in Tokenizers :
        LET out == tok[k].out
            rest == Skip(IF out = <<>> THEN 1 ELSE Last(out).to + 1)
            stuck(p) == k \in {"switch", "table"} /\ Misspelt(p)
        IN  /\ out # <<>> => LET e == Last(out) IN
                 IF stuck(e.from) THEN e.token = "Invalid" /\ e.to = e.from - 1 ELSE IsText(e.token, e.from, e.to)
            /\ tok[k].done /\ rest <= Size => stuck(rest) \/ (k = "tail" /\ Unterminated(rest))
            /\ tok[k].done /\ lexemes # <<>> =>
                 [i \in DOMAIN out |-> out[i].token]
                    = SelectSeq([i \in DOMAIN lexemes |-> lexemes[i][1]], LAMBDA t : t # "Whitespace")

\* What a char is, by the comments of enum class CharClass (json.cpp:58-77)
Classes ==
    [Whitespace |-> Ws, Digit |-> Digits, Alpha |-> Letters \ {101, 69}, Quote |-> {34}, Colon |-> {58},
     Comma |-> {44}, OpenBrace |-> {123}, CloseBrace |-> {125}, OpenBracket |-> {91}, CloseBracket |-> {93},
     Minus |-> {45}, Plus |-> {43}, Dot |-> {46}, Backslash |-> {92}, Exponent |-> {101, 69}]

\* All six classifiers give every char the class the enum describes; the VMs, when they
\* stop, tell whether the text starts with blank space, an optional minus and a digit.
ClassesExact ==
    /\ \A i \in DOMAIN input :
         LET c == input[i]
             is == {k \in DOMAIN Classes : c \in Classes[k]}
         IN  {classify_switch(c), classify_hybrid(c), Look(kCharTable, c), Look(kFuncTable, c), Look(labels, c),
              Look(classify_handlers, c)} = IF is = {} THEN {"Other"} ELSE is
    /\ \A k \in VMs : ~Running(machine[k]) =>
         LET p == Skip(1)
             q == IF p <= Size /\ input[p] = 45 THEN p + 1 ELSE p
         IN  machine[k].result = IF q <= Size /\ input[q] \in Digits THEN "Number" ELSE "Invalid"
=============================================================================
