----------------------------- MODULE ElfLinker -----------------------------
(***************************************************************************)
(* llm4fun/linker/mini_elf_linker.cpp, a static linker: main() as a        *)
(* sequence of passes over relocatable objects.  Section contents are left *)
(* out except for what relocations store.  Sizes and addresses are small   *)
(* numbers: the 32-bit limits of the relocations are scaled with them.     *)
(***************************************************************************)
EXTENDS Integers, SequencesExt, FiniteSetsExt

CONSTANTS Links,       \* the command lines: sequences of input objects
          BASE_ADDR, HdrSize, Int32    \* 0x400000, 176 and 2^31 in the code

VARIABLES objects,     \* [kind, secs, syms, relas]; section and symbol 0 are left out
          pc, oi,      \* the pass, and the object it is at
          chunks, osecs,
          all_syms, globals,
          stored,      \* what relocations wrote: [ci, off, value]
          exe          \* what was written: [entry, filesz, memsz, done]

linkVars == <<objects, pc, oi, chunks, osecs, all_syms, globals, stored, exe>>

align_up(v, a) == ((v + a - 1) \div a) * a
UNDEF == 0
ABS == -1
COMMON == -2
NoExe == [entry |-> 0, filesz |-> 0, memsz |-> 0]

Init ==
    /\ objects \in Links /\ pc = "read" /\ oi = 1
    /\ chunks = <<>> /\ osecs = <<>> /\ all_syms = <<>> /\ globals = <<>> /\ stored = {} /\ exe = NoExe

\* 1. Each file must be an x86-64 relocatable ELF file.
Read ==
    /\ pc = "read"
    /\ IF oi > Len(objects) THEN pc' = "collect" /\ oi' = 1
       ELSE IF objects[oi].kind = "foreign" THEN pc' = "invalid" /\ UNCHANGED oi
       ELSE oi' = oi + 1 /\ UNCHANGED pc
    /\ UNCHANGED <<objects, chunks, osecs, all_syms, globals, stored, exe>>

\* 2. The allocated sections, object by object.
is_alloc_section_type(type) == type \in {"PROGBITS", "NOBITS", "INIT_ARRAY", "FINI_ARRAY", "PREINIT_ARRAY"}
Chunk(o, s) == LET sh == objects[o].secs[s] IN
    [obj |-> o, sec |-> s, name |-> sh.name, size |-> sh.size, align |-> IF sh.align = 0 THEN 1 ELSE sh.align,
     flags |-> sh.flags, type |-> sh.type, off |-> 0]
Collect ==
    /\ pc = "collect" /\ pc' = "merge"
    /\ chunks' = FlattenSeq([o \in DOMAIN objects |->
          SelectSeq([s \in DOMAIN objects[o].secs |-> Chunk(o, s)],
                    LAMBDA c : "ALLOC" \in c.flags /\ is_alloc_section_type(c.type))])
    /\ UNCHANGED <<objects, oi, osecs, all_syms, globals, stored, exe>>

\* 3. One output section per name, in order of appearance, then stably sorted.
Ids(name) == SelectSeq([i \in DOMAIN chunks |-> i], LAMBDA i : chunks[i].name = name)
OutputSection(name) == LET ids == Ids(name) IN
    [name |-> name, flags |-> chunks[ids[1]].flags, align |-> Max({chunks[i].align : i \in Range(ids)}),
     is_bss |-> \E i \in Range(ids) : chunks[i].type = "NOBITS", chunk_ids |-> ids,
     vaddr |-> 0, foff |-> 0, size |-> 0]
Appearing == FoldLeft(LAMBDA ns, c : IF c.name \in Range(ns) THEN ns ELSE Append(ns, c.name), <<>>, chunks)
\* mutant: sections come in the order of the objects
rank_none(s) == 0
rank(s) == IF "EXEC" \in s.flags THEN 0 ELSE IF "WRITE" \notin s.flags THEN 1 ELSE IF s.is_bss THEN 3 ELSE 2
Merge ==
    /\ pc = "merge" /\ pc' = "layout"
    /\ LET all == [i \in DOMAIN Appearing |-> OutputSection(Appearing[i])]
       IN  osecs' = FlattenSeq([r \in 1 .. 4 |-> SelectSeq(all, LAMBDA s : rank(s) = r - 1)])
    /\ UNCHANGED <<objects, oi, chunks, all_syms, globals, stored, exe>>
\* The chunks' offsets in their section, 4. the sections' addresses and file offsets.
Placed == [o \in DOMAIN osecs |->
    FoldLeft(LAMBDA acc, i : LET at == align_up(acc.off, chunks[i].align)
                             IN  [off |-> at + chunks[i].size, at |-> [acc.at EXCEPT ![i] = at]],
             [off |-> 0, at |-> [i \in DOMAIN chunks |-> 0]], osecs[o].chunk_ids)]
Addressed(cur, s, size) ==
    LET v == align_up(cur.vaddr, s.align)
        f == IF s.is_bss THEN cur.file ELSE align_up(cur.file, s.align)
    IN  [vaddr |-> v + size, file |-> IF s.is_bss THEN f ELSE f + size,
         out |-> Append(cur.out, [s EXCEPT !.vaddr = v, !.foff = f, !.size = size])]
Layout ==
    /\ pc = "layout" /\ pc' = "symbols" /\ oi' = 1
    /\ LET placed == Placed
           start == align_up(HdrSize, 16)
           end == FoldLeft(LAMBDA cur, o : Addressed(cur, osecs[o], placed[o].off),
                           [vaddr |-> BASE_ADDR + start, file |-> start, out |-> <<>>],
                           [o \in DOMAIN osecs |-> o])
       IN  /\ chunks' = [i \in DOMAIN chunks |->
                [chunks[i] EXCEPT !.off = Max({placed[o].at[i] : o \in DOMAIN osecs})]]
           /\ osecs' = end.out
           /\ exe' = [exe EXCEPT !.filesz = end.file, !.memsz = end.vaddr - BASE_ADDR]
    /\ UNCHANGED <<objects, all_syms, globals, stored>>

\* 5. Symbols.  Where a chunk is, and the value of a symbol of object o
ChunkOf(o, s) == {i \in DOMAIN chunks : chunks[i].obj = o /\ chunks[i].sec = s}
Addr(i) == osecs[CHOOSE o \in DOMAIN osecs : osecs[o].name = chunks[i].name].vaddr + chunks[i].off
SymInfo(o, s) ==
    [name |-> s.name, bind |-> s.bind, shndx |-> s.shndx, obj |-> o,
     value |-> CASE s.shndx > 0 -> s.value + (IF ChunkOf(o, s.shndx) = {} THEN 0
                                              ELSE Addr(CHOOSE i \in ChunkOf(o, s.shndx) : TRUE))
                 [] s.shndx = ABS -> s.value
                 [] OTHER -> 0]
Known(g, name) == name \in DOMAIN g
Put(g, info) == [n \in DOMAIN g \cup {info.name} |-> IF n = info.name THEN info ELSE g[n]]
Clash(g, info) == Known(g, info.name) /\ info.shndx # UNDEF /\ info.bind = "GLOBAL"
                  /\ g[info.name].shndx # UNDEF /\ g[info.name].bind = "GLOBAL"
Overrides(g, info) ==
    IF info.shndx # UNDEF
    THEN ~Known(g, info.name) \/ g[info.name].shndx = UNDEF \/ (g[info.name].bind = "WEAK" /\ info.bind # "WEAK")
    ELSE ~Known(g, info.name)
Register(acc, info) ==
    CASE acc.dup \/ info.bind = "LOCAL" -> acc
      [] ~acc.dup /\ info.bind # "LOCAL" /\ Clash(acc.g, info) -> [acc EXCEPT !.dup = TRUE]
      [] OTHER -> IF Overrides(acc.g, info) THEN [acc EXCEPT !.g = Put(acc.g, info)] ELSE acc
Symbols ==
    /\ pc = "symbols"
    /\ IF oi > Len(objects) THEN pc' = "resolve" /\ UNCHANGED <<oi, all_syms, globals>>
       ELSE IF objects[oi].kind = "badlink" THEN pc' = "badlink" /\ UNCHANGED <<oi, all_syms, globals>>
       ELSE LET infos == [k \in DOMAIN objects[oi].syms |-> SymInfo(oi, objects[oi].syms[k])]
                r == FoldLeft(Register, [g |-> globals, dup |-> FALSE], infos)
            IN  /\ all_syms' = Append(all_syms, infos) /\ globals' = r.g
                /\ oi' = oi + 1 /\ pc' = IF r.dup THEN "duplicate" ELSE pc
    /\ UNCHANGED <<objects, chunks, osecs, stored, exe>>
\* Undefined references, the check for what stays undefined, and the entry point
Resolve ==
    /\ pc = "resolve" /\ oi' = 1
    /\ all_syms' = [o \in DOMAIN all_syms |-> [k \in DOMAIN all_syms[o] |-> LET s == all_syms[o][k] IN
            IF s.shndx = UNDEF /\ Known(globals, s.name) /\ globals[s.name].shndx # UNDEF
            THEN [s EXCEPT !.value = globals[s.name].value] ELSE s]]
    /\ pc' = IF \E n \in DOMAIN globals : globals[n].shndx = UNDEF /\ globals[n].bind # "WEAK"
             THEN "undefined" ELSE "relocate"
    /\ exe' = [exe EXCEPT !.entry = IF Known(globals, "_start") THEN globals["_start"].value ELSE 0]
    /\ UNCHANGED <<objects, chunks, osecs, globals, stored>>

\* 6. Relocations: the value stored by r of object o in chunk i, and what stops it
Width(r) == IF r.type = "64" THEN 8 ELSE 4
RelocValue(o, i, r) ==
    LET sa == all_syms[o][r.sym].value + r.addend
    IN  IF r.type = "PC32" THEN sa - (Addr(i) + r.off) ELSE sa
Fits(type, v) == CASE type = "64" -> TRUE [] type \in {"PC32", "32S"} -> v \in -Int32 .. Int32 - 1
                   [] type = "32" -> v \in 0 .. 2 * Int32 - 1
Relocs(o) == SelectSeq(objects[o].relas, LAMBDA r : ChunkOf(o, r.sec) # {})
Fault(o, i, r) ==
    IF r.sym > Len(all_syms[o]) THEN "badsym"
    ELSE IF r.type = "NONE" THEN ""
    ELSE IF r.type \notin {"64", "PC32", "32", "32S"} THEN "unsupported"
    ELSE IF r.off + Width(r) > chunks[i].size THEN "bounds"
    ELSE IF ~Fits(r.type, RelocValue(o, i, r)) THEN "overflow" ELSE ""
Apply(o, acc, r) ==
    LET i == CHOOSE j \in ChunkOf(o, r.sec) : TRUE
        fault == Fault(o, i, r)
    IN  IF acc.err # "" THEN acc
        ELSE IF fault # "" THEN [acc EXCEPT !.err = fault]
        ELSE IF r.type = "NONE" THEN acc
        ELSE [acc EXCEPT !.st = @ \cup {[ci |-> i, rel |-> r, value |-> RelocValue(o, i, r)]}]
Relocate ==
    /\ pc = "relocate"
    /\ IF oi > Len(objects) THEN pc' = "write" /\ UNCHANGED <<oi, stored>>
       ELSE LET r == FoldLeft(LAMBDA acc, x : Apply(oi, acc, x), [st |-> stored, err |-> ""], Relocs(oi))
            IN  stored' = r.st /\ oi' = oi + 1 /\ pc' = IF r.err # "" THEN r.err ELSE pc
    /\ UNCHANGED <<objects, chunks, osecs, all_syms, globals, exe>>

\* 7. One PT_LOAD from offset 0 to BASE_ADDR; the file is made at once, or cannot be opened.
Write == pc = "write" /\ pc' \in {"done", "nowrite"} /\ UNCHANGED <<objects, oi, chunks, osecs, all_syms, globals, stored, exe>>

Next == Read \/ Collect \/ Merge \/ Layout \/ Symbols \/ Resolve \/ Relocate \/ Write
Spec == Init /\ [][Next]_linkVars /\ WF_linkVars(Next)

----------------------------------------------------------------------------
\* The image the loader makes of the file: every section has its own aligned place above
\* the headers and inside the segment; what has contents lies where the single PT_LOAD maps
\* its file offset, and what has none lies behind the end of the file, so it is zero.
ImageLaidOut ==
    pc = "done" => \A i \in DOMAIN chunks :
        LET a == Addr(i)
            os == osecs[CHOOSE o \in DOMAIN osecs : osecs[o].name = chunks[i].name]
        IN  /\ a % chunks[i].align = 0
            /\ a >= BASE_ADDR + HdrSize /\ a + chunks[i].size <= BASE_ADDR + exe.memsz
            /\ \A j \in DOMAIN chunks \ {i} : a + chunks[i].size <= Addr(j) \/ Addr(j) + chunks[j].size <= a
            /\ IF os.is_bss THEN chunks[i].size > 0 => a >= BASE_ADDR + exe.filesz
               ELSE a - BASE_ADDR = os.foff + chunks[i].off /\ a + chunks[i].size <= BASE_ADDR + exe.filesz

\* What name means: its strong definition, else its first weak one, else address 0.
Defs(name) == {<<o, k>> \in UNION {{o} \X DOMAIN objects[o].syms : o \in DOMAIN objects} :
    LET s == objects[o].syms[k] IN s.name = name /\ s.bind # "LOCAL" /\ s.shndx # UNDEF}
Before(a, b) == a[1] < b[1] \/ (a[1] = b[1] /\ a[2] <= b[2])
Strong(ds) == {d \in ds : objects[d[1]].syms[d[2]].bind = "GLOBAL"}
Chosen(ds) == LET from == IF Strong(ds) # {} THEN Strong(ds) ELSE ds
              IN  CHOOSE d \in from : \A e \in from : Before(d, e)
Meaning(name) == IF Defs(name) = {} THEN 0
                 ELSE LET d == Chosen(Defs(name)) IN SymInfo(d[1], objects[d[1]].syms[d[2]]).value
\* Every relocation stored the address its symbol means, whichever order the objects came
\* in: a local symbol its own section's, a name the strong definition's (except in an object
\* that defines the name weakly itself), and the value fits its field exactly.
RelocsExact ==
    pc = "done" => \A w \in stored :
        LET o == chunks[w.ci].obj
            s == objects[o].syms[w.rel.sym]
            S == IF s.bind = "LOCAL" \/ s.shndx # UNDEF THEN SymInfo(o, s).value ELSE Meaning(s.name)
            place == IF w.rel.type = "PC32" THEN Addr(w.ci) + w.rel.off ELSE 0
            low == IF w.rel.type \in {"PC32", "32S"} THEN -Int32 ELSE 0
        IN  /\ w.value = S + w.rel.addend - place
            /\ w.rel.type # "64" => w.value \in low .. low + 2 * Int32 - 1

\* A link is refused for a reason that is in the objects: two strong definitions of a name,
\* or a reference that is not weak to a name nothing defines.
RefusalsTrue ==
    /\ pc = "duplicate" => \E n \in DOMAIN globals : Cardinality(Strong(Defs(n))) > 1
    /\ pc = "undefined" => \E o \in DOMAIN objects : \E k \in DOMAIN objects[o].syms :
          LET s == objects[o].syms[k] IN s.bind = "GLOBAL" /\ s.shndx = UNDEF /\ Defs(s.name) = {}
    /\ pc = "done" => \A n \in DOMAIN globals : Cardinality(Strong(Defs(n))) <= 1
LinkExact == ImageLaidOut /\ RelocsExact /\ RefusalsTrue

\* "OK: strong symbol (222) overrides weak symbol (111)": a reference to a name gives the
\* strong definition's address wherever it stands.
StrongOverridesWeak ==
    pc = "done" => \A w \in stored :
        LET s == objects[chunks[w.ci].obj].syms[w.rel.sym]
        IN  s.bind # "LOCAL" /\ w.rel.type # "PC32" => w.value = Meaning(s.name) + w.rel.addend
=============================================================================
