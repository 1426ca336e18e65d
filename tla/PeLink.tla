-------------------------------- MODULE PeLink --------------------------------
(***************************************************************************)
(* From machine instructions to a Windows executable (pe_linker.c and      *)
(* pe_idata.c).  The instructions are emitted twice: a jump takes the      *)
(* place its block has at that moment, which the first pass leaves behind  *)
(* for the second; everything else is noted in lists of places in the text *)
(* to be filled in once the sections are laid out.  The table of imports   *)
(* is put in front of the strings after both passes.                       *)
(*                                                                         *)
(* Places and sizes are the real ones.  Of an instruction only its size is *)
(* kept and the displacement it ends in; sections are sequences of items   *)
(* with a place and a size.                                                *)
(***************************************************************************)
EXTENDS Integers, SequencesExt

CONSTANTS Programs,          \* [funcs, globals, externs], see below
          Caseless,          \* [DLL names -> DLL names]: what _stricmp ignores
          NameLength         \* [names of imports and DLLs -> Nat]

(* A program has funcs, <<[name, blocks]>> with blocks being sequences of   *)
(* instructions; globals, <<[name, size]>>; and the externs it declares,    *)
(* <<[name, dll]>>.  An instruction has "pre" bytes and, unless it "wants"  *)
(* <<>>, a displacement of four more, of what it refers to: <<"block", b>>  *)
(* of its own function, <<"func", name>>, <<"name", name>> to be looked up, *)
(* or <<"string", contents, length>>.                                       *)
SysExterns == <<"GetStdHandle", "WriteFile", "ReadFile", "GetProcessHeap",
                "HeapAlloc", "HeapFree", "ExitProcess">>
NamesIn(seq) == {seq[i].name : i \in DOMAIN seq}
IsSeq(s) == Len(s) \in Nat /\ s = [i \in 1 .. Len(s) |-> s[i]]

\* References are to what there is.
ProperWants(w, p, func) ==
    \/ w = <<>>
    \/ /\ w # <<>>
       /\ \/ w[1] = "block" /\ w[2] \in DOMAIN func.blocks
          \/ w[1] = "func" /\ w[2] \in NamesIn(p.funcs)
          \/ w[1] = "name" /\ w[2] \in NamesIn(p.funcs) \cup NamesIn(p.globals)
                                         \cup NamesIn(p.externs) \cup ToSet(SysExterns)
          \/ w[1] = "string" /\ w[3] \in Nat
\* Every function has a block, every block is a sequence of instructions.
ProperFunc(func, p) ==
    /\ IsSeq(func.blocks) /\ Len(func.blocks) > 0
    /\ \A b \in DOMAIN func.blocks :
        LET block == func.blocks[b]
        IN  /\ IsSeq(block)
            /\ \A i \in DOMAIN block : /\ block[i].pre \in Nat
                                       /\ ProperWants(block[i].wants, p, func)
ASSUME PeLinkAssumption ==
    \A p \in Programs :
        /\ IsSeq(p.funcs) /\ \A f \in DOMAIN p.funcs : ProperFunc(p.funcs[f], p)
        /\ IsSeq(p.globals) /\ \A g \in DOMAIN p.globals : p.globals[g].size \in Nat
        /\ IsSeq(p.externs)
        /\ {"princeps", "__scorivm_init"} \subseteq NamesIn(p.funcs)
        /\ NamesIn(p.funcs) \cap (NamesIn(p.globals) \cup NamesIn(p.externs)) = {}
        /\ (NamesIn(p.funcs) \cup NamesIn(p.globals)) \cap ToSet(SysExterns) = {}
        /\ NamesIn(p.globals) \cap NamesIn(p.externs) = {}
ASSUME NameLengthAssumption ==
    /\ NameLength["kernel32.dll"] \in Nat
    /\ \A n \in ToSet(SysExterns) : NameLength[n] \in Nat
    /\ \A p \in Programs : \A e \in DOMAIN p.externs :
        NameLength[p.externs[e].name] \in Nat /\ NameLength[p.externs[e].dll] \in Nat

VARIABLES program, phase, pass,
          count,             \* how far a loop over externs has come
          externs,           \* SirModule.first_extern
          cursor,            \* the block and instruction to be emitted
          text,              \* the size of the text
          offset,            \* X86Block.offset
          fields,            \* displacements in the text: [at, wants, rel]
          relocs,            \* the lists g_data_relocs, g_func_relocs ...
          data, rdata,       \* the items of the sections
          strings,           \* strings collected, with their offsets
          dlls,              \* PeImportTable: [name, funcs]
          tables, piece,     \* iat_buf; what is allotted in it next: <<kind, DLL, number>>
          places,            \* iat_offset, int_offsets, hn_offsets ...: where pieces are
          image              \* what is known of the file

vars == <<program, phase, pass, count, externs, cursor, text, offset, fields, relocs,
          data, rdata, strings, dlls, tables, piece, places, image>>
importVars == <<dlls, tables, piece, places>>

-----------------------------------------------------------------------------
AlignUp(n, a) == ((n + a - 1) \div a) * a
SizeOf(items) == IF items = <<>> THEN 0 ELSE Last(items).at + Last(items).size
Item(kind, at, size, holds) == [kind |-> kind, at |-> at, size |-> size, holds |-> holds]

\* The place of the first of those with the property, 0 without any.
First(I) == IF I = {} THEN 0 ELSE Min(I)
FuncNamed(name) == First({f \in DOMAIN program.funcs : program.funcs[f].name = name})
GlobalNamed(name) == First({g \in DOMAIN program.globals : program.globals[g].name = name})
ExternNamed(name) == First({e \in DOMAIN externs : externs[e].name = name})

(* The functions, blocks and instructions in the order they are walked. *)
Start == [f |-> 1, b |-> 1, i |-> 0]
End == [f |-> Len(program.funcs) + 1, b |-> 1, i |-> 0]
BlocksOf(f) == program.funcs[f].blocks
InstAt(c) == BlocksOf(c.f)[c.b][c.i]
Advanced(c) ==
    CASE c.i < Len(BlocksOf(c.f)[c.b]) -> [c EXCEPT !.i = c.i + 1]
      [] c.i = Len(BlocksOf(c.f)[c.b]) /\ c.b < Len(BlocksOf(c.f)) ->
            [c EXCEPT !.b = c.b + 1, !.i = 0]
      [] OTHER -> [f |-> c.f + 1, b |-> 1, i |-> 0]

BlockIds(p) == UNION {{<<f, b>> : b \in DOMAIN p.funcs[f].blocks} : f \in DOMAIN p.funcs}
FuncOffset(name) == offset[<<FuncNamed(name), 1>>]

(* All instructions, and the order they are walked in. *)
Insts == UNION {{[f |-> x[1], b |-> x[2], i |-> i] : i \in DOMAIN BlocksOf(x[1])[x[2]]} :
                x \in BlockIds(program)}
Before(c, e) ==
    \/ c.f < e.f
    \/ c.f = e.f /\ c.b < e.b
    \/ c.f = e.f /\ c.b = e.b /\ c.i < e.i

NoRelocs == [list \in {"data", "func", "string", "extern", "exit"} |-> <<>>]

-----------------------------------------------------------------------------
Init ==
    /\ program \in Programs
    /\ phase = "externs"
    /\ pass = 0 /\ count = 0
    /\ externs = program.externs
    /\ cursor = Start
    /\ text = 0
    /\ offset = [b \in BlockIds(program) |-> 0]
    /\ fields = <<>>
    /\ relocs = NoRelocs
    /\ data = <<>> /\ rdata = <<>> /\ strings = <<>> /\ dlls = <<>>
    /\ tables = <<>> /\ piece = <<"iat", 1, 1>> /\ places = <<>>
    /\ image = [entry |-> 0, headers |-> 0, sections |-> <<>>, size |-> 0]

(* add_sys_extern: one that is not declared goes to the front. *)
AddSysExtern ==
    /\ phase = "externs"
    /\ IF count < Len(SysExterns)
       THEN LET name == SysExterns[count + 1]
            IN  /\ externs' = IF name \in NamesIn(externs) THEN externs
                              ELSE <<[name |-> name, dll |-> "kernel32.dll"]>> \o externs
                /\ count' = count + 1
                /\ UNCHANGED phase
       ELSE phase' = "globals" /\ count' = 0 /\ UNCHANGED externs
    /\ UNCHANGED <<program, pass, cursor, text, offset, fields, relocs, data, rdata,
                   strings, importVars, image>>

PlaceGlobal ==
    /\ phase = "globals"
    /\ IF Len(data) < Len(program.globals)
       THEN LET g == program.globals[Len(data) + 1]
            IN  /\ data' = Append(data, Item("global", AlignUp(SizeOf(data), 8), g.size, g.name))
                /\ UNCHANGED phase
       ELSE phase' = "strings" /\ UNCHANGED data
    /\ UNCHANGED <<program, pass, count, externs, cursor, text, offset, fields, relocs, rdata,
                   strings, importVars, image>>

(* Equal strings are kept once. *)
StringsMissing ==
    LET known == {strings[i].contents : i \in DOMAIN strings}
    IN  {c \in Insts : LET w == InstAt(c).wants
                       IN  w # <<>> /\ w[1] = "string" /\ w[2] \notin known}
CollectString ==
    /\ phase = "strings"
    /\ IF StringsMissing # {}
       THEN LET c == CHOOSE c \in StringsMissing :
                       \A e \in StringsMissing : e = c \/ Before(c, e)
                w == InstAt(c).wants
                at == SizeOf(rdata)
            IN  /\ strings' = Append(strings, [contents |-> w[2], at |-> at])
                /\ rdata' = Append(rdata, Item("string", at, w[3], w[2]))
                /\ UNCHANGED phase
       ELSE phase' = "emit" /\ UNCHANGED <<strings, rdata>>
    /\ UNCHANGED <<program, pass, count, externs, cursor, text, offset, fields, relocs, data,
                   importVars, image>>

-----------------------------------------------------------------------------
(* A pass. *)

BeginBlock ==
    /\ phase = "emit" /\ cursor # End /\ cursor.i = 0
    /\ text' = AlignUp(text, 16)
    /\ offset' = [offset EXCEPT ![<<cursor.f, cursor.b>>] = text']
    /\ cursor' = Advanced(cursor)
    /\ UNCHANGED <<program, phase, pass, count, externs, fields, relocs, data, rdata, strings,
                   importVars, image>>

(* What emit_mem_op and a call note of a reference, in the second pass:     *)
(* the list, and what to put into it.                                       *)
Noted(w) ==
    LET name == w[2]
    IN  CASE w[1] = "string" ->
               <<"string", strings[First({s \in DOMAIN strings : strings[s].contents = name})].at>>
          [] w[1] = "func" -> <<"func", FuncOffset(name)>>
          [] w[1] = "name" /\ GlobalNamed(name) # 0 -> <<"data", data[GlobalNamed(name)].at>>
          [] w[1] = "name" /\ GlobalNamed(name) = 0 /\ ExternNamed(name) # 0 ->
               <<"extern", ExternNamed(name)>>
          [] OTHER -> <<"func", FuncOffset(name)>>

\* A fault: a jump to a block placed within reach is given its short form.
InstSizeShort(inst, at) ==
    IF inst.wants # <<>> /\ inst.wants[1] = "block"
         /\ offset[<<cursor.f, inst.wants[2]>>] \in (at + 1) .. (at + 100)
    THEN inst.pre + 1 ELSE inst.pre + (IF inst.wants = <<>> THEN 0 ELSE 4)
InstSize(inst, at) == inst.pre + (IF inst.wants = <<>> THEN 0 ELSE 4)

EmitInst ==
    /\ phase = "emit" /\ cursor # End /\ cursor.i > 0
    /\ LET inst == InstAt(cursor)
           w == inst.wants
           at == text + inst.pre
           next == text + InstSize(inst, text)
           toBlock == w # <<>> /\ w[1] = "block"
           Field(rel) == [at |-> at, rel |-> rel,
                          wants |-> IF toBlock THEN <<"block", cursor.f, w[2]>> ELSE w]
       IN  /\ text' = next
           /\ fields' = IF w = <<>> THEN fields
                        ELSE Append(fields, Field(IF toBlock
                                                  THEN offset[<<cursor.f, w[2]>>] - next
                                                  ELSE 0))
           /\ relocs' = IF w = <<>> \/ toBlock \/ pass = 0 THEN relocs
                        ELSE [relocs EXCEPT ![Noted(w)[1]] =
                                Append(@, [at |-> at, to |-> Noted(w)[2]])]
    /\ cursor' = Advanced(cursor)
    /\ UNCHANGED <<program, phase, pass, count, externs, offset, data, rdata, strings,
                   importVars, image>>

(* _start, which ends each pass: 43 bytes with three displacements. *)
EmitStart ==
    /\ phase = "emit" /\ cursor = End
    /\ IF pass = 0
       THEN /\ text' = 0
            /\ pass' = 1 /\ cursor' = Start
            /\ fields' = <<>> /\ relocs' = NoRelocs
            /\ UNCHANGED <<phase, image>>
       ELSE /\ text' = text + 43
            /\ phase' = "imports"
            /\ image' = [image EXCEPT !.entry = text]
            /\ fields' = fields \o
                 <<[at |-> text + 15, wants |-> <<"func", "__scorivm_init">>,
                    rel |-> FuncOffset("__scorivm_init") - (text + 19)],
                   [at |-> text + 30, wants |-> <<"func", "princeps">>,
                    rel |-> FuncOffset("princeps") - (text + 34)],
                   [at |-> text + 39, wants |-> <<"exit">>, rel |-> 0]>>
            /\ relocs' = [relocs EXCEPT !["exit"] = <<[at |-> text + 39, to |-> 0]>>]
            /\ UNCHANGED <<pass, cursor>>
    /\ UNCHANGED <<program, count, externs, offset, data, rdata, strings, importVars>>

-----------------------------------------------------------------------------
(* The imports (pe_idata.c). *)

ExitProcess == [name |-> "ExitProcess", dll |-> "kernel32.dll"]
Added(table, extern) ==
    LET d == First({e \in DOMAIN table : Caseless[table[e].name] = Caseless[extern.dll]})
    IN  CASE d = 0 -> Append(table, [name |-> extern.dll, funcs |-> <<extern.name>>])
          [] d # 0 /\ Contains(table[d].funcs, extern.name) -> table
          [] OTHER -> [table EXCEPT ![d].funcs = Append(@, extern.name)]

AddImport ==
    /\ phase = "imports"
    /\ IF count <= Len(externs)
       THEN /\ dlls' = Added(dlls, IF count = 0 THEN ExitProcess ELSE externs[count])
            /\ count' = count + 1
            /\ UNCHANGED phase
       ELSE phase' = "tables" /\ UNCHANGED <<dlls, count>>
    /\ UNCHANGED <<program, pass, externs, cursor, text, offset, fields, relocs, data, rdata,
                   strings, tables, piece, places, image>>

(* What pe_idata_build allots, in its order: for every DLL its slots, its    *)
(* names and their ends, then hints with names, names of DLLs and the        *)
(* directory with its end.                                                   *)
Rows(kind) == IF kind = "dir" THEN Len(dlls) + 1 ELSE Len(dlls)
Columns(kind, d) == CASE kind \in {"iat", "int"} -> Len(dlls[d].funcs) + 1
                      [] kind = "hint"           -> Len(dlls[d].funcs)
                      [] kind \in {"dll", "dir"} -> 1
Following == [iat |-> "int", int |-> "hint", hint |-> "dll", dll |-> "dir", dir |-> "end"]
NextPiece(kind, d, j) ==
    CASE j < Columns(kind, d)                      -> <<kind, d, j + 1>>
      [] j = Columns(kind, d) /\ d < Rows(kind)    -> <<kind, d + 1, 1>>
      [] OTHER                                     -> <<Following[kind], 1, 1>>

Alignment(kind, d) == CASE kind \in {"iat", "int"} -> 8
                        [] kind = "hint"           -> 2
                        [] kind = "dll"            -> 1
                        [] kind = "dir"            -> IF d = 1 THEN 8 ELSE 1
PieceSize(kind, d, j) ==
    CASE kind \in {"iat", "int"} -> 8
      [] kind = "hint"           -> AlignUp(3 + NameLength[dlls[d].funcs[j]], 2)
      [] kind = "dll"            -> NameLength[dlls[d].name] + 1
      [] kind = "dir"            -> 20

AllotPiece ==
    /\ phase = "tables" /\ piece[1] # "end"
    /\ LET kind == piece[1]
           d == piece[2]
           j == piece[3]
           at == AlignUp(SizeOf(tables), Alignment(kind, d))
       IN  /\ tables' = Append(tables, Item(kind, at, PieceSize(kind, d, j), piece))
           /\ places' = [p \in DOMAIN places \cup {piece} |-> IF p = piece THEN at ELSE places[p]]
           /\ piece' = NextPiece(kind, d, j)
    /\ UNCHANGED <<program, phase, pass, count, externs, cursor, text, offset, fields, relocs,
                   data, rdata, strings, dlls, image>>

TextVA == 4096
RdataVA == AlignUp(TextVA + text, 4096)

(* The tables with what they hold; the strings follow behind them. *)
RvaOf(kind, d, j) == RdataVA + places[<<kind, d, j>>]
Held(kind, d, j) ==
    CASE kind \in {"iat", "int"} -> IF j <= Len(dlls[d].funcs) THEN RvaOf("hint", d, j) ELSE 0
      [] kind = "hint"           -> dlls[d].funcs[j]
      [] kind = "dll"            -> dlls[d].name
      [] kind = "dir"            ->
           IF d <= Len(dlls)
           THEN [names |-> RvaOf("int", d, 1), dll |-> RvaOf("dll", d, 1),
                 slots |-> RvaOf("iat", d, 1)]
           ELSE [names |-> 0, dll |-> 0, slots |-> 0]
Shift == SizeOf(tables)
JoinTables ==
    /\ phase = "tables" /\ piece[1] = "end"
    /\ rdata' = [k \in DOMAIN tables |->
                   [tables[k] EXCEPT !.holds = Held(@[1], @[2], @[3])]]
                  \o [k \in DOMAIN rdata |-> [rdata[k] EXCEPT !.at = @ + Shift]]
    /\ phase' = "headers"
    /\ UNCHANGED <<program, pass, count, externs, cursor, text, offset, fields, relocs, data,
                   strings, importVars, image>>

-----------------------------------------------------------------------------
(* The headers and the displacements. *)

\* A fault: .data is placed behind .rdata as it was without the imports.
DataVAEarly(size) == AlignUp(RdataVA + (size - Shift), 4096)
DataVA(size) == AlignUp(RdataVA + size, 4096)

Section(va, raw, size) ==
    [va |-> va, size |-> size, raw |-> raw, rawSize |-> AlignUp(size, 512)]
LayOut ==
    /\ phase = "headers"
    /\ LET n == IF SizeOf(data) > 0 THEN 3 ELSE 2
           headers == AlignUp(64 + 24 + 240 + 40 * n, 512)
           t == Section(TextVA, headers, text)
           r == Section(RdataVA, headers + t.rawSize, SizeOf(rdata))
           d == Section(DataVA(r.size), r.raw + r.rawSize, SizeOf(data))
           sections == SubSeq(<<t, r, d>>, 1, n)
       IN  image' = [image EXCEPT !.headers = headers, !.sections = sections,
                     !.size = AlignUp(sections[n].va + sections[n].size, 4096)]
    /\ phase' = "patch"
    /\ UNCHANGED <<program, pass, count, externs, cursor, text, offset, fields, relocs,
                   data, rdata, strings, importVars>>

(* pe_idata_get_iat_offset: the first that fits, or 0. *)
SlotOf(extern) ==
    LET d == First({e \in DOMAIN dlls : /\ Caseless[dlls[e].name] = Caseless[extern.dll]
                                        /\ Contains(dlls[e].funcs, extern.name)})
        j == First({k \in DOMAIN dlls[d].funcs : dlls[d].funcs[k] = extern.name})
    IN  RdataVA + (IF d = 0 THEN 0 ELSE places[<<"iat", d, j>>])

\* A fault: the strings are looked for where they were collected.
TargetUnshifted(list, to) ==
    CASE list = "data" -> (IF Len(image.sections) = 3 THEN image.sections[3].va ELSE 0) + to
      [] list = "func" -> TextVA + to
      [] list = "string" -> RdataVA + to
      [] list = "extern" -> SlotOf(externs[to])
      [] list = "exit" -> SlotOf(ExitProcess)
(* Where an entry of a list leads.  Without a section .data its address is 0. *)
Target(list, to) ==
    CASE list = "data" -> (IF Len(image.sections) = 3 THEN image.sections[3].va ELSE 0) + to
      [] list = "func" -> TextVA + to
      [] list = "string" -> RdataVA + Shift + to
      [] list = "extern" -> SlotOf(externs[to])
      [] list = "exit" -> SlotOf(ExitProcess)

Patch ==
    /\ phase = "patch"
    /\ LET entries == UNION {{l} \X ToSet(relocs[l]) : l \in DOMAIN relocs}
           Patched(f) ==
               IF \E e \in entries : e[2].at = f.at
               THEN LET e == CHOOSE e \in entries : e[2].at = f.at
                    IN  [f EXCEPT !.rel = Target(e[1], e[2].to) - (TextVA + f.at + 4)]
               ELSE f
       IN  fields' = [k \in DOMAIN fields |-> Patched(fields[k])]
    /\ phase' = "done"
    /\ UNCHANGED <<program, pass, count, externs, cursor, text, offset, relocs, data, rdata,
                   strings, importVars, image>>

Finished == phase = "done" /\ UNCHANGED vars

Next == \/ AddSysExtern \/ PlaceGlobal \/ CollectString
        \/ BeginBlock \/ EmitInst \/ EmitStart
        \/ AddImport \/ AllotPiece \/ JoinTables \/ LayOut \/ Patch \/ Finished
Spec == Init /\ [][Next]_vars

-----------------------------------------------------------------------------
(* What Windows makes of the tables: it walks the directory to the empty     *)
(* entry, the names of an entry to the empty name, and puts the function of  *)
(* that name and DLL into the slot of the same number.                       *)
RdataAt(rva) == {rdata[k] : k \in {i \in DOMAIN rdata : RdataVA + rdata[i].at = rva}}
Holds(rva, kind, value) == \E p \in RdataAt(rva) : p.kind = kind /\ p.holds = value
HeldAt(rva, kind) == (CHOOSE p \in RdataAt(rva) : p.kind = kind).holds

Directory == RvaOf("dir", 1, 1)
Bound(rva, extern) ==
    \E d \in 0 .. Len(dlls), j \in 0 .. Len(externs) :
        LET entry == HeldAt(Directory + 20 * d, "dir")
            Named(k) == HeldAt(entry.names + 8 * k, "int")
        IN  /\ \A e \in 0 .. d : HeldAt(Directory + 20 * e, "dir").names # 0
            /\ \A k \in 0 .. j : Named(k) # 0
            /\ Caseless[HeldAt(entry.dll, "dll")] = Caseless[extern.dll]
            /\ Holds(Named(j), "hint", extern.name)
            /\ rva = entry.slots + 8 * j

(* Every displacement of the executable leads to what its instruction is     *)
(* about: the block, the function or the global, a string of the same        *)
(* contents, or the slot Windows binds to that function of that DLL,         *)
(* whatever pass, list, table and shift of a section it went through         *)
(* (pe_linker.c, emit_mem_op to the last of the relocations).  A global      *)
(* without a single byte is excepted.                                        *)
LeadsTo(target, w) ==
    LET name == w[2]
    IN  CASE w[1] = "block" -> target = TextVA + offset[<<w[2], w[3]>>]
          [] w[1] = "string" -> Holds(target, "string", name)
          [] w[1] \in {"func", "name"} /\ FuncNamed(name) # 0 ->
               target = TextVA + FuncOffset(name)
          [] w[1] = "name" /\ GlobalNamed(name) # 0 ->
               \/ program.globals[GlobalNamed(name)].size = 0
               \/ /\ Len(image.sections) = 3
                  /\ \E g \in ToSet(data) : /\ g.holds = name
                                            /\ target = image.sections[3].va + g.at
          [] w[1] = "exit" -> Bound(target, ExitProcess)
          [] OTHER -> Bound(target, externs[ExternNamed(name)])
ReferencesResolve ==
    phase = "done" =>
        \A f \in ToSet(fields) : LeadsTo(TextVA + f.at + 4 + f.rel, f.wants)

\* Items without overlap that end within a section.
Fits(items, section) ==
    /\ SizeOf(items) <= section.size
    /\ \A i \in 1 .. Len(items) - 1 : items[i].at + items[i].size <= items[i + 1].at

(* The sections follow each other without overlap or gap in memory, without  *)
(* overlap in the file, and hold all that was put into them: what was        *)
(* computed before the imports were put in front of the strings is computed  *)
(* again (pe_linker.c:586-601).                                              *)
SectionsApart ==
    phase \in {"patch", "done"} =>
        LET s == image.sections
        IN  /\ \A k \in DOMAIN s : /\ s[k].va % 4096 = 0 /\ s[k].raw % 512 = 0
                                   /\ s[k].size <= s[k].rawSize
            /\ \A k \in 1 .. Len(s) - 1 :
                /\ s[k + 1].va >= s[k].va + s[k].size
                /\ s[k + 1].va - (s[k].va + s[k].size) < 4096
                /\ s[k + 1].raw >= s[k].raw + s[k].rawSize
            /\ s[1].raw >= image.headers
            /\ image.size >= Last(s).va + Last(s).size
            /\ Fits(rdata, s[2])
            /\ IF Len(s) = 3 THEN Fits(data, s[3]) ELSE SizeOf(data) = 0

(* The second pass finds every block where the first one put it: a jump      *)
(* forwards is computed from the place of the first (pe_linker.c:277).       *)
SecondPassMovesNothing == [][phase = "emit" /\ pass = 1 => offset' = offset]_vars
=============================================================================
