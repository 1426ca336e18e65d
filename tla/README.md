# Scorivm: a verification project

Scorivm compiles the language Scorivm (`.sco`) to Windows executables. It is one
process and one thread: a driver that runs lexer, parser, type checker, IR
generation, optimizer, x86-64 back end and PE linker one after the other. What
can go wrong in it is therefore not a race between threads but the order of
steps inside long sequential algorithms, the sharing of one machine register or
stack slot by several users, sets and counters that must be kept up step by
step, and passes that read what an earlier pass left stale. These modules model
the parts where that happens, TLC checks them on small instances, and TLAPS
proves the main results for every instance.

## 1. Inventory

All paths are relative to `src/src/` unless they start with another directory.

| component | source | state it keeps | operations |
|---|---|---|---|
| driver | `main.c` | options, list of source files | parse arguments, run the stages, stop at the first stage that reports errors |
| lexer | `frontend/lexer.c` | cursor into one file | next token |
| parser | `frontend/parser.c` | current and previous token, `panic_mode`, `had_error` | one function per grammar rule; `error_at`, `synchronize` |
| symbol table | `middleend/symtab.c` | chain of scopes, import aliases | define, lookup in scope, lookup through the chain, insert an alias |
| types and layout | `middleend/types.c` | interned types | equality, strict equality, size and alignment, offsets of fields and bit fields |
| type checker | `middleend/type_checker.c` | scopes of all modules, current function, error flag | collect type names, collect declarations, imports, bodies; a pass starts only if the one before it had no errors |
| IR generation | `ir/ir_gen.c` | current block, break and continue targets, labels, compile-time constants | one function per statement and expression kind, global initialisers |
| IR builder | `ir/ir_builder.c` | function under construction | append an instruction, fold constants, forward stores to loads, prune dead blocks, lower builtins |
| optimizer | `ir/ir_builder.c`, `ir_optimize_module` | the module's SIR | inlining, propagation, dead code, fast path, jump threading, base-case extraction, evaluation at -O3, removal of unused globals |
| register allocator | `backend/reg_alloc.c` | live sets, interference graph, degrees, stack of nodes, colours | liveness, interference, simplify, select |
| instruction selection | `backend/x86_mir.c` | machine blocks of the current function | prescan of the frame, prologue, one case per SIR opcode, epilogue, peephole |
| PE linker | `backend/pe_linker.c` | code and data buffers, relocation lists | start-up stub, two emission passes, section layout |
| import table | `backend/pe_idata.c` | list of DLLs and functions | layout of the import directory |
| printers | `ir/ir_printer.c`, `backend/asm_x86_64.c` | none | listings |
| arena, logger | `utils/` | chunks; none | allocate, grow; print |

**How they interact.** Every stage is a call that reads the data structure of
the stage before it and builds its own; nothing calls back. The interactions
that matter are those where two stages must agree on something neither passes
to the other:

- The *allocator* hands the *selector* only a colour per virtual register
  (vreg) and the set of colours used. The selector then uses fixed registers
  and scratch registers of its own; it must never touch one that holds
  something still needed.
- *Caller and callee* are compiled separately, and both compute the address of
  a stack argument, from the -O level, the frame size and the pushes.
- The *prescan* of a function sizes its outgoing area, the selection code
  fills it.
- The *start-up stub* calls the generated functions as a caller like any other.
- *Type checker and IR generation* each resolve names, the first through scopes
  and imports, the second by bare name over all files.
- *Optimizer passes* rewrite the blocks they walk.

**The hard behaviours** are listed one by one, each at its line, under
`hazards` in `PROJECT.json`. In groups: liveness and interference through loops
(`reg_alloc.c`); registers with two users (`x86_mir.c`: scratch, argument and
allocated registers overlap); stack slots with two users (frames, shadow space,
staging); arithmetic of frame sizes and layouts; name resolution that depends
on the order of files; fixpoints and recursion in the optimizer that must end
and must preserve the program; errors the parser must recover from.

**What makes each component correct**

- allocator: no two vregs that are needed at once share a register; nothing
  needed across a call sits in a register the call destroys; the degree
  counters say what they are meant to say; it ends.
- selection: what an instruction consumes is what the SIR instruction names,
  whatever the colours; the registers it writes are those the prologue saves.
- frame: no one writes into another's part of the stack; every reader finds
  what its writer stored; every call is made with an aligned stack.
- type checker: a program it accepts uses only declarations that are visible
  and complete where they are used, whatever the order of files.
- parser: it accepts the language and nothing else, its tree is the text, and it
  returns from every text.
- IR generation: every block ends in exactly one terminator; break, continue,
  goto and switch reach the statement the source names.
- builder: what is folded, simplified or forwarded is worth what the source means.
- optimizer: every pass ends and preserves what the program does.
- layout and linking: fields do not overlap; every displacement and relocation
  points at what it names.

## 2. Modules

| module | role |
|---|---|
| `RegAlloc` | the allocator, one SIR function per behaviour |
| `X86Mir` | instruction selection; extends `RegAlloc` and runs the selected code with the colours the allocator really gave |
| `X86MirProofs` | theorems of `RegAlloc`, and those of `X86Mir` that build on them |
| `X86Frame` | stack frames, argument passing, prologue and epilogue, start-up stub |
| `X86FrameProofs` | its theorems |
| `TypeChecker` | the four passes of the type checker over several files, and the symbol table |
| `IrGlobals` | IR generation of the accepted program: globals, constants, initialisers, and what names refer to; extends `TypeChecker` |
| `IrGlobalsProofs` | theorems of both: names, initialisation, uses |
| `TypesProofs` | theorems on the types of `TypeChecker`: aliases, and that accepted programs are well typed |
| `Syntax` | function bodies as syntax trees, and which of them the type checker accepts |
| `Statements` | the abstract meaning of a body: the order in which its effects happen |
| `BodySpec` | abstract specification: a run performs the effects in that order |
| `Lower` | bodies to basic blocks, jump threading, and the run of the result; implements `BodySpec` |
| `LowerProofs` | its theorems: where the terminators are |
| `Sir` | the intermediate language and what running it means |
| `Optimize` | the passes of the optimizer from -O1 to -O3, on modules of `Sir` |
| `Lexemes` | the classes of tokens |
| `Grammar` | the language of token sequences as a context-free grammar, and the text a tree stands for |
| `Parser` | the recursive-descent parser with panic mode, on token sequences |
| `ParserLanguage` | what the parser accepts and returns, compared with `Grammar` |
| `ParserProofs` | theorems of `Parser`: its stack, and where errors are reported |
| `Layout` | sizes and places of fields, bit fields included, and the code that stores and reads them |
| `LayoutProofs` | its theorems: every property of `Layout` |
| `Widths` | integers of every width through the builder (folding, forwarding) and the selected instructions |
| `PeLink` | emission in two passes, table of imports, sections and relocations of the executable |
| `PeLinkProofs` | its theorems: the two passes, what is made, section by section, and where every displacement leads |
| `MCRegAlloc`, `MCX86Mir`, `MCX86Frame`, `MCModules`, `MCLower`, `MCOptimize`, `MCParser`, `MCLayout`, `MCWidths`, `MCPeLink` | bounded inputs for TLC |

### RegAlloc (`backend/reg_alloc.c`)

A SIR function is a record of blocks in layout order, their instructions and
their successors; the initial states range over the constants `Functions` and
`OptLevels`. One action is one iteration of a loop of the code: `LiveBlock` is
one block of the backward sweep and reads the sets as the same sweep left them,
`EndSweep` repeats the sweep or goes on, `InterfereInst` is one instruction of
the backward scan, `SimplifyNode` one turn of the loop that stacks nodes,
`SelectNode` one turn of the loop that colours them; `SkipAtO0` is the early
return. Variables carry the names of the code's arrays: `liveIn`, `liveOut`,
`adj` (the matrix), `degree`, `crosses` (`crosses_call`), `color`,
`usedCalleeSaved`. `UseSet`, `DefSet` and `UseCount` are computed from the
function instead of stored. `Beats` is the heuristic of simplify without its
floating-point division. The allocator only uses the opcode of an instruction
to see whether it destroys caller-saved registers, so the other opcodes are the
constant `PlainOps`.

### X86Mir (`backend/x86_mir.c`)

`MirSpec` first runs the allocator (`Allocate`), then `Enter`s the function and
executes the code selected for it, in lockstep with the SIR. The machine is a
file of all fifteen general registers and one spill slot per vreg; `vals` holds
what every vreg is worth in the SIR. There is one action per opcode (or per
group the code treats alike). Each computes the machine after the emitted
instructions, in their order, with the code's choice of scratch registers, and
records what the emitted code consumed (`read`) and what the SIR instruction
meant (`meant`). A result is the fresh token of the instruction if the operands
were the right ones and a wrong token otherwise, so a mistake stays visible.
Values are tokens; operand widths and condition codes are not modelled.

What a function looks like is assumed as the builder makes it
(`MirFunctionAssumption`): every instruction has the operands `create_inst` gives its
opcode, and a block ends in its first terminator.

Three patterns lose a value. They are kept out of the run, and the theorems say what a
function needs to be free of them (`Undisturbed`):

- a function of three parameters or more whose fetched parameters are coloured
  with argument registers: R8 to R11 are both (`x86_mir.c:829`), and one
  `GET_PARAM` overwrites the next parameter, although the comment at
  `ir_gen.c:1847` says that fetching them together prevents this
  (`ParamsFetchedInTime`);
- SELECT, which takes R8 or R9 as scratch without asking whether a live vreg
  has it (`x86_mir.c:779`; `docs/IR_DESIGN.md:19` gives every temporary a
  register of its own; `SelectsHaveScratch`);
- an indirect call whose callee was coloured with an argument register:
  `SIR_CALL` fills the argument registers before it reads the callee
  (`x86_mir.c:1283`), although the comment one line above says that the callee
  is safe (`CalleesOutOfTheWay`).

### X86Frame (`backend/x86_mir.c`, `backend/pe_linker.c`)

A program is a set of functions, each reduced to what sizes its frame: slots of
locals and spills, saved registers, parameters, call sites, use of heap and of
files. `FrameSize` is the code's `stack_sub_size` in slots of eight bytes.
Calls push real frames on a modelled stack: `CallFn` is the passing of
arguments, CALL and the prologue; `ReadParams` is the callee's `GET_PARAM` of
stack parameters; `UseData` fills its locals and spill slots; `CallExtern`,
`SysHeap` and `SysFile` are calls into the system, which may use the shadow
space and everything below rsp (`AfterExtern`); `Return` is the epilogue.
`BootInit`, `BootPrinceps` and `Exit` are the stub of the linker. The system
itself is modelled only by that: what lies in its caller's shadow space and
below rsp is junk afterwards.

### TypeChecker (`middleend/type_checker.c`, `middleend/symtab.c`)

A program is a sequence of files in the order of the command line. One action
is what one pass does with one declaration or one statement: `RegisterModule`
(first pass), `CollectTypeNames` and `CollectDeclaration` (second),
`ImportDeclaration` (third), `CheckGlobal`, `EnterFunction`, one action per
kind of statement, and `LeaveFunction` (fourth). `Advance` is the control they
share: the next declaration, file or pass, and the early return of a pass that
left errors. Scopes are functions from names to symbols; `scope` holds that of
each file, `universe` that of the module names, `locals` those open inside the
current function. A symbol carries the identity of its declaration, so that
what a name was resolved to can be compared with what it should be; `uses`
records every name met in an expression. A copy made by an import keeps the type
the exporter's symbol had, as in the code. Resolving an alias resolves the
aliases it stands for (`Chain`), and a circle of them is an error. `Crash` is the
null pointer the checker follows when a call or a qualified name meets a global
whose type is still to be inferred.

Abstracted: expressions are operands, sums and calls; types are `i32`, `f64`,
`nihil`, structures, aliases and the types of functions. Array, pointer and
union types, enumerations, fields in expressions, conditions and loops are left
out. A structure containing itself is left out too: the checker accepts it and
`type_get_size` does not return.

`ProgramsAssumption` says what the parser makes: a program has a file, files, lists of
items, parameters and bodies are sequences, declarations are of the kinds above,
the operands of expressions are literals and names, a `lex` has an initialiser
(`parser.c:836`), an `imago` a target, nothing has the name of a basic type (those are
tokens of their own, `lexer.c:90`), and in a body no block is closed that is not open.
A function counts as `barbara` if it has no body, as it does for the checker
(`type_checker.c:1148`) and the generator (`ir_gen.c:1716`).
A file may be empty, names may be declared any number of times and everywhere.

### IrGlobals (`ir/ir_gen.c`, lists of `ir/ir_builder.c`, lookup of `backend/pe_linker.c`)

The accepted program goes through the three passes of `ir_gen_generate`, one
declaration per step: `Register` appends it to the lists of globals, functions
or externs, `EvaluateConstant` is one turn of the loop that gives globals their
constant values, repeated while a round finds one, and `EmitGlobal` and
`EmitBody` produce the code of `__scorivm_init` and of the functions. All lists
are searched by bare name, as in the code. `Generated` is what the code of a
name refers to: through the operand stored in the symbol for a local, by name
through the linker's lookup (`Reaches`, `Calls`) for all else. A value is an
integer; widths are not modelled. `ConstantsAreExact` is about programs that read only
values (`ReadsValues`): the checker also accepts the name of a type or a module where a
value is meant, and constant evaluation then takes the value of a global of that name
in another file, or leaves the global unset.

`TypeChecker` and `IrGlobals` were compared with the compiler itself: on every program of
`MCModules` the outcome (rejected, crashed, stopped at a `lex` that is no
constant, or done) and the sequence of globals stored by `__scorivm_init` are
those the compiler built from this source produces.

### Lower (`ir/ir_gen.c`, `ir/ir_builder.c`), Syntax, Statements, BodySpec

`BodySpec` says what a compiled body promises: its state `at` is the effect
that comes next, and a step performs it, with any outcome, and goes on to the
next one that `Statements` finds by walking the syntax tree. Nothing in it knows
of blocks or jumps; it follows section 4 of `docs/SYNTAX.md`. `Lower` is what
the code does. It is in three phases.

*Generation.* `gen_statement` and `gen_expression` call each other recursively.
`stack` holds their activations, and an action is the code of one activation
from one recursive call to the next: `GenWhile` is the code up to the call for
the body, `GenWhileBody` what follows up to the call for the condition,
`GenWhileTest` the rest. `loopCond`, `loopExit` are the two fields of the builder
that break and continue read; the values a loop puts aside are in its
activation, as they are in local variables of the code. The builder's operations
(`Create`, `Emit`, `Jmp`, `Br`, `Switch`, `LabelBlock`) are operators on the
blocks, with the folding of constant conditions they do and the dropping of
everything after a terminator. The code tests the last instruction of a block
before it adds the jump at the end of a label or case; the test leaves
`SIR_SWITCH` out, but what it lets through `create_inst` drops, so that `Close`
is `Jmp`.

*Optimization.* At -O1 `Sweep` removes loads of short-circuit results that
nobody reads (a block is a target of jump threading only if the jump is all that
is in it), and `ThreadJumps` is one turn of the loop over the blocks.

*The run.* `Execute` performs the effect the generated code comes to next.
`effect`, the state function that is mapped to `at`, is that effect; jumps,
branches and short-circuit results on the way are followed by `Settled`.
`Implements` is `BodySpec` under this mapping.

Abstracted: an expression is a constant, a short circuit, or an effect with a
truth value or a number as its outcome; instructions without effect on control
are left out. `ProgramsAssumption` says what parser and checker make (`IsBody`): every node
has the parts of its kind (`parser.c:601`), and conditions are expressions with a truth
value. The bodies of the run are those `Meaningful` gives a meaning to.
The checker accepts more: gotos to labels that do not exist, labels that exist
twice, and `perge` in a switch outside of any loop. The first leaves an empty
block that falls through to the block created next, contrary to
`docs/IR_DESIGN.md:24`. So does, although its meaning is clear, a goto to a label in a
branch that the constant condition of a `si` keeps from being generated
(`ir_gen.c:1457`): in `{ sali a; si (falsa) { a: } f(); }` the block of `a` is made by the
`sali` and never filled. The families of the run leave this out; `GotosLead` is the
condition on a body that the theorem needs instead.

The final blocks of all bodies of `MCLower`, at -O0 and -O1, were compared with
those the compiler built from this source prints: they are the same.

### Sir (`ir/sir.h`), Optimize (`ir/ir_builder.c`)

A module of `Sir` is what `--emitte-ir` prints: functions of blocks of
instructions. `Step` is one step of a run of it. It does what `vm_execute`, the
code's own evaluator, does, and also the memory of allocas, external calls and
traps, which that evaluator refuses. `Run` follows a run to its end, and
`Behaviour` is what can be seen of it: the external calls with their arguments,
in their order, how it ends and its result.

`Optimize` rewrites such a module as `ir_optimize_module` does, pass after pass.
One action is one turn of a pass's loop:

| action | pass | turn |
|---|---|---|
| `InlineCall`, `InliningEnds` | inlining, -O2 | one call replaced; dead blocks pruned; the search starts again |
| `Propagate` | constants, copies, common subexpressions, -O2 | one round over a function |
| `Sweep` | dead code, -O1 | one round over a function |
| `FastPath` | fast path, -O1 | one function |
| `Thread` | jump threading, -O1 | one round over a function |
| `SkipBases`, `ExpandBase` | expansion of base cases, -O2 | one function and one argument |
| `PurityRound`, `Execute` | execution of pure functions, -O3 | one round; one function |
| `Tidy`, `Resweep` | clean-up after it | one round over a function |
| `Collect` | removal of unused functions, -O2 | all functions |

The two evaluators of the code, `try_evaluate_pure_func` and `vm_execute`, are
`Run` stopped at what they cannot follow (`Evaluable`, and the condition in
`Executed`). A loop in the code that has no bound may not end: `ExpandBase`
then leads to the phase `"hangs"`. A null pointer the code follows leads to
the phase `"crashed"`.

The last module of every program of `MCOptimize` (with the code's own limits, 60
and 200) was compared with what the compiler built from this source prints at -O1,
-O2 and -O3: all are the same.

Abstracted: integers are unbounded and of one type (their widths are the subject of `Widths`);
division, bit operations, floats, addresses and strings are left out;
`vm_execute` also stops after 10^10 steps, 20000 nested calls, or at vregs from
256 on, of which `Fuel` takes the place. The globals of `Collect` are left out, and so
are the rewrites made while the IR is built (those are in `Widths`; the lowering of builtins is left out).

Five shapes of programs are left out of the passing run, because the compiler
does not survive them or breaks them:

- a function with a result used in several blocks that stands before princeps in
  the list: when it is inlined with a function already inlined into it, an operand
  is met in the list of blocks before its definition and gets a vreg that is then
  given away again (`ir_builder.c:684`, contrary to `docs/IR_DESIGN.md:19`);
- a comparison that is used again after the fast path took it out: the function
  uses an undefined vreg from -O1 on (`ir_builder.c:2533`);
- a function without result that starts with `si` comparing its parameter with a
  constant and returns at once: the compiler crashes from -O1 on
  (`ir_builder.c:2503`);
- a function that calls itself and contains an endless loop: the compiler does not
  return from -O2 on (`ir_builder.c:2632`);
- a recursion without end called with a constant: at -O3 the evaluator
  overflows the compiler's stack, of 8 MB after about 2,900 calls, long
  before its limit of 20000 (`ir_builder.c:903`). `up` of `MCOptimize` is such a
  recursion and only called with a value that is not known.

### Lexemes, Grammar, Parser, ParserLanguage (`frontend/parser.c`)

`Grammar` states the rules of the language, as the functions of the parser take them,
without any of their control: `InLanguage` asks whether the rules derive a sequence of tokens, and
`Written` is the shortest text of a tree. `Parser` is the code and knows nothing of the
grammar; `ParserLanguage` states the two properties that compare them. Its C stack is
`todo`, what the active functions still have to do, innermost first; an action is
the code of one function, or of one turn of its loop, up to the next call. `Consume`
is `consume`, with `Report` the silence of panic mode; `Landed` is the end of a
declaration, `Synchronize` one turn of the recovery. Nodes under construction lie on
`trees`. Token text is abstract (`TextsAssumption`: a text is a sequence of tokens, of which none is
the end of the file); the positions kept in nodes and the type names that
have a longer form (`p8`, `f32`) are left out.

On all 5,505 texts of `MCParser` the errors and the trees are the same as those of
the parser built from this source.

Kept out of `AcceptsTheLanguage` or of `TreesAreTheirText`: `aliter:` after a `casus`
whose last statement is a `si` without `aliter` is captured by that `si` and the text
is rejected (`parser.c:611`), though section 4 of the syntax document allows it; with
two `aliter:` the statements of the first are dropped. As
in the code, `(x):` is a label in `Grammar`, and modifiers may be repeated.

### Layout (`middleend/types.c`, field code of `ir/ir_gen.c`)

A program is a sequence of structures. `WalkTurn` is one turn of the loop of
`type_get_size` *and* of that of `type_get_field_layout`, which are written apart and
must agree (`sized` and `placed`); `UnionTurn` is the same for a `unio`, `NextStruct`
ends a structure. Then the last structure is used: `Assign` and `ReadField` are the
shifts and masks `ir_gen.c` emits, `LiteralField` and `ConstantField` the two other
pieces of code that fill a field. Bits of stored values are tokens, so that one
run stands for all values. Places, sizes and alignments of all 3,150 programs of
`MCLayout` are those the functions of this source return.

`TameFieldsKeepValues` speaks of structures in which every bit field lies inside of
the unit it is accessed with (`Tame`). The others lose bits: after `densa` with
`p8 mica 5` the field `p8 mica 6` begins at bit 5 of a byte access, and
`i32 mica 20` followed by `i8 mica 3` puts the second at bit 20 of one, although
`docs/SYNTAX.md:189-190` describe both. Found beside the model: `i8 mica 20` is
accepted, a unit may reach beyond the structure, and `intern_type` compares
structures by bare name (`types.c:75-110`), so that private structures of one name in
two modules share their pointer and array types.

### Widths (`ir/ir_builder.c`, `backend/x86_mir.c`)

One straight run through a function is followed while it is built. An action is one
call of the builder (`ir_build_binary`, `_cast`, `_select`, `_store`, `_load`, `_call`,
`_memcpy`, `_br`, `_switch`) together with what the instruction it emits does in
registers or slots; `FastPath` is the comparison the selector puts before the
prologue. Beside every value stands the integer the source means. Sizes are scaled:
`small` is 2 bits for one and two bytes, `word` 3 for four, `full` 4 for eight, the
width of a register and of the host's `int64_t`. `junk` is what undefined upper bits
hold. Programs modelled never leave the range of a type, divide by zero or shift too
far (`Defined`), because the folding in 64 bits and the machine part ways there:
`100 + 100` in `i8` divided by 2 is 100 if folded. Further limits, which the code has
and the run leaves out:

- with `NarrowOperands = TRUE` small values are divided in 32 bits, and compared by
  the fast path, with whatever lies above them (`x86_mir.c:584`, `:407`), and
  `ValuesAreMeant` is violated; the comment at `x86_mir.c:584` speaks of a promotion
  to 32 bits;
- a `p64` of 2^63 or more is folded as a negative number, and so is `~x` of an
  unsigned constant (`ir_gen.c:1044`), so that `~x == 250` folds to false;
- conversion of a negative 32-bit operand to a float reads 64 bits
  (`x86_mir.c:971`), an index into an array is used in 64 bits without extension
  (`x86_mir.c:915`);
- the least integer of the host divided by -1 as constants stops the compiler.

### PeLink (`backend/pe_linker.c`, `backend/pe_idata.c`)

A program is its instructions, of which only the size is kept and the displacement
they end in, its globals and its externs. `PlaceGlobal` and `CollectString` fill
`.data` and `.rdata`. `BeginBlock`, `EmitInst` and `EmitStart` are the two passes: a
jump is computed from `X86Block.offset` at that moment, all other references go into
the lists `relocs` in the second pass. `AddSysExtern` is `add_sys_extern`, `AddImport` one
call of `pe_idata_add_import`; `AllotPiece` and `JoinTables` are `pe_idata_build`, one piece
of the tables at a time, and then the strings moved behind them;
`LayOut` computes the headers and `Patch` fills in the relocations. Places and sizes
are real. How Windows binds the slots (`Bound`) is external: it walks the directory
that was written, not the table it was written from.

Assumed (`PeLinkAssumption`, `NameLengthAssumption`): sizes are natural numbers, every
instruction refers to something the program has (`ProperWants`), there is a `princeps`,
and the names of functions, globals, declared externs and system calls differ. Without it: the stub calls the
first function; a function of the user named like a system call is called through the
table of imports, and a global of that name captures the calls. A call of an unknown
label stays unresolved without an error. The lists of 65,536 relocations have no
check (`pe_linker.c:76`).

## 3. Runs

| run | what it asks | answer |
|---|---|---|
| `regalloc` | the allocator on every function of three control-flow shapes and on straight-line pressure tests, -O0 and -O2 | all properties hold |
| `x86mir` | every opcode with its operands and result in every kind of place, -O0 to -O2 | all hold |
| `x86frame` | nested and recursive calls with every parity of frame parts, argument counts on both sides of each register limit | all hold |
| `modules` | names, types, constants and initialisers of programs of one to three files, in both orders of the files | all hold |
| `lower` | function bodies with nested loops and switches, gotos, labels and short circuits, lowered at -O0 and -O1 and run | all hold |
| `optimize` | programs of two and three functions, every order of the functions, optimized at -O1, -O2 and -O3 and run after every turn of every pass | all hold |
| `private_names` | modules are pure name spaces (`docs/SYNTAX.md:13`) | violated |
| `five_params` | below -O2 stack arguments lie above 32 bytes of shadow space (comment at `x86_mir.c:357`) | violated |
| `parser` | accepted texts that together use every rule, each with every token deleted, replaced, preceded by another or cut off there, and all pairs of operators | all hold |
| `layout` | every three fields of nine kinds, packed or not, structures in structures, arrays and unions; then stores and reads of the fields | all hold |
| `widths` | computations, stores, calls, copies, loads and branches in every integer type, with operands constant, in registers and in slots | all hold |
| `pelink` | programs with every two kinds of reference, pages crossed or not, three shapes of globals and of externs, from the first pass to the last relocation | all hold |

**Properties of the passing runs**

- `TypeOK` of `regalloc`: types of the arrays; in particular every colour indexes the
  register table.
- `NoClobber`: a result never gets the register of another vreg that is live
  after the instruction.
- `CallSurvivors`: what lives across a call has a callee-saved register or a
  spill slot.
- `LivenessIsExact`: when the sweep ends, its sets are exactly the vregs with a
  path to a use that meets no definition (the path definition of liveness, not
  the data-flow equations).
- `LowDegreeGetsColor`: a node removed with fewer neighbours than registers by
  the incremental degree counter, and not confined to half of them by a call,
  really gets one.
- `Terminates` of `regalloc`: the allocator returns. Fairness is `WF_vars(Next)`: the
  allocator is one sequential call, and while it has a next step the processor
  takes it. Only the properties called `Terminates` and `Finishes` need fairness.
- `ReadsWhatIsMeant`: whatever an instruction consumes is what the SIR names.
- `HomesHoldValues`: at every point the home of every vreg still needed holds
  its value.
- `SavesWhatItWrites`: a step writes no callee-saved register the prologue
  does not save.
- `FramesIntact`: return addresses, saved registers, locals, spills and the
  stub's argc and argv stay as stored while their frame is active.
- `ReadersFindTheirs`: stack arguments, staged operands, restored registers
  and return addresses are what was put there.
- `Aligned`: rsp is a multiple of 16 whenever a body runs.

- `UsesReachVisible`: every name the checker resolves reaches exactly the
  declaration that the scoping rules, stated over the text of the program alone
  (`Denotes`), give it at that place, and none where they give none.
- `AcceptedAreTyped`: an accepted program is well typed by the *final* types of
  its declarations, though the checker saw them at different times. It speaks
  of programs in which nothing was used before its type was known (`InOrder`).
  The others are a hole in the checker: `sit v: i32 = y;` before `sit y = 1.5;`
  is accepted, because a missing type is not compared, although
  `docs/SYNTAX.md:110` calls `muta` the only way across types.
- `AliasesMeanTheirTargets`: an alias has the type of what it stands for,
  whatever the length and the order of the chain, and no circle is accepted. What it
  stands for is read from the text (`Declared`): declarations are resolved before
  imports are made, so `Imago A = n.T` means the module `n` even in a file that
  declares an `n` of its own further down.
- `ConstantsAreExact`: the rounds of constant evaluation find data for exactly
  the globals that depend on literals only (a least fixpoint over the text), and
  the right data.
- `InitialisedOnce`: every initialised global gets its value exactly once, as
  data or in `__scorivm_init`, in the order of the source.
- `PlainUsesKeepTheirMeaning`: what the checker resolved a name to is what the
  generated code refers to. `Plain` excludes three kinds of program for which it
  does not hold: those in which two globals or functions share a name
  (`private_names`); those that read a variable imported by `excerpe`, of which the
  importer has a copy without the operand the exporter's declaration gave it
  (`ir_gen.c:870`, though `docs/SYNTAX.md:18` offers exact imports); and those that
  keep a function in a variable, which the code then takes for a function of the
  variable's name (`ir_gen.c:860-869`; a direct call of such a name is not even an
  error of the linker, `pe_linker.c:284-290`).
- `Terminates` of `modules`: checker and generator return; in particular every
  round of constant evaluation but the last finds a value. Fairness is
  `WF` of the whole next-state relation, for the same reason as above.

- `Implements`: the generated code performs the effects of the source in their
  order, for all outcomes of conditions: a step-by-step refinement, not a
  comparison of end results. It depends on loops restoring the break and
  continue targets, on the order of the activations, on branch folding, and on
  jump threading at once.
- `BlocksEndOnce`: a block has one terminator, at its end, however much dead code
  stands in the source and whichever of its blocks the generator moves to last.
- `Finishes` of `lower`: generation and jump threading end; for circles of empty blocks
  they end because a round counts as a change only if a target differs.
  Fairness is `WF` of the whole next-state relation: the compiler is one
  sequential process.

- `KeepsMeaning`: after every turn of every pass, not only at the end, the module
  makes the same external calls with the same arguments in the same order, ends
  in the same way and has the same result as the source, for each input. It
  depends on what every pass assumes of the others: that the clones of the inliner
  are reached and read the right vregs, that a value computed in one block is not
  reused in another, that the evaluators agree with the program.
- `WellFormed`: what the allocator and the selector take for granted: a used vreg
  has exactly one definition, and a jump leads to a block of its own function.
- `GrowthBounded`: functions that call each other in any way stop growing. The test is
  made before the call is replaced, so that a function may exceed the limit by
  one callee, and a return of the callee becomes two instructions.
- `Terminates` of `optimize`: every loop of every pass ends, the compiler neither
  hangs nor crashes. The fairness is that of the other modules, written out
  as "ended for good or moves for ever" because computing whether a step is
  possible is costly here.

- `AcceptsTheLanguage`: a text is accepted exactly if the grammar derives it,
  whatever was skipped or invented on the way: recovery never hides an error, and
  one token of lookahead with the code's special cases decides correctly.
- `TreesAreTheirText`: the tree of an accepted text stands for all of it.
- `NoErrorBeforeTheDamage`: nothing is reported before the token that was tampered
  with.
- `NoErrorThrice`: at most two errors at one token, and errors never go backwards.
- `Finishes` of `parser`: it returns from every text. Fairness is `WF` of the whole
  next-state relation, the parser being one sequential call.

- `FieldsApart`, `SizeCovers`, `Aligned`: the places of the fields do not overlap,
  lie inside of the size that is computed by another walk, and are aligned where C
  wants it, also in arrays.
- `TameFieldsKeepValues`: every field reads as what was last stored into it, with its
  sign, after any stores into its neighbours by any of the three pieces of code.

- `ValuesAreMeant`: what is folded, simplified, forwarded, converted or computed under
  undefined upper bits is worth what the source means. It ties the builder (which
  store a load may be answered with, what is dropped) to the selector (how many bits
  every instruction defines).
- `BranchesGoWhereMeant`: so do branches, switches and the fast path.

- `ReferencesResolve`: what every displacement of the finished file leads to is what its
  instruction is about, through pass, list, shift, section and table of imports.
- `SectionsApart`: sections and their contents lie apart in memory and in the file,
  though the imports come in front of strings that had their places already.
- `SecondPassMovesNothing`: no block is moved by the second pass, in which jumps
  forwards use the offsets of the first.

**Bounds and why they are enough**

- `regalloc`: 4 vregs, 3 registers of which 1 is callee-saved. With 4 nodes
  and 3 colours simplify meets nodes of high degree, select runs out of
  colours, and each half of the colours is exhausted separately. The shapes
  are a diamond, a loop, and a loop laid out against its flow with a repeated
  successor, the last needing more than two sweeps.
- `x86mir`: 6 vregs and 6 allocatable registers (RBX, RSI, RDI, R8, R9, R10):
  every special case of the selector compares colours with RSI, RDI, R8, R9
  or R10 or with the destination, and spilling happens. Tested instructions
  stand between definitions of five vregs and uses of all or some of them.
  Left out are the three patterns of section 2: every function of the run is
  `Undisturbed`, and the SELECTs and indirect calls it has are of the harmless kind.
- `x86frame`: call depth 3 (`MaxDepth`: caller, callee and a callee of the
  callee), stack of 121 slots (`Top`), large enough for the deepest program of
  the run. `NewFrame` is only taken while the stack has room for the frame: a
  stack overflow is not modelled.

- `modules`: 2,786 programs in six families. *Scopes*: a global, a parameter
  and locals of one name at three places around a block, which is every way
  one declaration can shadow or end. *Imports*: two files in both orders, five
  kinds of exported declaration, five ways to import and six ways to use.
  *Re-export*: three files. *Aliases*: three aliases each standing for any other,
  a structure, a basic type, a qualified or an unknown name: all chains and
  circles of length three. *Constants*: three globals in two files that refer to
  each other in every way, so that three rounds are needed and circles occur.
  *Kept functions*: variables that hold a function.

- `lower`: 2,074 bodies in five families. *Nested*: break, continue and return
  at two places inside each kind of loop and switch inside each kind of loop and
  switch, which is what saving and restoring the targets can get wrong. *Tests*:
  constant and other conditions, `&&` and `||` two deep, under every statement
  with a condition. *Jumping*: two labels and gotos to them in every order of up
  to four statements, and in loops; and three labels that lead to each other in
  any way, which gives circles for jump threading. *Selecting*: pairs of
  branches that only assign. *Switching*: lists of case values that overlap,
  constant operands, defaults. `Fuel` (40) is longer than any way from one effect
  to the next; a circle without effect is the outcome `diverges` on both
  sides. `Depth` (6) is the depth of the deepest tree.

- `optimize`: 450 programs in two families, each at three levels: 1,350 initial states. *Alone*: seven
  bodies of princeps (calls twice, in a loop, in a branch, in a block that comes
  late in the list) with seventeen functions (no result, several
  returns, memory, switch, trap, fast path on either side, recursion that can and
  cannot be evaluated). *Nested*: a function that calls another, in all six orders
  of the three, so that a function is inlined before and after it has had another
  inlined. `InlineLimit` is 20 and `GrowLimit` 30 instead of 60 and 200, so that
  small programs meet both. `Fuel` is 15: runs of up to 225 steps, while the
  longest that ends takes fewer (only `up` does not end). `Inputs` 0, 1 and 3 take both sides of every
  comparison and lie inside, between and outside the base cases 2 to 4.

- `parser`: 5,505 texts. 26 accepted texts use every rule between them, and
  each is broken at each token in every way of four, so that recovery starts from and
  lands in every place. All expressions of two operators are tried with their
  parentheses: precedence and associativity are relations of two.

- `layout`: 3,150 programs of at most three fields. A field interacts with the one before it (shared
  unit or flush) and with the end of the structure (rounding), so three fields meet
  every case; two stores (`MaxStores`) are what one field can do to another.

- `widths`: the scaled widths keep what matters: three sizes, the largest as wide as
  the host's integers, constants at the borders of each. Runs have one to three calls:
  every property of a value is that of its operands and one operation, and forwarding
  needs a store, what comes between, and the load. Three pointers, two of them
  to one cell.

- `pelink`: princeps has two blocks with a reference each, out of eleven kinds, in
  both directions; fillers make the second jump cross a page and the text a second
  page of its section. Globals: none, two of no size (no section `.data`), two of which
  one is larger than a page. Externs: none, one in a DLL whose name differs in case,
  and a second DLL with two functions, beside a system call declared again. One string is so
  long that the tables in front of it push the section over a page.

## 4. Proofs

`X86MirProofs` proves of the allocator, for every function, number of registers, split of
the register file and -O level (assumptions: `MaxVregAssumption`,
`PhysRegAssumption`, `PlainOpsAssumption`, `FunctionAssumption` of `RegAlloc`):

| theorem | statement |
|---|---|
| `TypeCorrect` | `Spec => []TypeOK` |
| `Inductive` | `Spec => []IInv` |
| `SweepReachesFixpoint` | when the sweep stops, `liveIn` and `liveOut` solve the data-flow equations |
| `ResultsClobberNothing` | `Spec => []NoClobber` |
| `CallsClobberNothing` | `Spec => []CallSurvivors` |
| `LivenessIsExactly` | `Spec => []LivenessIsExact` |
| `LowDegreeIsColored` | `Spec => []LowDegreeGetsColor` |

**The argument.** `NoClobber` speaks of the end state only; nothing in it
survives a step backwards. `IInv` carries it through the phases:

1. `SweepInv`, during the liveness phase: while no live-in set has changed in
   this sweep, every block already passed satisfies its equation with respect
   to the present sets. (If a set changes, the flag is up and the claim is
   void; that the sets only grow is `LiveBlockGrows`.)
2. `LivenessIsFixpoint`, afterwards: all blocks satisfy their equations. It is
   `SweepInv` at the end of a sweep that changed nothing.
3. `GraphInv`, from the interference scan on: for every instruction already
   scanned, its result is adjacent to everything live after it, and everything
   live across it is in `crosses` if it is a call. `curLive` equals the set
   `LiveAfter` computed from the code, by `LiveBefore` and `LiveAfterLast`.
4. `ColorInv`, from simplify on: two coloured neighbours have different
   colours, and coloured members of `crosses` are below `NumCalleeSaved`. It
   needs only that `ColorFor` avoids the colours of *all* neighbours
   (`ColorForIsFree`), not the order of simplify.
5. `OptInv`: at -O0 nothing is ever coloured.

The order in which simplify stacks nodes is thus irrelevant to safety. Two more
invariants, kept apart from `IInv`, give the quality of the result:

- `WitnessInv`: for every vreg in a live-in set there is a path to a use that passes no
  definition. A block handed a vreg by a successor puts itself in front of the
  successor's path; a path longer than the function has blocks goes in a circle and
  can be cut (`WitnessShort`, by the pigeonhole principle). That the sets hold
  *all* such vregs follows from the equations along the path, from its end backwards
  (`PathsAreLive`).
- `SimplifyInv`: the degree of a vreg counts at least its neighbours not yet removed,
  and for a removed one those that were left then; what is on the stack is uncoloured.
  So when a vreg comes off the stack, at most as many neighbours have colours as its
  degree says, and if these are fewer than the registers one is free (`ColourLeft`).

`X86MirProofs` proves, for every function the builder can make, every register file of
the shape of `get_phys_reg` and every -O level (assumptions: those of `RegAlloc`,
`RegisterFileAssumption`, `MirOpsAssumption` and `MirFunctionAssumption`):

| theorem | statement |
|---|---|
| `MirInductive` | `MirSpec => []MirInv` |
| `HomesHold` | `MirSpec => [](Undisturbed => HomesHoldValues)` |
| `SelectionIsRight` | `MirSpec => [](Undisturbed => ReadsWhatIsMeant)` |
| `OnlySavedAreWritten` | `MirSpec => SavesWhatItWrites`, of every function |

**The argument.** `MirInv` joins what the allocator guarantees at its end (`IInv`) to
what the code relies on while it runs: every vreg live before the instruction at hand is
in its home. Each opcode has a lemma of its own (`AluStep`, `GepVarStep`, `MemcpyStep`,
`CallStep`, ...), built alike. The scratch registers are not colours (`HomeFacts`), so
what is loaded there disturbs no home (`PlaceKept`); the order of the moves is such that no
operand is overwritten before it is read, which is a case distinction on which operand
lives in the destination or in RSI and RDI; what is live afterwards lives in none of
the registers written (`DestFacts`, from `NoClobber`; `ResultIn` for calls, from
`CallSurvivors`). A jump needs the data-flow equations: what is live at the start of
a successor is live at the jump (`LiveAcrossJump`, from `LivenessIsFixpoint`).
`ParamsWait` says that parameters not yet fetched still wait in their registers. Only
three lemmas use `Undisturbed`: SELECT, GET_PARAM and CALL.

`X86FrameProofs` proves, for every program, every stack and every depth of
calls (assumptions: `TopAssumption`, that Windows enters the process with rsp 8
bytes off a multiple of 16, and `ProgramsAssumption`, what the prescan knows of
a function):

| theorem | statement |
|---|---|
| `FramesTile` | `Spec => []StackInv` |
| `CallsAreAligned` | `Spec => []Aligned` |
| `NobodyWritesAnothersFrame` | `Spec => []FramesIntact` |
| `ArgumentsArrive` | `Spec => [](Tame => ReadersFindTheirs)` |

**The argument.** The code never sees two frames at once: it sizes each alone.
`StackInv` says how they fit together: every return address lies directly below
the rsp its caller had, every base is even, every outer base is above it, and
rsp is the base of the innermost frame. That a new frame keeps this is parity
arithmetic on `FrameSize` (`FrameFacts`, `EvenBelow`). The other half is that a
body writes only below its own outgoing area or in its own data
(`CallWritesBelow`, `SystemWritesBelow`), and everything any active frame owns
lies above that (`OwnedAbove`): the outgoing area covers each call's needs
because it is their maximum (`OutgoingCovers`). `ArgsInv` adds where the stack
arguments of the innermost call wait until its callee has read them. `Tame`
excludes the programs that the run `five_params` shows to be wrong: below -O2
with a function of five parameters or more.

`LayoutProofs` proves, for every program (assumption: `ProgramsAssumption`, that types
are basic, earlier structures or arrays of those, and bit fields, of any number of bits,
are integers or logica and stand in formae only), any number and kinds of fields and any
number of stores:

| theorem | statement |
|---|---|
| `LayoutInvariance` | `Spec => []LayoutInv` |
| `FieldsNeverOverlap` | `Spec => []FieldsApart` |
| `SizesCoverFields` | `Spec => []SizeCovers` |
| `FieldsAreAligned` | `Spec => []Aligned` |
| `FieldsHoldTheirValues` | `Spec => []TameFieldsKeepValues` |

**The argument.** None of these is inductive: the place of a new field says nothing
of where the walk goes on. `LayoutInv` says that both walks stand at the same place
(`SameTurn`: the code of a turn is written differently in the two functions but
computes the same), and that every field before the index ends there or
earlier (`BehindTheField`). A turn only moves forward (`FlushForward`,
`BeginsForward`), and the size of a finished structure is its last place rounded up
(`FinalSizeIsBehind`), which is what an outer structure reserves for it. `AlignedInv`
adds that the alignment so far is at least that of every field; since alignments are
powers of two it is a multiple of them (`PowersDivide`).

`ValuesInv` describes memory bit by bit: in the places of every defined field are the bits
of its value, in their order. Each of the ways to store yields a unit that carries
the new value in the field's own bits and what was there in all others (`ValueCarries`,
`MergedCarries`, `ConstantCarries`), so a store leaves alone what is outside of
the field (`StoredKeeps`), and by `FieldsApart` that is every other field. Shifting down
and extending by the sign undoes it (`ReadsBack`). Two things have to be shown on the
way: that the processor's shift, which takes its amount modulo 32 or 64, is the one
meant (`ShiftIsMeant`), which is why `Tame` is needed, and that the unit read and written,
which may reach behind the structure, stays within eight bytes of it (`UnitReaches`)
and writes back what it found there.

`PeLinkProofs` proves about `PeLink`, for every program (assumptions: `PeLinkAssumption`,
`NameLengthAssumption`):

| theorem | statement |
|---|---|
| `WalkInvariance` | `Spec => []WalkInv` |
| `BlocksStay` | `Spec => SecondPassMovesNothing` |
| `SectionsLieApart` | `Spec => []SectionsApart` |
| `ReferencesLead` | `Spec => []ReferencesResolve` |

**The argument.** The second pass trusts places the first one noted. `WalkInv` says why it
may: somewhere there is a record of where the first pass met every cursor it passed, each
place one instruction behind the last, and every noted block is in it; the second
pass, at any cursor, stands where the record says. This needs that the size of an
instruction depends on nothing a pass changes, which is what an assembler with short
jumps would break.

`MadeInv` describes everything made along the way: externs are those declared and
needed, each once (`ExternsInv`), globals follow each other in `.data` (`DataInv`), strings in
`.rdata` (`StringsInv`), the table of imports holds every extern in one row and
every row under its own library (`ImportsInv`), and the pieces of the import tables tile
the space before the strings, those of a row without a gap between them (`TablesInv`,
`JoinedInv`). So the headers `LayOut` computes put each section on pages of its own, in the
order the loader demands (`ImageInv`, `SectionsApart`).

`FieldsInv` says of every displacement written in the second pass that it is settled: either
right already, as jumps are, or every entry of the relocation lists for its place is
the one its meaning asks for (`Noted`), and there is one. Two entries never share a
place, since text only grows. `PatchLeads` takes this through the headers: each kind of
entry resolves to what was meant (`FuncLeads`, `StringLeads`, `GlobalLeads`, `ExternLeads`,
`ExitLeads`). For an extern that is the longest way: `SlotIsFound` says which slot the
lookup by name yields, and `BoundHolds` that Windows, walking the directory by null
terminators, binds that very slot to that name. A global of size zero has no byte of
its own, so nothing is said about what it shares its place with.

`LowerProofs` proves about `Lower`, for every function body of any depth, meaningful or
not, and both -O levels (assumption: `ProgramsAssumption`):

| theorem | statement |
|---|---|
| `LowerInductive` | `Spec => []LowerInv` |
| `NothingEverFollows` | `Spec => []NothingFollows` |
| `BlocksAlwaysEndOnce` | `Spec => [](GotosLead(prog) => BlocksEndOnce)` |

**The argument.** That nothing follows a terminator is `create_inst`'s doing alone. That
every block gets one is nobody's: blocks are made long before they are filled, by
activations of `gen_statement` that then call others, and a block of a label by whichever of
goto and label comes first. `LowerInv` says that none of them is forgotten (`Accounted`): a
block without a terminator is the current one, or an activation on the stack is going
to move to it (`Promised`), or it is that of a label that code will still be generated
for (`ToCome`). Which labels are to come is read from the stack: an activation awaits
what is below the parts it has yet to call for (`Left`). Conversely a label that is
neither skipped nor to come has its block (`Landed`), so that what a late goto adds
is never an empty block.

Every action is then one of three steps, each proved once: a call (`CallStep`), an activation
that goes on (`StayStep`) or a return (`ReturnStep`), of an activation that moves
from one block to another and ends what it leaves (`Moves`). The lemma of an action
(`GotoKeeps`, `SwitchCaseKeeps`, ...) only says which blocks it makes, which it moves to,
and that what it no longer promises has ended. Two cases are less obvious than they
look. In front of the first case of a switch the generator stands in a block it never
leaves by a jump of its own: the switch just emitted ended it (`AtTop`). And the branch a
constant condition rules out is never called for: what is below it must not be counted
as still to come, for which the value of the condition has to be known when it is
evaluated (`ValueOf`, `IfKnownKeeps`); here `GotosLead` comes from. When the stack is empty,
nothing is promised or to come, and the return that `FinishFunction` emits ends the one block
left. The sweep takes loads away, which are no terminators (`LoadSwept`), and threading
renames targets (`ThreadedIs`).

Syntax trees have no induction principle here; what holds of all paths of a tree is shown
by a smallest counterexample (`LeastNat`), as in `PathThrough`: a path that leads through
a node leads on through one of its parts.

`IrGlobalsProofs` and `TypesProofs` prove about `TypeChecker` and `IrGlobals`, for every
program, right or wrong (assumption: `ProgramsAssumption`):

| theorem | statement |
|---|---|
| `NamesInductive` | `IrSpec => []NamesInv` |
| `NamesReachTheirDeclarations` | `IrSpec => []UsesReachVisible` |
| `IrInductive` | `IrSpec => []IrInv` |
| `GlobalsAreInitialisedOnce` | `IrSpec => []InitialisedOnce` |
| `ConstantsAreExactAlways` | `IrSpec => []ConstantsAreExact` |
| `UsesInductive` | `IrSpec => []UsesInv` |
| `UsesMeanWhatTheyNamed` | `IrSpec => []PlainUsesKeepTheirMeaning` |
| `TypesInductive` | `IrSpec => []TypesInv` |
| `AliasesAlwaysMeanTheirTargets` | `IrSpec => []AliasesMeanTheirTargets` |
| `OriginsInductive` | `IrSpec => []OriginsInv` |
| `CheckedInductive` | `IrSpec => []CheckedInv` |
| `AcceptedAreAlwaysTyped` | `IrSpec => []AcceptedAreTyped` |

**The argument.** `UsesReachVisible` compares two things of different nature: a walk along
tables that were filled in four passes over all files, and rules read from the text.
`NamesInv` says what the tables hold meanwhile:

1. `PlaceInv`: where the checker is; the passes after the fourth begin only without
   errors (`Failing`), and locals are open only inside a function.
2. `UniverseInv`: the modules seen so far, each under its name. Two files of one name
   leave an error, which ends the check with the first pass.
3. `OwnInv`: every declaration a file has shown so far (`Collected`: in the second
   pass the file's types before everything else) is in the file's scope under its
   name, and if there is no error it is the one the symbol names; so names are unique
   in a file that gets to the third pass.
4. `ScopeInv`: conversely every name in a scope is one of the file's own or was
   brought by the first import that could bring it (`BroughtBy`). This holds because
   a scope never gives a name up or away: symbols are added and change their types
   (`Retyped`, `ScopesGrow`), nothing else, and the first import of a name stays the
   first when later ones are seen (`LeastStays`). An import reads the scope of another
   file, which may import in its turn; it sees only what that file declares itself,
   since copies are not public (`MemberIsPublic`).
5. `LocalsInv`: the first open scope holds the parameters, each name the first of its
   name (`ParamScopeHolds`), and the l-th block above it holds the locals that are declared at that
   depth and whose block has stayed open since (`VisibleAt`). A statement moves the
   depth by at most one (`DepthStep`, `StatementKeepsLocals`), so a block closed
   and another opened at the same depth are told apart.

With these, what `symtab_lookup` finds on its way outwards is what the rules say
(`LookupMeans`, and `ResolveMeans` for qualified names), at the moment of the use; and
the rules, being read from the text, say the same for ever (`DenotesStays`).

**The generator.** `IrInv` says what the three passes of `ir_gen_generate` have made:

1. `ListsInv`: the lists of globals, functions and externs hold every declaration the
   first pass has come to (`Entered`) exactly once, under its name. If names are
   unique, the first entry of a name is therefore the declaration's own
   (`GlobalIsFound`).
2. `DataInv`: data are the value of the initialiser by the data of now, one at most. A
   value found stays (`ValuesKept`: sums of values do not change when others are
   found), so this holds for every earlier one too. Conversely, in a round that has
   changed nothing so far, every global already passed was looked at in vain and still
   has no value (`Looked`); a change forgets that, and the loop is left only after a
   round without one. That is what makes the order of declarations irrelevant: the
   loop ends closed, every global without data having an initialiser without a value
   (`DataIsClosed`).
3. `CodeInv`: `__scorivm_init` holds, in the order of the source (`Before`), what the
   third pass has come to and is without data, and none of it is a `lex`.

`InitialisedOnce` follows by counting: a global has data and is not in the code, or is in the
code once, since positions are strictly increasing (`OncePerGlobal`). For
`ConstantsAreExact` two invariants about the checker's record join it: every name in an
initialiser was resolved when its file was checked (`UsedInv`), so that the global whose
data the evaluator takes by bare name is the one the name denotes (`NameMeans`), and every
global with data is in the least set closed under "depends on literals and members only"
(`GroundedInv`, by induction along the steps instead of over the set). The converse is
`DataIsClosed`: the globals with data are themselves such a closed set, so the least
one is within it (`ExactFollows`).

**The uses.** A use is followed from the checker's scope to the linker's table. `UsesInv`
holds what each station keeps of it:

1. `SymbolsInv`: what is found under a name is a declaration of that name, the file's own
   or, if it is a copy, another file's; a function's symbol has a function's type. Types
   change only where there was none yet: of aliases when they are resolved
   (`ForcedSymbols`), of globals when their initialiser is checked (`GlobalRetypes`).
2. `RefersInv`: a use recorded the type its symbol has now, or the symbol had none
   then. This is needed because the generator reads the types of symbols that are not
   copies when it runs, long after the checker resolved the name.
3. `CalledInv`: in a program without errors only what has the type of a function is called.
4. `BodiesInv`: once the third pass has come past it, a function has its own body and no
   other.

If names are unique, the linker's search by name therefore ends at the declaration
itself (`NameReaches`), in a body or in an extern; the other two conditions of `Plain`
are what lets `Generated` treat the type as the declaration does (`UsesFollow`).

**The types.** `TypesInv` says of every program that has shown no error yet:

1. The only symbols without a type are aliases of the file whose declarations are
   being collected, and globals declared without a type that the fourth pass has not
   come to (`SymbolTyped`, `DeclTyped`).
2. A type that a declaration behind the cursor writes is found, and is what its name
   has in the scope of the file meant, basic types apart (`Fixed`). A symbol that has a
   type never gets another (`KeptStep`), so it is that for good (`FixedStays`).

The second pass keeps this although it resolves aliases in whatever order they are
needed. The code follows a chain and writes each type on its way back; the model
speaks of all aliases reached (`Chain`, a least closed set). All of them have the same ends
(`ChainsEnd`), hence get the same type (`ChainsAgree`), and the type an alias gets is the one
its own written target resolves to at that moment (`AliasIsTarget`). A chain never leaves
the file at hand: behind a qualified name is a file already collected, whose aliases are
resolved, or one not begun, which has no names yet (`TargetsHere`). A chain without an end is
a circle and an error (`ReachedIsKnown`). At the end a name that a type may mean is one
declaration (`MeaningIsOne`), so what was found is what the text says (`FixedIsDeclared`).

**Accepted programs.** `AcceptedAreTyped` speaks of final types, the checker of those its
symbols have when an expression is met. Two more invariants of programs without an
error so far close the gap:

1. `OriginsInv`: what a name reaches outside functions has the type that its declaration's own
   symbol has now, or none (`Origin`), a copy made by an import too; a parameter or local has
   the type that what is written for it stands for, as the text reads it outside
   functions (`Stands`). The same is true of every name that was met. A type that is
   there stays (`KeptStep`), so this goes on to hold (`OriginStays`, `StandsStays`). It
   begins with the third pass, when scopes hold only what their file declares
   (`StartInv`, which follows from the other invariants).
2. `CheckedInv`: every initialiser and statement behind the fourth pass fits its place by
   the types its names had (`FitsAt`), or some name had none. What `check_expression`
   accepts fits (`CheckedFits`); its result has no type only if a name in it has none
   (`UntypedIsMet`), which is the hole that `InOrder` excludes. What fits goes on to fit,
   for nothing in it changes: uses are only added (`FitsStay`).

At the end the type of a name that had one is its final type (`TypeIsFinal`), so what
fits by the former fits by the latter (`FitsFinally`), and results have the type their
function declares (`FixedIsDeclared`).

**The parser.** `ParserProofs` proves, for every set of identifiers and literals and
every text (assumption: `TextsAssumption`):

| theorem | statement |
|---|---|
| `ParserInductive` | `Spec => []IInv` |
| `NeverThrice` | `Spec => []NoErrorThrice` |

`NoErrorThrice` counts reports at one token, and the parser may report at a token, recover
without moving, and report there again: that there is no third time follows from where
in the grammar it then stands. `IInv` was checked as an invariant of `parser`, on all its
334,797 states, before it was proved. It has five parts:

1. `TypeInv`: what lies on the stack is an item some function puts there (`Items`), by what
   it may put there itself: parts of an expression or a type (`Inner`), of a declaration
   or statement (`Outer`), and what stays while declarations are parsed (`Frame`).
2. `Links`: what lies under the items of `Frame`. Under a recovery is the end of its
   declaration, under that a loop, under the loop of a block its `}`, and so on.
3. `AssignInv`: the only report that is not at the cursor is that of an assignment whose
   left side is no place, at its operator. While its value is parsed only parts of
   expressions lie above it, and unless the parser panics no error lies behind the operator,
   nor two at it: the report never goes back.
4. `SettledInv`: with an error at the cursor and no panic, either the parser has just
   recovered and is on its way out of the loops that end here (`Closing`), or the innermost
   declaration began at this token (`Fresh`). With two, the declaration that panics
   began here; once it has recovered, `Landed` finds that nothing was consumed and takes the
   token.
5. `ReportsInv`: the property, and no report lies behind the cursor's token.

A report needs a parser that does not panic; with two errors at the cursor that parser is, by
4, at `Landed`, which reports nothing. The end of the file is excepted: there every open
brace fails. The proof has one lemma per
action (`ConsumeTurns` to `SynchronizeTurns`); each only shows that what the action pushes is
of the right kind and meets `Links`, for `Turn` does once what they have in common.

**Only model-checked.** `Terminates` and `Finishes` (liveness), `Implements` of `Lower`,
the other properties of `Parser`, and all of `Optimize` and `Widths`. In
`Implements`, `KeepsMeaning` and `AcceptsTheLanguage` the meaning of a body, a module
or a text is a recursive function over data; the passes of `Optimize` are folds over whole
functions, what they do being a fact about the fold and not about a step; `TreesAreTheirText` and
`NoErrorBeforeTheDamage` speak of the trees and the texts of that same grammar, for which
RECURSIVE operators are used; and `Widths` uses operators on bits, which the
provers do not have. Liveness under fairness, ENABLED and induction over data are out of
the prover's reach here.

## 5. Not modelled, and the plan

- The lexer, the printers and the logger: pure functions and output.
- The driver: the order of the stages and file I/O. When the executable cannot be
  written it logs an error and still returns 0 (`main.c:173`).
- The arena: a dozen lines, whose danger (growth in place, `memory_arena.c:64`) is in
  every caller that keeps a pointer from before.
- In the back end: the bytes of instructions, floating point, and the frameless blocks
  the fast path makes (`x86_mir.c:442`): `X86Frame` gives every function a frame.
- In the middle: arrays, pointers, unions and fields in the type checker's
  expressions, equality and interning of types, the data side of expressions in
  `ir_gen.c` but for fields, the lowering of builtins.

`X86Mir` composes allocator and selector, `IrGlobals` the checker and the generator,
`Lower` generation and jump threading. A composition of `Optimize` with `X86Frame`,
for the frameless blocks, would be next.
