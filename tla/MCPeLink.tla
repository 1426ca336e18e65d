------------------------------ MODULE MCPeLink ------------------------------
(* A princeps of two blocks with two references out of a menu and a filler  *)
(* that may cross a page, a helper and the initialisation, with globals and *)
(* externs of several shapes: none, one of no size, one larger than a page; *)
(* DLLs whose names differ in case, a system call declared again.           *)
EXTENDS PeLink

Inst(pre, wants) == [pre |-> pre, wants |-> wants]
Fillers == {12, 4090}
Menu == {Inst(1, <<"block", 1>>), Inst(2, <<"block", 2>>),
         Inst(1, <<"func", "helper">>), Inst(3, <<"name", "helper">>),
         Inst(2, <<"name", "HeapAlloc">>), Inst(2, <<"name", "Beep">>),
         Inst(3, <<"name", "first">>), Inst(3, <<"name", "second">>),
         Inst(3, <<"string", "salve", 5>>), Inst(3, <<"string", "empty", 0>>),
         Inst(3, <<"string", "longum", 3900>>)}

Global(name, size) == [name |-> name, size |-> size]
Extern(name, dll) == [name |-> name, dll |-> dll]
GlobalSets == {<<>>, <<Global("first", 0), Global("second", 0)>>,
               <<Global("first", 5), Global("second", 5000)>>}
ExternSets == {<<>>, <<Extern("Beep", "KERNEL32.DLL")>>,
               <<Extern("Box", "user32.dll"), Extern("Beep", "User32.dll"),
                 Extern("ExitProcess", "Kernel32.dll")>>}

Program(a, b, filler, gs, es) ==
    [funcs |->
       <<[name |-> "__scorivm_init",
          blocks |-> <<<<Inst(3, <<"string", "vale", 4>>), Inst(1, <<>>)>>>>],
         [name |-> "princeps",
          blocks |-> <<<<a, Inst(filler, <<>>)>>, <<b, Inst(1, <<>>)>>>>],
         [name |-> "helper",
          blocks |-> <<<<Inst(3, <<"string", "salve", 5>>)>>>>]>>,
     globals |-> gs, externs |-> es]

Declared(p) == NamesIn(p.funcs) \cup NamesIn(p.globals) \cup NamesIn(p.externs)
                 \cup ToSet(SysExterns)
MCPrograms ==
    {p \in {Program(a, b, filler, gs, es) :
              a \in Menu, b \in Menu, filler \in Fillers,
              gs \in GlobalSets, es \in ExternSets} :
       \A k \in 1 .. 2 : LET w == p.funcs[2].blocks[k][1].wants
                         IN  w[1] = "name" => w[2] \in Declared(p)}

MCCaseless == [d \in {"kernel32.dll", "KERNEL32.DLL", "Kernel32.dll"} |-> "kernel32.dll"]
                @@ [d \in {"user32.dll", "User32.dll"} |-> "user32.dll"]
MCNameLength == [GetStdHandle |-> 12, WriteFile |-> 9, ReadFile |-> 8, GetProcessHeap |-> 14,
                 HeapAlloc |-> 9, HeapFree |-> 8, ExitProcess |-> 11, Beep |-> 4, Box |-> 3]
                @@ [d \in {"kernel32.dll", "KERNEL32.DLL", "Kernel32.dll"} |-> 12]
                @@ [d \in {"user32.dll", "User32.dll"} |-> 10]
=============================================================================
