---------------------------- MODULE MCRustBuild ----------------------------
(* An instance of RustBuild for TLC: a Linux and a Windows runner, targets   *)
(* that are native, foreign, BSD, GNU and gnullvm, and projects that declare *)
(* nothing, or a toolchain file and tables of their own.                     *)
EXTENDS RustBuild

Linux == "x86_64-unknown-linux-gnu"
FreeBsd == "x86_64-unknown-freebsd"
Gnu == "x86_64-pc-windows-gnu"
Llvm == "x86_64-pc-windows-gnullvm"
ArmLlvm == "aarch64-pc-windows-gnullvm"
Msvc == "x86_64-pc-windows-msvc"
Nightly == <<"nightly">>
Dated == <<"nightly", "2025-07-20">>
Minimum == <<"1", "85">>

MCTargets == {Linux, FreeBsd, Gnu, Llvm, ArmLlvm}
MCBsdSuffix == [t \in MCTargets \cup {Msvc} |->
                  IF t = FreeBsd THEN "unknown-freebsd" ELSE "none"]
MCHostOf == [linux |-> Linux, win32 |-> Msvc]
MCGnuHostOf == [linux |-> Linux, win32 |-> Gnu]
MCProjects == {[files |-> <<>>, msrv |-> <<>>, config |-> <<>>],
               [files |-> <<<<>>, Nightly>>, msrv |-> Minimum,
                config |-> <<[target |-> Llvm, header |-> FALSE]>>]}
MCRequests == {<<>>, Nightly}
MCDefault == <<"1", "89", "0">>
MCOrder == <<Append(MCDefault, Linux), Append(MCDefault, Gnu), Append(MCDefault, Msvc),
             Append(Dated, Linux), Append(Dated, Msvc),
             Append(Nightly, Gnu), Append(Nightly, Msvc), Append(Nightly, Linux)>>
MCImage == {Append(Dated, Linux)}
MCMaxBuilds == [linux |-> 2, win32 |-> 4]
=============================================================================
