-------------------------- MODULE MCLinuxPackages --------------------------
(* An instance of LinuxPackages for TLC on an x86_64 runner: two targets of  *)
(* one architecture, a foreign one and one without, releases 1 and 10.       *)
EXTENDS LinuxPackages

MCArch == [gnu |-> "amd64", musl |-> "amd64", arm |-> "arm64", wasm |-> "unsupported"]
MCLabelOf ==
  LET deb == [amd64 |-> "amd64", arm64 |-> "arm64", all |-> "all"]
      rpm == [amd64 |-> "x86_64", arm64 |-> "aarch64", all |-> "noarch"]
  IN  [deb |-> deb, rpm |-> rpm, apk |-> rpm]
MCRpmAliases == [amd64 |-> {"x86_64"}, arm64 |-> {"arm64", "aarch64"}, all |-> {"all"}]
One == <<"1">>
Ten == <<"1", "0">>
FormatLists == {<<"deb">>, <<"rpm", "deb", "rpm">>, <<"deb", "apk">>}
MCPackageInputs ==
  {u \in [kind : {"package"}, target : {"gnu", "musl", "arm", "wasm"}, release : {One, Ten},
          formats : FormatLists, arch : {"auto", "all"}, man : BOOLEAN] :
     /\ u.arch = "all" => u.target = "gnu" /\ u.release = One
     /\ ~u.man => u.target = "gnu" /\ u.arch = "auto"}
MCValidateInputs ==
  {u \in [kind : {"validate"}, target : {"gnu", "arm", "wasm"}, release : {One, Ten},
          formats : FormatLists, arch : {"auto", "all"}, expected : {<<>>, <<"man">>},
          executables : {<<>>, <<"man">>}, verify : BOOLEAN, own : BOOLEAN] :
     /\ u.arch = "all" => u.target = "gnu" /\ u.release = One
     /\ u.executables # <<>> => u.expected = <<>>
     /\ u.verify = u.own}
=============================================================================
