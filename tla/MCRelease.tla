----------------------------- MODULE MCRelease -----------------------------
(* An instance of Release for TLC: two jobs; two targets of one platform and *)
(* architecture, one with a help module and an archive, and configurations   *)
(* that are wrong in one way each.                                           *)
EXTENDS Release

App == <<"app">>
Of(t) == << <<"target">>, <<t>>, App >>
File(n) == <<n>>
License == <<"LICENSE">>
Deb == <<"app", "-1", ".deb">>
Deb2 == <<"app", "-2", ".deb">>
Module == <<"MyTool">>
Help == <<"help", ".xml">>
Sum(n) == Append(n, ".sha256")
Tar == <<"app", ".tar.gz">>
Linux == <<"app", "_linux">>
Win == <<"app", "_win">>

MCTargets == {"gnu", "musl", "win", "up", "reserved", "bare"}

Direct(p) == [renders |-> TRUE, paths |-> {p}]
Glob(S) == [renders |-> TRUE, paths |-> S]
Artefact(patterns, destination, output, required) ==
  [patterns |-> patterns, destination |-> destination, output |-> output,
   required |-> required, valid |-> TRUE]

Section(platform, artefacts) ==
  [complete |-> TRUE, platform |-> platform, dir |-> <<>>, artefacts |-> artefacts,
   binstall |-> Empty]
Debs == Artefact(<<Glob({File(Deb), File(Deb2)})>>, <<>>, "deb_path", TRUE)
Twice == Artefact(<<Direct(Of("gnu"))>>, <<App>>, "", FALSE)
Clash == Artefact(<<Direct(File(License))>>, <<Sum(App)>>, "", FALSE)
Outside == Artefact(<<Direct(Of("gnu"))>>, << <<"..">>, App>>, "", TRUE)
HelpFile == Artefact(<<Direct(File(Help))>>, <<Module, Help>>, "", TRUE)
BadKey == Artefact(<<Direct(Of("gnu"))>>, <<>>, "artifact_dir", TRUE)
BadTemplate == Artefact(<<[renders |-> FALSE, paths |-> {}]>>, <<>>, "", FALSE)
MCSections ==
  [gnu |-> Section(<<"_linux">>, <<Debs>>),
   musl |-> Section(<<"_linux">>, <<Twice, Clash>>),
   win |-> [Section(<<"_win">>, <<HelpFile>>) EXCEPT
              !.binstall = [enabled |-> TRUE, output |-> "archive"]],
   up |-> [Section(<<"_up">>, <<Outside>>) EXCEPT !.dir = << <<"..">> >>],
   reserved |-> Section(<<"_reserved">>, <<BadKey>>),
   bare |-> [Section(<<"_linux">>, <<BadTemplate>>) EXCEPT !.dir = << <<"..">>, <<"..">> >>]]
MCCommon ==
  [algorithm |-> ".sha256",
   artefacts |-> [t \in MCTargets |->
     <<Artefact(<<Direct(Of(t)), Direct(Of("gnu"))>>, <<App>>, "binary_path", TRUE),
       Artefact(<<Direct(File(License))>>, <<>>, "", FALSE)>>],
   binstall |-> [t \in MCTargets |-> [archive |-> <<Tar>>, source |-> Direct(Of(t))]]]
MCModuleName == [t \in MCTargets |-> IF t = "win" THEN <<Module>> ELSE <<>>]

MCPathOrder ==
  LET files(dir) == << <<dir, License>>, <<dir, Sum(License)>>, <<dir, Module, Help>>,
                        <<dir, Module, Sum(Help)>>, <<dir, App>>, <<dir, Deb>>, <<dir, Sum(Deb)>>,
                        <<dir, Deb2>>, <<dir, Sum(Deb2)>>, <<dir, Sum(App)>>,
                        <<dir, Sum(Sum(App))>>, <<dir, Tar>>, <<dir, Sum(Tar)>> >>
      under(seq) == [i \in DOMAIN seq |-> Dist \o seq[i]]
  IN  <<File(License), File(Sum(License)), File(App), File(Deb), File(Deb2), File(Sum(App))>>
        \o under(<< <<Linux \o <<"-">> \o Deb2>> >> \o files(Linux) \o files(Win)
                 \o files(<<"app", "_reserved">>))
        \o <<File(Help), Of("gnu"), Of("musl"), Of("win")>>

Made(content, time) == [content |-> <<content>>, time |-> time]
Workspace(S) == [p \in {x[1] : x \in S} |-> (CHOOSE x \in S : x[1] = p)[2]]
Full(v) == {<<Of("gnu"), Made(v, 1)>>, <<File(License), Made("licence", 0)>>,
            <<File(Deb), Made("deb", 1)>>, <<File(Deb2), Made("deb2", 2)>>,
            <<File(Help), Made("help", 1)>>}
MCBuilds ==
  [a |-> {Workspace(Full("v1") \cup {<<Of("musl"), Made("musl", 1)>>, <<Of("win"), Made("exe", 1)>>}),
          Workspace((Full("v2") \ {<<File(License), Made("licence", 0)>>})
                      \cup {<<Of("musl"), Made("musl", 1)>>})},
   b |-> {Workspace((Full("v4") \ {<<File(Help), Made("help", 1)>>})
                      \cup {<<Of("win"), Made("exe", 1)>>}),
          Workspace(Full("v3") \cup {<<Dist \o <<Linux \o <<"-">> \o Deb2>>, Made("loose", 0)>>}),
          Workspace({<<Of("gnu"), [content |-> <<>>, time |-> 0]>>, <<Of("win"), Made("exe", 1)>>,
                     <<File(Deb), Made("deb", 1)>>, <<File(Help), Made("help", 1)>>})}]
Plan(targets, dry, clobber) == [targets |-> targets, dry |-> dry, clobber |-> clobber]
MCPlans ==
  [a |-> {Plan(<<"gnu", "musl">>, FALSE, TRUE), Plan(<<"gnu", "win">>, FALSE, FALSE),
          Plan(<<"reserved">>, FALSE, TRUE), Plan(<<"up">>, FALSE, TRUE)},
   b |-> {Plan(<<"win">>, FALSE, TRUE), Plan(<<"gnu">>, TRUE, FALSE), Plan(<<"bare">>, FALSE, FALSE)}]
MCMaxAttempts == [a |-> 2, b |-> 1]
=============================================================================
