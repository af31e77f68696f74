---------------------------- MODULE MCVerification ----------------------------
(***************************************************************************)
(* Small instances of Verification for TLC.                                *)
(***************************************************************************)
EXTENDS Verification

Call(chain) == [kind |-> "call", chain |-> chain, check |-> FALSE, targets |-> {}]
Checked(chain) == [Call(chain) EXCEPT !.check = TRUE]
Patch(chain, receiver, attr) ==
  [Call(chain) EXCEPT !.targets = {[receiver |-> receiver, attr |-> attr]}]
Attribute(chain) == [kind |-> "attribute", chain |-> chain]

Top(form, left, value) == [form |-> form, left |-> left, value |-> value,
                          inside |-> <<>>, opens |-> TRUE]
In(kind, s) == [s EXCEPT !.inside = <<[kind |-> kind]>> \o @]
With(value, s) == [s EXCEPT !.inside = <<[kind |-> "with", value |-> value]>> \o @]

\* import subprocess as sp; from subprocess import run; from contextlib import
\* suppress; import app.cli
MCAliases ==
  [w \in {"sp", "run", "suppress", "app"} |->
     CASE w = "sp" -> <<"subprocess">>
       [] w = "run" -> <<"subprocess", "run">>
       [] w = "suppress" -> <<"contextlib", "suppress">>
       [] w = "app" -> <<"app", "cli">>]

CheckCall == Top("expr", "", Call(<<"sp", "check_call">>))

Plain ==
  { CheckCall,
    Top("expr", "", Checked(<<"run">>)),
    Top("expr", "", Call(<<"done", "check_returncode">>)),
    Top("expr", "", Call(<<"app", "cli", "go", "check_returncode">>)),
    Top("expr", "", Call(<<"self", "assertEqual">>)),
    Top("assert", "", Attribute(<<"m", "called">>)),
    Top("with", "", Call(<<"pytest", "raises">>)),
    Top("with", "", Patch(<<"patch">>, <<"subprocess", "run">>, <<>>)),
    Top("expr", "", Patch(<<"monkeypatch", "setattr">>, <<"sp">>, <<"check_call">>)),
    In("guarded", CheckCall), In("finally", In("if", CheckCall)),
    In("if", In("def", CheckCall)),
    With(Call(<<"suppress">>), CheckCall), With(Call(<<"open">>), CheckCall) }

\* What binds a name, and how.
Bind(form) ==
  { Top(form, "done", Call(<<"run">>)),
    Top(form, "m", Call(<<"MagicMock">>)),
    Top(form, "done", Call(<<"m", "run">>)) }

Binders ==
  Bind("=") \cup Bind(":=") \cup Bind("with")
  \cup { Top("with", "m", Patch(<<"patch">>, <<"app", "cli", "go">>, <<>>)) }
  \cup { Top("=", "done", Attribute(<<"m">>)),
         Top("with", "done", Patch(<<"patch", "object">>, <<"app">>, <<"go">>)) }

Effects ==
  { s \in Plain : s.inside = <<>> /\ s.value.kind = "call"
                  /\ s.value.chain \notin {<<"self", "assertEqual">>, <<"pytest", "raises">>} }

\* Any two statements, and any three of those that bind, patch and check.
MCBodies ==
  UNION {[1..n -> Plain \cup Binders] : n \in 1..2} \cup [1..3 -> Effects \cup Binders]

Test(params, decorators, body) ==
  [kind |-> "def", role |-> "test", params |-> params, decorators |-> decorators, body |-> body]
Hook(body) ==
  [Test({"self"}, <<Call(<<"pytest", "fixture">>)>>, body) EXCEPT !.role = "hook"]
Class(named, decorators, members) ==
  [kind |-> "class", named_test |-> named, decorators |-> decorators, members |-> members]

PatchRun == Patch(<<"mock", "patch", "object">>, <<"sp">>, <<"run">>)
Starts == Top("=", "p", Patch(<<"patch">>, <<"subprocess", "check_call">>, <<>>))

\* The last test of each file replaces nothing.
Verified == Test({}, <<>>, <<CheckCall>>)

\* One body on its own, or with parameters, decorators, hooks and classes around.
Around(body, k) ==
  CASE k = 1 -> <<Test({}, <<>>, body)>>
    [] k = 2 -> <<Test({"sp", "m"}, <<>>, body)>>
    [] k = 3 -> <<Test({"x"}, <<PatchRun>>, body), Hook(<<Starts>>)>>
    [] k = 4 -> <<Class(TRUE, <<>>, <<Test({"self"}, <<>>, body), Verified>>)>>
    [] k = 5 -> <<Class(TRUE, <<PatchRun>>, <<Test({"self"}, <<>>, body)>>),
                  Class(FALSE, <<>>, <<Verified>>)>>
    [] k = 6 -> <<Class(TRUE, <<>>, <<Test({"self"}, <<>>, body), Hook(<<Starts>>)>>)>>

MCSources ==
  {[aliases |-> MCAliases, children |-> Append(Around(body, k), Verified)] :
     body \in MCBodies, k \in 1..6}

\* A test of a patched process, or of a real one.
MCPatched ==
  {[aliases |-> MCAliases, children |-> <<Test({"done"}, decorators, <<s>>)>>] :
     decorators \in {<<>>, <<Patch(<<"patch">>, <<"app", "cli", "process">>, <<>>)>>},
     s \in {CheckCall, Top("expr", "", Call(<<"app", "cli", "process", "check_returncode">>))}}
===============================================================================
